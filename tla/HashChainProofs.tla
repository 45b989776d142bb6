---------------------------- MODULE HashChainProofs ----------------------------
(***************************************************************************)
(* What the hash-chained logs guarantee for any writers, any number of       *)
(* records and any number of rows changed or lost, in every use.  Two        *)
(* invariants: one of any log, and one of a log that cannot have forked,     *)
(* which the PostgreSQL ledger never can, a SQLite file only when two        *)
(* appends overlap, and the audit log only when retention leaves no row.     *)
(***************************************************************************)
EXTENDS HashChain, SequenceTheorems, WellFoundedInduction, TLAPS

-----------------------------------------------------------------------------
(* The invariant of any log. *)

Records == [seq : Nat, id : Nat, rest : Nat, prev : Seq(Nat), hash : Seq(Nat)]

Pens == [pc : {"idle", "write"}, tip : [seq : Nat, prev : Seq(Nat)]]

\* The hash of a row was made of one of n records and of what came before it; the
\* texts of the row may have changed since.
Written(r, n) ==
  /\ r \in Records /\ r.seq \in 1..n /\ r.prev \in Seq(1..n)
  /\ \E k \in 1..n : /\ r.hash = Append(r.prev, k)
                     /\ r.id \in {k, Changed} /\ r.rest \in {k, Changed}

TablesInv ==
  /\ store \in Stores /\ store \in {"audit", "postgres", "sqlite"}
  /\ history \in Seq(Nat) /\ Len(history) <= MaxRecords
  /\ faults \in 0..MaxFaults
  /\ rows \in Seq(Records) /\ \A i \in 1..Len(rows) : Written(rows[i], Len(history))
  /\ head \in Seq(1..Len(history))
  /\ \A a \in anchors : a.seq \in 1..Len(history)

\* What an append has read is the number and the hash of records there were.
TipInv ==
  /\ writers \in [Writers -> Pens]
  /\ \A w \in Writers : /\ writers[w].tip.seq \in 1..(Len(history) + 1)
                         /\ writers[w].tip.prev \in Seq(1..Len(history))

\* Whoever holds the lock has read the end.
HoldInv ==
  store # "sqlite" =>
    /\ \A w \in Writers : writers[w].pc = "write" => lock = w
    /\ lock # Free => lock \in Writers /\ writers[lock].pc = "write"

LockInv == TipInv /\ HoldInv

\* What is found in order has texts that were hashed.
TextInv ==
  /\ reader \in [pc : {"idle", "read", "told"}, rows : Seq(Records), start : Nat,
                upto : Nat, ok : BOOLEAN]
  /\ \A i \in 1..Len(reader.rows) : Written(reader.rows[i], Len(history))
  /\ reader.upto \in 0..Len(history)
  /\ reader.pc = "told" /\ reader.ok =>
       \A i \in 1..Len(reader.rows) :
         /\ reader.rows[i].id # Changed
         /\ store # "audit" => reader.rows[i].rest = reader.rows[i].id

ForkInv ==
  /\ forkable \in BOOLEAN
  /\ forkable => store = "sqlite" \/ (store = "audit" /\ anchors # {})

AnyInv == TablesInv /\ LockInv /\ TextInv /\ ForkInv

-----------------------------------------------------------------------------
(* The invariant of a log that cannot have forked. *)

\* The records up to number k; the hash of record k is made of just these.
Upto(k) == [i \in 1..k |-> i]

\* Of n records, a row is the one of its number; its texts may have changed since.
Genuine(r, n) ==
  /\ r.seq \in 1..n
  /\ r.id \in {r.seq, Changed}
  /\ r.rest \in {r.seq, Changed}
  /\ r.prev = Upto(r.seq - 1)
  /\ r.hash = Upto(r.seq)

\* The last row and the head stand for everything recorded so far.
EndInv ==
  /\ history = Upto(Len(history))
  /\ store = "postgres" => head = history
  /\ store # "postgres" => IF rows = <<>> THEN history = <<>>
                           ELSE rows[Len(rows)].seq = Len(history)

\* Only one append has read the end, and it is still the end.
WriterInv ==
  /\ writers \in [Writers -> Pens]
  /\ \A v, w \in Writers : writers[v].pc = "write" /\ writers[w].pc = "write" => v = w
  /\ \A w \in Writers : writers[w].pc = "write" =>
       /\ store # "sqlite" => lock = w
       /\ writers[w].tip.prev = history
       /\ store = "audit" => writers[w].tip.seq = Len(history) + 1
  /\ store # "sqlite" /\ lock # Free => lock \in Writers /\ writers[lock].pc = "write"

AnchorInv ==
  /\ \A a \in anchors : /\ a.seq \in 1..Len(history) /\ a.hash = Upto(a.seq)
                        /\ store = "audit"

\* A log nobody touched goes on where the anchor ends and up to the last record.
WholeInv ==
  faults = 0 =>
    /\ Len(rows) = Len(history) - Anchor.seq
    /\ \A i \in 1..Len(rows) : /\ rows[i].seq = Anchor.seq + i
                             /\ rows[i].id = rows[i].seq /\ rows[i].rest = rows[i].seq

\* A log found in order is what was recorded from the start on.
ReaderInv ==
  /\ reader \in [pc : {"idle", "read", "told"}, rows : Seq(Records), start : Nat,
                upto : Nat, ok : BOOLEAN]
  /\ \A i \in 1..Len(reader.rows) : Genuine(reader.rows[i], Len(history))
  /\ reader.upto \in 0..Len(history)
  /\ reader.pc = "told" /\ reader.ok =>
       /\ reader.start + Len(reader.rows) <= Len(history)
       /\ \A i \in 1..Len(reader.rows) : reader.rows[i].id = reader.start + i
       /\ store = "postgres" /\ Len(reader.rows) > 0 => Len(reader.rows) >= reader.upto

DataInv ==
  /\ store \in Stores /\ store \in {"audit", "postgres", "sqlite"}
  /\ history \in Seq(Nat) /\ Len(history) <= MaxRecords
  /\ faults \in 0..MaxFaults
  /\ rows \in Seq(Records)
  /\ \A i \in 1..Len(rows) : Genuine(rows[i], Len(history))

IInv == DataInv /\ EndInv /\ WriterInv /\ AnchorInv /\ WholeInv /\ ReaderInv

\* The inductive invariant.
ChainInv == AnyInv /\ (~forkable => IInv)

-----------------------------------------------------------------------------
(* Hashes. *)

LEMMA UptoMeans ==
  ASSUME NEW k \in Nat
  PROVE  /\ Upto(k) \in Seq(Nat) /\ Len(Upto(k)) = k /\ Upto(k) = [i \in 1..k |-> i]
         /\ Upto(k + 1) = Append(Upto(k), k + 1)
         /\ \A id \in Nat : Append(Upto(k), id) = Upto(k + 1) => id = k + 1
  <1>1. Upto(k) \in Seq(Nat) /\ Len(Upto(k)) = k /\ \A i \in 1..k : Upto(k)[i] = i
    BY DEF Upto
  <1>2. Upto(k + 1) \in Seq(Nat) /\ Len(Upto(k + 1)) = k + 1
        /\ \A i \in 1..(k + 1) : Upto(k + 1)[i] = i
    BY DEF Upto
  <1>3. ASSUME NEW id \in Nat
        PROVE  /\ Append(Upto(k), id) \in Seq(Nat) /\ Len(Append(Upto(k), id)) = k + 1
               /\ \A i \in 1..k : Append(Upto(k), id)[i] = i
               /\ Append(Upto(k), id)[k + 1] = id
    BY <1>1
  <1>4. Upto(k + 1) = Append(Upto(k), k + 1)
    <2>1. \A i \in 1..(k + 1) : Upto(k + 1)[i] = Append(Upto(k), k + 1)[i]
      BY <1>2, <1>3
    <2> QED BY <1>2, <1>3, <2>1, SeqEqual
  <1>5. ASSUME NEW id \in Nat, Append(Upto(k), id) = Upto(k + 1)
        PROVE  id = k + 1
    BY <1>2, <1>3, <1>5
  <1> QED BY <1>1, <1>4, <1>5 DEF Upto

LEMMA UptoZero == Upto(0) = <<>>
  <1>1. Upto(0) \in Seq(Nat) /\ Len(Upto(0)) = 0
    BY UptoMeans
  <1> QED BY <1>1, EmptySeq

LEMMA UptoSame ==
  ASSUME NEW j \in Nat, NEW k \in Nat, Upto(j) = Upto(k)
  PROVE  j = k
  BY UptoMeans

\* Every set of naturals that is not empty has a least number.
LEMMA LeastExists ==
  ASSUME NEW S \in SUBSET Nat, S # {}
  PROVE  \E n \in S : \A m \in S : n <= m
  <1>1. IsWellFoundedOn(OpToRel(<, Nat), Nat)
    BY NatLessThanWellFounded
  <1>2. PICK n \in S : \A m \in S : ~(<<m, n>> \in OpToRel(<, Nat))
    <2> HIDE DEF OpToRel
    <2> QED BY <1>1, WFMin
  <1>3. \A m \in S : ~(m < n)
    BY <1>2 DEF OpToRel
  <1> QED BY <1>3

\* Among anchors that are numbers there is a largest.
LEMMA AnchorAmong ==
  ASSUME NEW n \in Nat, \A a \in anchors : a.seq \in 1..n, anchors # {}
  PROVE  Anchor \in anchors /\ \A b \in anchors : Anchor.seq >= b.seq
  <1> DEFINE S == {n - a.seq : a \in anchors}
  <1>1. S \in SUBSET Nat /\ S # {}
    <2>1. \A a \in anchors : n - a.seq \in Nat
      OBVIOUS
    <2> QED BY <2>1
  <1>2. PICK least \in S : \A m \in S : least <= m
    <2> HIDE DEF S
    <2> QED BY <1>1, LeastExists
  <1>3. PICK a \in anchors : least = n - a.seq
    BY <1>2
  <1>4. \A b \in anchors : a.seq >= b.seq
    <2> TAKE b \in anchors
    <2>1. n - a.seq <= n - b.seq
      BY <1>2, <1>3
    <2> QED BY <2>1
  <1> QED BY <1>4 DEF Anchor

-----------------------------------------------------------------------------
(* What a step does to the rows. *)

\* The rows after the first n are pruned.
LEMMA PruneMeans ==
  ASSUME rows \in Seq(Records), NEW n \in 1..Len(rows), Prune(n)
  PROVE  /\ rows' \in Seq(Records) /\ Len(rows') = Len(rows) - n
         /\ \A i \in 1..(Len(rows) - n) : n + i \in 1..Len(rows) /\ rows'[i] = rows[n + i]
  <1> DEFINE m == Len(rows)
  <1>0. m \in Nat /\ n \in Nat /\ n <= m
    BY LenProperties
  <1>1. rows' = SubSeq(rows, n + 1, m)
    BY DEF Prune
  <1>2. n + 1 \in Int /\ m \in Int /\ m - (n + 1) + 1 = m - n
        /\ (IF n + 1 <= m THEN m - (n + 1) + 1 ELSE 0) = m - n
    BY <1>0
  <1>3. \A i \in (n + 1)..m : i \in 1..m
    BY <1>0
  <1>4. \A i \in 1..(m - n) : n + i \in 1..m /\ n + 1 + i - 1 = n + i
    BY <1>0
  <1>5. \A i \in (n + 1)..m : rows[i] \in Records
    BY <1>3, ElementOfSeq
  <1> HIDE DEF m
  <1>6. /\ rows' \in Seq(Records)
        /\ Len(rows') = (IF n + 1 <= m THEN m - (n + 1) + 1 ELSE 0)
        /\ \A i \in 1..(m - (n + 1) + 1) : rows'[i] = rows[n + 1 + i - 1]
    BY <1>1, <1>2, <1>5, SubSeqProperties
  <1> QED BY <1>2, <1>4, <1>6 DEF m

\* The rows after one is changed.
LEMMA ChangeMeans ==
  ASSUME rows \in Seq(Records), NEW i \in 1..Len(rows), Change(i)
  PROVE  /\ rows' \in Seq(Records) /\ Len(rows') = Len(rows)
         /\ \A j \in 1..Len(rows) :
              /\ rows'[j].seq = rows[j].seq
              /\ rows'[j].prev = rows[j].prev /\ rows'[j].hash = rows[j].hash
              /\ rows'[j].id \in {rows[j].id, Changed}
              /\ rows'[j].rest \in {rows[j].rest, Changed}
  <1>0. rows[i] \in Records
    BY ElementOfSeq
  <1>1. ASSUME NEW row \in Records, rows' = [rows EXCEPT ![i] = row],
               row.seq = rows[i].seq, row.prev = rows[i].prev, row.hash = rows[i].hash,
               row.id \in {rows[i].id, Changed}, row.rest \in {rows[i].rest, Changed}
        PROVE  /\ rows' \in Seq(Records) /\ Len(rows') = Len(rows)
               /\ \A j \in 1..Len(rows) :
                    /\ rows'[j].seq = rows[j].seq
                    /\ rows'[j].prev = rows[j].prev /\ rows'[j].hash = rows[j].hash
                    /\ rows'[j].id \in {rows[j].id, Changed}
                    /\ rows'[j].rest \in {rows[j].rest, Changed}
    <2>1. /\ rows' \in Seq(Records) /\ Len(rows') = Len(rows)
          /\ \A j \in 1..Len(rows) : rows'[j] = IF j = i THEN row ELSE rows[j]
      BY <1>1, ExceptSeq
    <2> QED BY <1>1, <2>1
  <1>2. CASE rows' = [rows EXCEPT ![i].id = Changed]
    <2> DEFINE row == [rows[i] EXCEPT !.id = Changed]
    <2>1. /\ row \in Records /\ row.seq = rows[i].seq /\ row.prev = rows[i].prev
          /\ row.hash = rows[i].hash /\ row.id = Changed /\ row.rest = rows[i].rest
      BY <1>0 DEF Records, Changed
    <2>2. rows' = [rows EXCEPT ![i] = row]
      BY <1>2
    <2> HIDE DEF row
    <2> QED BY <1>1, <2>1, <2>2
  <1>3. CASE rows' = [rows EXCEPT ![i].rest = Changed]
    <2> DEFINE row == [rows[i] EXCEPT !.rest = Changed]
    <2>1. /\ row \in Records /\ row.seq = rows[i].seq /\ row.prev = rows[i].prev
          /\ row.hash = rows[i].hash /\ row.id = rows[i].id /\ row.rest = Changed
      BY <1>0 DEF Records, Changed
    <2>2. rows' = [rows EXCEPT ![i] = row]
      BY <1>3
    <2> HIDE DEF row
    <2> QED BY <1>1, <2>1, <2>2
  <1> QED BY <1>2, <1>3 DEF Change

\* The rows after one is lost.
LEMMA LoseMeans ==
  ASSUME rows \in Seq(Records), NEW i \in 1..Len(rows), Lose(i)
  PROVE  /\ rows' \in Seq(Records) /\ Len(rows') = Len(rows) - 1
         /\ \A j \in 1..(Len(rows) - 1) : rows'[j] = IF j < i THEN rows[j] ELSE rows[j + 1]
  <1> DEFINE n == Len(rows)
             before == SubSeq(rows, 1, i - 1)
             after == SubSeq(rows, i + 1, n)
  <1>0. n \in Nat /\ i \in Nat /\ 1 <= i /\ i <= n
    BY LenProperties
  <1>1. rows' = before \o after
    BY DEF Lose, RemoveAt
  <1>2. \A j \in 1..n : rows[j] \in Records
    BY ElementOfSeq
  <1> HIDE DEF n
  <1>3. before \in Seq(Records) /\ Len(before) = i - 1
        /\ \A j \in 1..(i - 1) : before[j] = rows[j]
    <2>1. 1 \in Int /\ i - 1 \in Int /\ \A j \in 1..(i - 1) : j \in 1..n /\ 1 + j - 1 = j
      BY <1>0
    <2>2. i - 1 - 1 + 1 = i - 1 /\ (IF 1 <= i - 1 THEN i - 1 - 1 + 1 ELSE 0) = i - 1
      BY <1>0
    <2>3. \A j \in 1..(i - 1) : rows[j] \in Records
      BY <1>2, <2>1
    <2>4. before \in Seq(Records)
          /\ Len(before) = (IF 1 <= i - 1 THEN i - 1 - 1 + 1 ELSE 0)
          /\ \A j \in 1..(i - 1 - 1 + 1) : before[j] = rows[1 + j - 1]
      BY <2>1, <2>3, SubSeqProperties
    <2> QED BY <2>1, <2>2, <2>4
  <1>4. after \in Seq(Records) /\ Len(after) = n - i
        /\ \A j \in 1..(n - i) : after[j] = rows[i + j]
    <2>1. i + 1 \in Int /\ n \in Int /\ \A j \in (i + 1)..n : j \in 1..n
      BY <1>0
    <2>2. n - (i + 1) + 1 = n - i /\ (IF i + 1 <= n THEN n - (i + 1) + 1 ELSE 0) = n - i
          /\ \A j \in 1..(n - i) : i + 1 + j - 1 = i + j
      BY <1>0
    <2>3. \A j \in (i + 1)..n : rows[j] \in Records
      BY <1>2, <2>1
    <2>4. after \in Seq(Records)
          /\ Len(after) = (IF i + 1 <= n THEN n - (i + 1) + 1 ELSE 0)
          /\ \A j \in 1..(n - (i + 1) + 1) : after[j] = rows[i + 1 + j - 1]
      BY <2>1, <2>3, SubSeqProperties
    <2> QED BY <2>2, <2>4
  <1> HIDE DEF before, after
  <1>5. /\ rows' \in Seq(Records) /\ Len(rows') = n - 1
        /\ \A j \in 1..(n - 1) : rows'[j] = IF j < i THEN rows[j] ELSE rows[j + 1]
    <2>1. /\ before \o after \in Seq(Records)
          /\ Len(before \o after) = (i - 1) + (n - i)
          /\ \A j \in 1..((i - 1) + (n - i)) :
               (before \o after)[j] = IF j <= i - 1 THEN before[j] ELSE after[j - (i - 1)]
      <3>1. /\ before \o after \in Seq(Records)
            /\ Len(before \o after) = Len(before) + Len(after)
            /\ \A j \in 1..(Len(before) + Len(after)) :
                 (before \o after)[j] = IF j <= Len(before) THEN before[j]
                                       ELSE after[j - Len(before)]
        BY <1>3, <1>4, ConcatProperties
      <3> QED BY <1>3, <1>4, <3>1
    <2>2. (i - 1) + (n - i) = n - 1
      BY <1>0
    <2>3. ASSUME NEW j \in 1..(n - 1)
          PROVE  rows'[j] = IF j < i THEN rows[j] ELSE rows[j + 1]
      <3>1. CASE j < i
        <4>1. j \in 1..(i - 1) /\ j <= i - 1
          BY <1>0, <3>1
        <4> QED BY <1>1, <1>3, <2>1, <2>2, <3>1, <4>1
      <3>2. CASE ~(j < i)
        <4>1. ~(j <= i - 1) /\ j - (i - 1) \in 1..(n - i) /\ i + (j - (i - 1)) = j + 1
          BY <1>0, <3>2
        <4> QED BY <1>1, <1>4, <2>1, <2>2, <3>2, <4>1
      <3> QED BY <3>1, <3>2
    <2> QED BY <1>1, <2>1, <2>2, <2>3
  <1> QED BY <1>5 DEF n

-----------------------------------------------------------------------------
(* Any log. *)

LEMMA SeqGrows ==
  ASSUME NEW n \in Nat, NEW s \in Seq(1..n)
  PROVE  s \in Seq(1..(n + 1))
  <1>1. 1..n \subseteq 1..(n + 1)
    OBVIOUS
  <1> QED BY <1>1, SeqMonotonic

LEMMA WrittenGrows ==
  ASSUME NEW n \in Nat, NEW r, Written(r, n)
  PROVE  Written(r, n + 1)
  <1>1. r.prev \in Seq(1..(n + 1))
    BY SeqGrows DEF Written
  <1>2. 1..n \subseteq 1..(n + 1)
    OBVIOUS
  <1> QED BY <1>1, <1>2 DEF Written

\* Only the texts of a row have changed.
LEMMA WrittenChanged ==
  ASSUME NEW n, NEW r, Written(r, n), NEW q \in Records,
         q.seq = r.seq, q.prev = r.prev, q.hash = r.hash,
         q.id \in {r.id, Changed}, q.rest \in {r.rest, Changed}
  PROVE  Written(q, n)
  BY DEF Written

\* What an append reads.
LEMMA EndBounds ==
  ASSUME TablesInv
  PROVE  End.seq \in 1..(Len(history) + 1) /\ End.prev \in Seq(1..Len(history))
  <1> DEFINE n == Len(history)
  <1>0. n \in Nat /\ Len(rows) \in Nat
    BY LenProperties DEF TablesInv
  <1>1. <<>> \in Seq(1..n)
    BY EmptySeq
  <1>2. ASSUME rows # <<>>
        PROVE  Last(rows).seq \in 1..n /\ Last(rows).hash \in Seq(1..n)
    <2>1. Len(rows) \in 1..Len(rows)
      BY <1>0, <1>2, EmptySeq DEF TablesInv
    <2>2. Written(Last(rows), n)
      BY <2>1 DEF TablesInv, Last
    <2>3. PICK k \in 1..n : Last(rows).hash = Append(Last(rows).prev, k)
      BY <2>2 DEF Written
    <2> HIDE DEF n
    <2> QED BY <2>2, <2>3, AppendProperties DEF Written
  <1>3. End.seq \in 1..(n + 1)
    BY <1>0, <1>2 DEF End
  <1>4. End.prev \in Seq(1..n)
    BY <1>1, <1>2 DEF End, Genesis, TablesInv
  <1> QED BY <1>3, <1>4

LEMMA AnyInit == ASSUME Init PROVE AnyInv
  <1>0. <<>> \in Seq(Nat) /\ <<>> \in Seq(Records) /\ <<>> \in Seq(1..0) /\ Len(<<>>) = 0
    BY EmptySeq
  <1>1. TablesInv
    BY <1>0, ChainAssumption DEF Init, TablesInv, ChainAssumption, Genesis
  <1>2. LockInv
    <2>1. TipInv
      <3>1. writers = [w \in Writers |-> [pc |-> "idle", tip |-> NoTip]] /\ Len(history) = 0
        BY <1>0 DEF Init
      <3>2. [pc |-> "idle", tip |-> NoTip] \in Pens
            /\ NoTip.seq \in 1..(0 + 1) /\ NoTip.prev \in Seq(1..0)
        BY <1>0 DEF Pens, NoTip, Genesis
      <3> HIDE DEF NoTip, Pens
      <3> QED BY <3>1, <3>2 DEF TipInv
    <2>2. HoldInv
      BY ChainAssumption DEF Init, HoldInv, ChainAssumption
    <2> QED BY <2>1, <2>2 DEF LockInv
  <1>3. TextInv /\ ForkInv
    <2>1. reader.pc = "idle" /\ reader.rows = <<>> /\ reader.upto = 0
          /\ reader \in [pc : {"idle", "read", "told"}, rows : Seq(Records), start : Nat,
                         upto : Nat, ok : BOOLEAN]
      BY <1>0 DEF Init
    <2>2. Len(history) = 0
      BY <1>0 DEF Init
    <2>3. TextInv
      BY <1>0, <2>1, <2>2 DEF TextInv
    <2>4. ForkInv
      BY DEF Init, ForkInv
    <2> QED BY <2>3, <2>4
  <1> QED BY <1>1, <1>2, <1>3 DEF AnyInv

\* The append of w, which held the lock, is over.
LEMMA AnyIdle ==
  ASSUME LockInv, Len(history) \in Nat, NEW w \in Writers, writers[w].pc = "write",
         writers' = [writers EXCEPT ![w] = [pc |-> "idle", tip |-> NoTip]], lock' = Free,
         store' = store, Len(history') \in {Len(history), Len(history) + 1}
  PROVE  LockInv'
  <1> DEFINE over == [pc |-> "idle", tip |-> NoTip]
             n == Len(history)
             n2 == Len(history')
  <1>1. /\ over \in Pens /\ over.pc = "idle"
        /\ over.tip.seq \in 1..(n2 + 1) /\ over.tip.prev \in Seq(1..n2)
    <2>1. n2 \in Nat
      OBVIOUS
    <2> HIDE DEF n2
    <2>2. <<>> \in Seq(1..n2) /\ <<>> \in Seq(Nat) /\ 1 \in 1..(n2 + 1)
      BY <2>1, EmptySeq
    <2> QED BY <2>2 DEF Pens, NoTip, Genesis
  <1> HIDE DEF over
  <1>2. writers' \in [Writers -> Pens]
        /\ \A v \in Writers : writers'[v] = IF v = w THEN over ELSE writers[v]
    BY <1>1 DEF LockInv, TipInv, over
  <1>3. ASSUME NEW v \in Writers
        PROVE  writers[v].tip.seq \in 1..(n2 + 1) /\ writers[v].tip.prev \in Seq(1..n2)
    <2>1. writers[v].tip.seq \in 1..(n + 1) /\ writers[v].tip.prev \in Seq(1..n)
      BY DEF LockInv, TipInv
    <2>2. n \in Nat /\ n2 \in {n, n + 1}
      OBVIOUS
    <2> HIDE DEF n, n2
    <2> QED BY <2>1, <2>2, SeqGrows
  <1>4. TipInv'
    <2>1. ASSUME NEW v \in Writers
          PROVE  writers'[v].tip.seq \in 1..(n2 + 1) /\ writers'[v].tip.prev \in Seq(1..n2)
      <3> HIDE DEF n2
      <3>1. CASE v = w
        <4>1. writers'[v] = over
          BY <1>2, <3>1
        <4> QED BY <1>1, <4>1
      <3>2. CASE v # w
        BY <1>2, <1>3, <3>2
      <3> QED BY <3>1, <3>2
    <2> QED BY <1>2, <2>1 DEF TipInv
  <1>5. HoldInv'
    <2>1. ASSUME store # "sqlite", NEW v \in Writers
          PROVE  writers'[v].pc # "write"
      <3>1. v # w => writers[v].pc # "write"
        BY <2>1 DEF LockInv, HoldInv
      <3> QED BY <1>1, <1>2, <3>1
    <2> QED BY <2>1 DEF HoldInv
  <1> QED BY <1>4, <1>5 DEF LockInv

\* The tables stay as they are.
LEMMA TablesStay ==
  ASSUME TablesInv, UNCHANGED <<store, rows, anchors, head, history, faults>>
  PROVE  TablesInv'
  BY DEF TablesInv

LEMMA TextStays ==
  ASSUME TextInv, UNCHANGED <<store, reader, history>>
  PROVE  TextInv'
  BY DEF TextInv

LEMMA AnyReadEnd == ASSUME AnyInv, NEW w \in Writers, ReadEnd(w) PROVE AnyInv'
  <1>0. TablesInv /\ LockInv /\ TextInv /\ ForkInv /\ Len(history) \in Nat
    BY LenProperties DEF AnyInv, TablesInv
  <1>1. UNCHANGED <<store, rows, anchors, head, reader, history, faults>>
        /\ writers' = [writers EXCEPT ![w] = [pc |-> "write", tip |-> End]]
        /\ lock' = (IF store = "sqlite" THEN Free ELSE w)
        /\ forkable' = (forkable \/ Overlaps) /\ MayRead
    BY DEF ReadEnd
  <1> DEFINE asked == [pc |-> "write", tip |-> End]
  <1>2. /\ asked \in Pens /\ asked.pc = "write"
        /\ asked.tip.seq \in 1..(Len(history) + 1) /\ asked.tip.prev \in Seq(1..Len(history))
    <2>1. End.seq \in 1..(Len(history) + 1) /\ End.prev \in Seq(1..Len(history))
      BY <1>0, EndBounds
    <2>2. End \in [seq : Nat, prev : Seq(Nat)]
      <3>1. 1..Len(history) \subseteq Nat
        BY <1>0
      <3>2. End.prev \in Seq(Nat)
        BY <2>1, <3>1, SeqMonotonic
      <3>3. End.seq \in Nat
        BY <1>0, <2>1
      <3>4. End = [seq |-> End.seq, prev |-> End.prev]
        BY DEF End
      <3> HIDE DEF End
      <3> QED BY <3>2, <3>3, <3>4
    <2> QED BY <2>1, <2>2 DEF Pens
  <1> HIDE DEF asked
  <1>3. writers' \in [Writers -> Pens]
        /\ \A v \in Writers : writers'[v] = IF v = w THEN asked ELSE writers[v]
    BY <1>0, <1>1, <1>2 DEF LockInv, TipInv, asked
  <1>4. LockInv'
    <2>1. TipInv'
      <3>1. history' = history
        BY <1>1
      <3> QED BY <1>0, <1>2, <1>3, <3>1 DEF LockInv, TipInv
    <2>2. ASSUME store # "sqlite", NEW v \in Writers
          PROVE  writers[v].pc # "write"
      BY <1>0, <1>1, <2>2, ChainAssumption DEF LockInv, HoldInv, MayRead, LockFree, ChainAssumption
    <2>3. HoldInv'
      BY <1>1, <1>2, <1>3, <2>2 DEF HoldInv
    <2> QED BY <2>1, <2>3 DEF LockInv
  <1>5. ForkInv'
    BY <1>0, <1>1 DEF ForkInv, Overlaps
  <1> QED BY <1>0, <1>1, <1>4, <1>5, TablesStay, TextStays DEF AnyInv

LEMMA AnyGiveUp == ASSUME AnyInv, NEW w \in Writers, GiveUp(w) PROVE AnyInv'
  <1>0. TablesInv /\ LockInv /\ TextInv /\ ForkInv /\ Len(history) \in Nat
    BY LenProperties DEF AnyInv, TablesInv
  <1>1. UNCHANGED <<store, rows, anchors, head, reader, history, faults, forkable>>
        /\ writers' = [writers EXCEPT ![w] = [pc |-> "idle", tip |-> NoTip]]
        /\ lock' = Free /\ writers[w].pc = "write"
    BY DEF GiveUp
  <1>2. LockInv'
    BY <1>0, <1>1, AnyIdle
  <1>3. ForkInv'
    BY <1>0, <1>1 DEF ForkInv
  <1> QED BY <1>0, <1>1, <1>2, <1>3, TablesStay, TextStays DEF AnyInv

LEMMA AnyInsert == ASSUME AnyInv, NEW w \in Writers, Insert(w) PROVE AnyInv'
  <1> DEFINE n == Len(history)
             tip == writers[w].tip
             seq == IF store = "audit" THEN tip.seq ELSE n + 1
             row == [seq |-> seq, id |-> n + 1, rest |-> n + 1, prev |-> tip.prev,
                     hash |-> Digest(tip.prev, n + 1)]
  <1>0. TablesInv /\ LockInv /\ TextInv /\ ForkInv
        /\ n \in Nat /\ Len(rows) \in Nat /\ history \in Seq(Nat) /\ rows \in Seq(Records)
    BY LenProperties DEF AnyInv, TablesInv
  <1>1. /\ rows' = Append(rows, row) /\ history' = Append(history, n + 1)
        /\ head' = IF store = "postgres" THEN row.hash ELSE head
        /\ writers' = [writers EXCEPT ![w] = [pc |-> "idle", tip |-> NoTip]]
        /\ lock' = Free /\ writers[w].pc = "write" /\ n < MaxRecords
        /\ UNCHANGED <<store, anchors, reader, faults, forkable>>
    BY DEF Insert
  <1>2. Len(history') = n + 1 /\ history' \in Seq(Nat)
    BY <1>0, <1>1
  <1>3. row \in Records /\ Written(row, n + 1) /\ row.hash \in Seq(1..(n + 1))
    <2>1. tip.seq \in 1..(n + 1) /\ tip.prev \in Seq(1..n) /\ tip.prev \in Seq(Nat)
      BY <1>0 DEF LockInv, TipInv, Pens
    <2> HIDE DEF n, tip
    <2>2. tip.prev \in Seq(1..(n + 1)) /\ n + 1 \in 1..(n + 1) /\ n + 1 \in Nat
      BY <1>0, <2>1, SeqGrows
    <2>3. Append(tip.prev, n + 1) \in Seq(1..(n + 1)) /\ Append(tip.prev, n + 1) \in Seq(Nat)
      BY <2>1, <2>2, AppendProperties
    <2>4. seq \in 1..(n + 1) /\ seq \in Nat
      BY <1>0, <2>1, <2>2
    <2> HIDE DEF seq
    <2>5. /\ row \in Records /\ row.seq = seq /\ row.id = n + 1 /\ row.rest = n + 1
          /\ row.prev = tip.prev /\ row.hash = Append(tip.prev, n + 1)
      BY <2>1, <2>2, <2>3, <2>4 DEF Records, Digest
    <2> HIDE DEF row
    <2> QED BY <2>2, <2>3, <2>4, <2>5 DEF Written
  <1> HIDE DEF row, seq, tip
  <1>4. /\ rows' \in Seq(Records) /\ Len(rows') = Len(rows) + 1 /\ rows'[Len(rows) + 1] = row
        /\ \A i \in 1..Len(rows) : rows'[i] = rows[i]
    BY <1>0, <1>1, <1>3
  <1>5. TablesInv'
    <2>1. ASSUME NEW i \in 1..Len(rows')
          PROVE  Written(rows'[i], n + 1)
      <3>1. CASE i = Len(rows) + 1
        BY <1>3, <1>4, <3>1
      <3>2. CASE i # Len(rows) + 1
        <4>1. i \in 1..Len(rows) /\ rows'[i] = rows[i]
          BY <1>0, <1>4, <3>2
        <4>2. Written(rows[i], n)
          BY <1>0, <4>1 DEF TablesInv
        <4> HIDE DEF n
        <4> QED BY <1>0, <4>1, <4>2, WrittenGrows
      <3> QED BY <3>1, <3>2
    <2>2. MaxRecords \in Nat /\ n + 1 <= MaxRecords
      BY <1>0, <1>1, ChainAssumption DEF ChainAssumption
    <2>3. head' \in Seq(1..(n + 1))
      <3>1. head \in Seq(1..n)
        BY <1>0 DEF TablesInv
      <3> HIDE DEF n
      <3> QED BY <1>0, <1>1, <1>3, <3>1, SeqGrows
    <2>4. \A a \in anchors : a.seq \in 1..(n + 1)
      BY <1>0 DEF TablesInv
    <2> QED BY <1>0, <1>1, <1>2, <1>4, <2>1, <2>2, <2>3, <2>4 DEF TablesInv
  <1>6. LockInv'
    BY <1>0, <1>1, <1>2, AnyIdle
  <1>7. TextInv'
    <2>1. Len(reader.rows) \in Nat
      BY <1>0, LenProperties DEF TextInv
    <2>2. \A i \in 1..Len(reader.rows) : Written(reader.rows[i], n + 1)
      <3> TAKE i \in 1..Len(reader.rows)
      <3>1. Written(reader.rows[i], n)
        BY <1>0 DEF TextInv
      <3> HIDE DEF n
      <3> QED BY <1>0, <3>1, WrittenGrows
    <2>3. n + 1 \in Nat /\ reader.upto \in 0..(n + 1)
      BY <1>0 DEF TextInv
    <2> QED BY <1>0, <1>1, <1>2, <2>1, <2>2, <2>3 DEF TextInv
  <1>8. ForkInv'
    BY <1>0, <1>1 DEF ForkInv
  <1> QED BY <1>5, <1>6, <1>7, <1>8 DEF AnyInv

LEMMA AnyPrune == ASSUME AnyInv, NEW n \in 1..Len(rows), Prune(n) PROVE AnyInv'
  <1>0. TablesInv /\ LockInv /\ TextInv /\ ForkInv /\ rows \in Seq(Records)
        /\ Len(rows) \in Nat /\ Len(history) \in Nat
    BY LenProperties DEF AnyInv, TablesInv
  <1>1. /\ anchors' = anchors \cup {AnchorAt(n)} /\ store = "audit"
        /\ UNCHANGED <<store, head, lock, writers, reader, history, faults>>
        /\ forkable' = (forkable \/ n = Len(rows))
    BY DEF Prune
  <1>2. /\ rows' \in Seq(Records) /\ Len(rows') = Len(rows) - n
        /\ \A i \in 1..(Len(rows) - n) : n + i \in 1..Len(rows) /\ rows'[i] = rows[n + i]
    BY <1>0, PruneMeans
  <1>3. AnchorAt(n).seq \in 1..Len(history)
    BY <1>0 DEF TablesInv, Written, AnchorAt
  <1>4. TablesInv'
    BY <1>0, <1>1, <1>2, <1>3 DEF TablesInv
  <1>5. LockInv'
    BY <1>0, <1>1 DEF LockInv, TipInv, HoldInv
  <1>6. ForkInv'
    BY <1>0, <1>1 DEF ForkInv
  <1> QED BY <1>0, <1>1, <1>4, <1>5, <1>6, TextStays DEF AnyInv

\* What any outside step leaves alone.
LEMMA AnyFault ==
  ASSUME AnyInv, Fault, rows' \in Seq(Records),
         \A i \in 1..Len(rows') : Written(rows'[i], Len(history))
  PROVE  AnyInv'
  <1>0. TablesInv /\ LockInv /\ TextInv /\ ForkInv
    BY DEF AnyInv
  <1>1. /\ UNCHANGED <<store, anchors, head, lock, writers, reader, history, forkable>>
        /\ faults < MaxFaults /\ faults' = faults + 1
    BY DEF Fault
  <1>2. faults' \in 0..MaxFaults
    BY <1>0, <1>1, ChainAssumption DEF TablesInv, ChainAssumption
  <1>3. TablesInv'
    BY <1>0, <1>1, <1>2 DEF TablesInv
  <1>4. LockInv' /\ ForkInv'
    BY <1>0, <1>1 DEF LockInv, TipInv, HoldInv, ForkInv
  <1> QED BY <1>0, <1>1, <1>3, <1>4, TextStays DEF AnyInv

LEMMA AnyChange == ASSUME AnyInv, NEW i \in 1..Len(rows), Change(i) PROVE AnyInv'
  <1>0. rows \in Seq(Records) /\ \A j \in 1..Len(rows) : Written(rows[j], Len(history))
    BY DEF AnyInv, TablesInv
  <1>1. /\ rows' \in Seq(Records) /\ Len(rows') = Len(rows)
        /\ \A j \in 1..Len(rows) :
             /\ rows'[j].seq = rows[j].seq
             /\ rows'[j].prev = rows[j].prev /\ rows'[j].hash = rows[j].hash
             /\ rows'[j].id \in {rows[j].id, Changed}
             /\ rows'[j].rest \in {rows[j].rest, Changed}
    BY <1>0, ChangeMeans
  <1>2. ASSUME NEW j \in 1..Len(rows')
        PROVE  Written(rows'[j], Len(history))
    <2>1. rows'[j] \in Records /\ j \in 1..Len(rows)
      BY <1>1, ElementOfSeq
    <2> QED BY <1>0, <1>1, <2>1, WrittenChanged
  <1>3. Fault
    BY DEF Change
  <1> QED BY <1>1, <1>2, <1>3, AnyFault

LEMMA AnyLose == ASSUME AnyInv, NEW i \in 1..Len(rows), Lose(i) PROVE AnyInv'
  <1>0. rows \in Seq(Records) /\ \A j \in 1..Len(rows) : Written(rows[j], Len(history))
    BY DEF AnyInv, TablesInv
  <1>1. /\ rows' \in Seq(Records) /\ Len(rows') = Len(rows) - 1
        /\ \A j \in 1..(Len(rows) - 1) : rows'[j] = IF j < i THEN rows[j] ELSE rows[j + 1]
    BY <1>0, LoseMeans
  <1>2. ASSUME NEW j \in 1..Len(rows')
        PROVE  Written(rows'[j], Len(history))
    <2>1. Len(rows) \in Nat
      BY <1>0, LenProperties
    <2>2. j \in 1..(Len(rows) - 1) /\ j \in 1..Len(rows) /\ j + 1 \in 1..Len(rows)
      BY <1>1, <2>1
    <2> QED BY <1>0, <1>1, <2>2
  <1>3. Fault
    BY DEF Lose
  <1> QED BY <1>1, <1>2, <1>3, AnyFault

LEMMA AnyReadRows == ASSUME AnyInv, ReadRows PROVE AnyInv'
  <1>0. TablesInv /\ LockInv /\ ForkInv /\ Len(history) \in Nat
    BY LenProperties DEF AnyInv, TablesInv
  <1>1. reader' = [pc |-> "read", rows |-> rows, start |-> 0, upto |-> Len(history), ok |-> FALSE]
        /\ UNCHANGED <<store, rows, anchors, head, lock, writers, history, faults, forkable>>
    BY DEF ReadRows
  <1>2. TextInv'
    BY <1>0, <1>1 DEF TextInv, TablesInv
  <1>3. LockInv' /\ ForkInv'
    BY <1>0, <1>1 DEF LockInv, TipInv, HoldInv, ForkInv
  <1> QED BY <1>0, <1>1, <1>2, <1>3, TablesStay DEF AnyInv

\* A row that reconciles, whatever it links to, has the text that was hashed.
LEMMA ReconciledText ==
  ASSUME NEW n \in Nat, NEW r, Written(r, n), NEW prev, Reconciles(r, prev)
  PROVE  r.id # Changed /\ (store # "audit" => r.rest = r.id)
  <1>1. PICK k \in 1..n : /\ r.hash = Append(r.prev, k)
                          /\ r.id \in {k, Changed} /\ r.rest \in {k, Changed}
    BY DEF Written
  <1>2. r.hash = Append(r.prev, Hashed(r)) /\ r.prev \in Seq(Nat) /\ Hashed(r) \in Nat /\ k \in Nat
    <2>1. r.hash = Append(r.prev, Hashed(r)) /\ r.prev \in Seq(Nat)
      BY DEF Reconciles, Digest, Written, Records
    <2>2. r.id \in Nat /\ k \in Nat
      BY <1>1 DEF Changed
    <2> QED BY <2>1, <2>2 DEF Hashed, Changed
  <1>3. Hashed(r) = k
    <2> DEFINE text == Hashed(r)
               before == r.prev
    <2>1. text \in Nat /\ before \in Seq(Nat) /\ k \in Nat
          /\ Append(before, text) = Append(before, k)
      BY <1>1, <1>2
    <2> HIDE DEF text, before
    <2>2. /\ Append(before, text)[Len(before) + 1] = text
          /\ Append(before, k)[Len(before) + 1] = k
      BY <2>1, AppendProperties
    <2>3. text = k
      BY <2>1, <2>2
    <2> QED BY <2>3 DEF text
  <1> QED BY <1>1, <1>3 DEF Hashed, Changed

LEMMA AnyJudge == ASSUME AnyInv, Judge PROVE AnyInv'
  <1> DEFINE ok == Linked(reader.rows, Anchor) /\ EndsAt(reader.rows, head)
  <1>0. TablesInv /\ LockInv /\ TextInv /\ ForkInv /\ Len(history) \in Nat
    BY LenProperties DEF AnyInv, TablesInv
  <1>1. /\ reader' = [reader EXCEPT !.pc = "told", !.start = Anchor.seq, !.ok = ok]
        /\ UNCHANGED <<store, rows, anchors, head, lock, writers, history, faults, forkable>>
    BY DEF Judge
  <1>2. ok \in BOOLEAN
    BY DEF Linked, EndsAt
  <1>3. ASSUME ok, NEW i \in 1..Len(reader.rows)
        PROVE  /\ reader.rows[i].id # Changed
               /\ store # "audit" => reader.rows[i].rest = reader.rows[i].id
    <2>1. PICK prev : Reconciles(reader.rows[i], prev)
      BY <1>3 DEF Linked
    <2>2. Written(reader.rows[i], Len(history))
      BY <1>0 DEF TextInv
    <2> QED BY <1>0, <2>1, <2>2, ReconciledText
  <1>4. Anchor.seq \in Nat
    <2>1. CASE anchors = {}
      BY <2>1 DEF Anchor
    <2>2. CASE anchors # {}
      BY <1>0, <2>2, AnchorAmong DEF TablesInv
    <2> QED BY <2>1, <2>2
  <1>5. TextInv'
    <2>1. /\ reader'.pc = "told" /\ reader'.ok = ok /\ reader'.rows = reader.rows
          /\ reader'.upto = reader.upto
          /\ reader' \in [pc : {"idle", "read", "told"}, rows : Seq(Records), start : Nat,
                          upto : Nat, ok : BOOLEAN]
      <3> HIDE DEF ok
      <3> QED BY <1>0, <1>1, <1>2, <1>4 DEF TextInv
    <2>2. store' = store /\ history' = history
      BY <1>1
    <2> HIDE DEF ok
    <2> QED BY <1>0, <1>3, <2>1, <2>2 DEF TextInv
  <1>6. LockInv' /\ ForkInv'
    BY <1>0, <1>1 DEF LockInv, TipInv, HoldInv, ForkInv
  <1> QED BY <1>0, <1>1, <1>5, <1>6, TablesStay DEF AnyInv

LEMMA AnyNext == ASSUME AnyInv, [Next]_vars PROVE AnyInv'
  <1>1. ASSUME NEW w \in Writers, ReadEnd(w) \/ Insert(w) \/ GiveUp(w) PROVE AnyInv'
    BY <1>1, AnyReadEnd, AnyInsert, AnyGiveUp
  <1>2. ASSUME NEW n \in 1..Len(rows), Prune(n) \/ Change(n) \/ Lose(n) PROVE AnyInv'
    BY <1>2, AnyPrune, AnyChange, AnyLose
  <1>3. CASE ReadRows
    BY <1>3, AnyReadRows
  <1>4. CASE Judge
    BY <1>4, AnyJudge
  <1>5. CASE UNCHANGED vars
    BY <1>5, TablesStay, TextStays DEF AnyInv, vars, LockInv, TipInv, HoldInv, ForkInv
  <1> QED BY <1>1, <1>2, <1>3, <1>4, <1>5 DEF Next

-----------------------------------------------------------------------------
(* The start and the end of the chain. *)

\* The anchor with the largest number.
LEMMA AnchorMeans ==
  ASSUME DataInv, AnchorInv
  PROVE  /\ Anchor.seq \in 0..Len(history) /\ Anchor.hash = Upto(Anchor.seq)
         /\ \A a \in anchors : a.seq <= Anchor.seq
         /\ store # "audit" => Anchor.seq = 0
  <1>0. Len(history) \in Nat
    BY LenProperties DEF DataInv
  <1>1. CASE anchors = {}
    BY <1>0, <1>1, UptoZero DEF Anchor, AnchorInv, Genesis
  <1>2. CASE anchors # {}
    <2>1. \A a \in anchors : a.seq \in 1..Len(history)
      BY DEF AnchorInv
    <2>2. Anchor \in anchors /\ \A b \in anchors : Anchor.seq >= b.seq
      BY <1>0, <1>2, <2>1, AnchorAmong
    <2> QED BY <1>0, <2>1, <2>2 DEF AnchorInv
  <1> QED BY <1>1, <1>2

\* What an append reads.
LEMMA EndMeans ==
  ASSUME DataInv, EndInv
  PROVE  /\ End \in [seq : Nat, prev : Seq(Nat)] /\ End.prev = history
         /\ store = "audit" => End.seq = Len(history) + 1
  <1>0. Len(history) \in Nat /\ Len(rows) \in Nat /\ history \in Seq(Nat)
    BY LenProperties DEF DataInv
  <1>1. CASE rows = <<>>
    <2>1. End.seq = 1
      BY <1>1 DEF End
    <2>2. End.prev = history
      BY <1>1 DEF End, EndInv, Genesis, DataInv
    <2>3. store # "postgres" => history = <<>> /\ Len(history) = 0
      BY <1>1 DEF EndInv
    <2> QED BY <1>0, <2>1, <2>2, <2>3 DEF End
  <1>2. CASE rows # <<>>
    <2>1. Len(rows) \in 1..Len(rows)
      BY <1>0, <1>2, EmptySeq DEF DataInv
    <2>2. Genuine(rows[Len(rows)], Len(history))
      BY <2>1 DEF DataInv
    <2>3. End.seq = rows[Len(rows)].seq + 1 /\ End.seq \in Nat
      BY <1>0, <1>2, <2>2 DEF End, Last, Genuine
    <2>4. store # "postgres" => rows[Len(rows)].seq = Len(history)
      BY <1>2 DEF EndInv
    <2>5. End.prev = history
      <3>1. CASE store = "postgres"
        BY <3>1 DEF End, EndInv
      <3>2. CASE store # "postgres"
        BY <1>2, <2>2, <2>4, <3>2 DEF End, Last, EndInv, Genuine
      <3> QED BY <3>1, <3>2
    <2> QED BY <1>0, <2>3, <2>4, <2>5 DEF End
  <1> QED BY <1>1, <1>2

-----------------------------------------------------------------------------
(* Verification. *)

\* A genuine row that reconciles with record m is record m + 1, its text unchanged.
LEMMA ReconcilesMeans ==
  ASSUME DataInv, NEW r \in Records, Genuine(r, Len(history)), NEW m \in Nat, Reconciles(r, Upto(m))
  PROVE  r.seq = m + 1 /\ r.id = m + 1
  <1>1. r.seq \in Nat /\ r.seq - 1 \in Nat /\ r.id \in Nat
    BY LenProperties DEF DataInv, Genuine, Records
  <1>2. Upto(r.seq - 1) = Upto(m)
    BY DEF Genuine, Reconciles
  <1>3. r.seq = m + 1
    BY <1>1, <1>2, UptoSame
  <1>4. Append(Upto(m), Hashed(r)) = Upto(m + 1) /\ Hashed(r) \in Nat
    BY <1>1, <1>3 DEF Genuine, Reconciles, Digest, Hashed, Changed
  <1>5. Hashed(r) = m + 1
    BY <1>4, UptoMeans
  <1> QED BY <1>1, <1>3, <1>5 DEF Hashed, Changed

\* Rows that link from record m on are the records after it, in order.
LEMMA LinkedMeans ==
  ASSUME DataInv, NEW rs \in Seq(Records), \A i \in 1..Len(rs) : Genuine(rs[i], Len(history)),
         NEW start, start.seq \in Nat, start.hash = Upto(start.seq), Linked(rs, start)
  PROVE  \A i \in 1..Len(rs) : rs[i].seq = start.seq + i /\ rs[i].id = start.seq + i
  <1> DEFINE m == start.seq
             Good(i) == rs[i].seq = m + i /\ rs[i].id = m + i
             Bad == {i \in 1..Len(rs) : ~Good(i)}
  <1>0. Len(rs) \in Nat /\ m \in Nat
    BY LenProperties
  <1>1. ASSUME Bad # {} PROVE FALSE
    <2>1. Bad \in SUBSET Nat
      BY <1>0
    <2>2. PICK i \in Bad : \A j \in Bad : i <= j
      <3> HIDE DEF Bad
      <3> QED BY <1>1, <2>1, LeastExists
    <2>3. i \in 1..Len(rs) /\ rs[i] \in Records /\ Genuine(rs[i], Len(history))
      BY <2>2, ElementOfSeq
    <2>4. Reconciles(rs[i], IF i = 1 THEN start.hash ELSE rs[i - 1].hash)
      BY <2>3 DEF Linked
    <2>5. CASE i = 1
      <3>1. Reconciles(rs[i], Upto(m))
        BY <2>4, <2>5
      <3>2. Good(i)
        BY <1>0, <2>3, <2>5, <3>1, ReconcilesMeans
      <3> QED BY <2>2, <3>2
    <2>6. CASE i # 1
      <3>1. i - 1 \in 1..Len(rs) /\ i - 1 \in Nat /\ ~(i <= i - 1)
        BY <1>0, <2>3, <2>6
      <3>2. Good(i - 1)
        BY <2>2, <3>1
      <3>3. rs[i - 1].hash = Upto(m + (i - 1))
        BY <3>1, <3>2 DEF Genuine
      <3>4. m + (i - 1) \in Nat
        BY <1>0, <3>1
      <3>5. Reconciles(rs[i], Upto(m + (i - 1)))
        BY <2>4, <2>6, <3>3
      <3>6. rs[i].seq = m + (i - 1) + 1 /\ rs[i].id = m + (i - 1) + 1
        BY <2>3, <3>4, <3>5, ReconcilesMeans
      <3>7. Good(i)
        BY <1>0, <2>3, <3>6
      <3> QED BY <2>2, <3>7
    <2> QED BY <2>5, <2>6
  <1> QED BY <1>1

\* Rows that are the records after m link from it on.
LEMMA WholeLinks ==
  ASSUME DataInv, NEW m \in Nat, NEW start, start.seq = m, start.hash = Upto(m),
         \A i \in 1..Len(rows) : /\ rows[i].seq = m + i
                                  /\ rows[i].id = rows[i].seq /\ rows[i].rest = rows[i].seq
  PROVE  Linked(rows, start)
  <1>0. Len(rows) \in Nat
    BY LenProperties DEF DataInv
  <1> SUFFICES ASSUME NEW i \in 1..Len(rows)
               PROVE  /\ Reconciles(rows[i], IF i = 1 THEN start.hash ELSE rows[i - 1].hash)
                      /\ rows[i].seq = start.seq + i
    BY DEF Linked
  <1>1. Genuine(rows[i], Len(history)) /\ rows[i].seq = m + i /\ Hashed(rows[i]) = m + i
    BY <1>0 DEF DataInv, Hashed, Changed
  <1>2. m + i - 1 \in Nat /\ m + i = (m + i - 1) + 1
    BY <1>0
  <1>3. rows[i].prev = Upto(m + i - 1)
    BY <1>1 DEF Genuine
  <1>4. rows[i].hash = Digest(rows[i].prev, Hashed(rows[i]))
    BY <1>1, <1>2, <1>3, UptoMeans DEF Genuine, Digest
  <1>5. (IF i = 1 THEN start.hash ELSE rows[i - 1].hash) = Upto(m + i - 1)
    <2>1. CASE i = 1
      <3>1. m + i - 1 = m
        BY <2>1
      <3> QED BY <2>1, <3>1
    <2>2. CASE i # 1
      <3>1. i - 1 \in 1..Len(rows) /\ m + (i - 1) = m + i - 1
        BY <1>0, <2>2
      <3>2. Genuine(rows[i - 1], Len(history)) /\ rows[i - 1].seq = m + (i - 1)
        BY <3>1 DEF DataInv
      <3> QED BY <2>2, <3>1, <3>2 DEF Genuine
    <2> QED BY <2>1, <2>2
  <1> QED BY <1>1, <1>3, <1>4, <1>5 DEF Reconciles

-----------------------------------------------------------------------------
(* The initial state. *)

LEMMA InitHolds == ASSUME Init PROVE IInv
  <1>0. <<>> \in Seq(Nat) /\ <<>> \in Seq(Records) /\ Len(<<>>) = 0
    BY EmptySeq
  <1>1. DataInv
    BY <1>0, ChainAssumption DEF Init, DataInv, ChainAssumption
  <1>2. EndInv
    BY <1>0, UptoZero DEF Init, EndInv, Genesis
  <1>3. WriterInv
    BY <1>0, ChainAssumption DEF Init, WriterInv, Pens, NoTip, Genesis, ChainAssumption
  <1>4. AnchorInv /\ WholeInv
    BY <1>0 DEF Init, AnchorInv, WholeInv, Anchor
  <1>5. ReaderInv
    BY <1>0 DEF Init, ReaderInv
  <1> QED BY <1>1, <1>2, <1>3, <1>4, <1>5 DEF IInv

-----------------------------------------------------------------------------
(* The steps. *)

\* A verdict is about the rows that were read and what was recorded.
LEMMA VerdictStays ==
  ASSUME ReaderInv, UNCHANGED <<store, reader, history>>
  PROVE  ReaderInv'
  BY DEF ReaderInv, Genuine

\* The one append that had read the end is over.
LEMMA IdleWriter ==
  ASSUME WriterInv, NEW w \in Writers, writers[w].pc = "write",
         writers' = [writers EXCEPT ![w] = [pc |-> "idle", tip |-> NoTip]], lock' = Free
  PROVE  WriterInv'
  <1> DEFINE over == [pc |-> "idle", tip |-> NoTip]
  <1>1. over \in Pens /\ over.pc = "idle"
    BY EmptySeq DEF Pens, NoTip, Genesis
  <1> HIDE DEF over
  <1>2. writers' \in [Writers -> Pens]
        /\ \A v \in Writers : writers'[v] = IF v = w THEN over ELSE writers[v]
    BY <1>1 DEF WriterInv, over
  <1>3. \A v \in Writers : writers'[v].pc # "write"
    BY <1>1, <1>2 DEF WriterInv
  <1> QED BY <1>2, <1>3 DEF WriterInv

LEMMA ReadEndKeeps == ASSUME IInv, ~forkable', NEW w \in Writers, ReadEnd(w) PROVE IInv'
  <1>0. DataInv /\ EndInv /\ WriterInv /\ ReaderInv
    BY DEF IInv
  <1>1. UNCHANGED <<store, rows, anchors, head, reader, history, faults>>
        /\ writers' = [writers EXCEPT ![w] = [pc |-> "write", tip |-> End]]
        /\ lock' = (IF store = "sqlite" THEN Free ELSE w)
        /\ MayRead /\ forkable' = (forkable \/ Overlaps)
    BY DEF ReadEnd
  <1>2. /\ End \in [seq : Nat, prev : Seq(Nat)] /\ End.prev = history
        /\ store = "audit" => End.seq = Len(history) + 1
    BY <1>0, EndMeans
  <1> DEFINE asked == [pc |-> "write", tip |-> End]
  <1>3. asked \in Pens
        /\ asked.pc = "write" /\ asked.tip = End
    BY <1>2 DEF Pens
  <1> HIDE DEF asked
  <1>4. writers' = [writers EXCEPT ![w] = asked]
    BY <1>1 DEF asked
  <1>5. \A v \in Writers : writers[v].pc = "idle"
    <2> SUFFICES ASSUME NEW v \in Writers
                 PROVE  writers[v].pc = "idle"
      OBVIOUS
    <2>1. CASE store = "sqlite"
      BY <1>0, <1>1, <2>1 DEF Overlaps, WriterInv, Pens
    <2>2. CASE store # "sqlite"
      <3>1. lock = Free /\ Free \notin Writers
        BY <1>1, <2>2, ChainAssumption DEF MayRead, LockFree, ChainAssumption
      <3>2. writers[v].pc \in {"idle", "write"}
        BY <1>0 DEF WriterInv, Pens
      <3> QED BY <1>0, <2>2, <3>1, <3>2 DEF WriterInv
    <2> QED BY <2>1, <2>2
  <1>6. WriterInv'
    <2>1. writers' \in [Writers -> Pens]
      BY <1>0, <1>3, <1>4 DEF WriterInv
    <2>2. \A v \in Writers : writers'[v] = IF v = w THEN asked ELSE writers[v]
      BY <1>0, <1>4 DEF WriterInv
    <2>3. \A v \in Writers : writers'[v].pc = "write" => v = w
      BY <1>5, <2>2
    <2> QED BY <1>1, <1>2, <1>3, <2>1, <2>2, <2>3 DEF WriterInv
  <1>7. DataInv' /\ EndInv'
    BY <1>0, <1>1 DEF DataInv, EndInv, Genuine
  <1>8. AnchorInv' /\ WholeInv'
    BY <1>1 DEF IInv, AnchorInv, WholeInv, Anchor
  <1> QED BY <1>0, <1>1, <1>6, <1>7, <1>8, VerdictStays DEF IInv

LEMMA GiveUpKeeps == ASSUME IInv, NEW w \in Writers, GiveUp(w) PROVE IInv'
  <1>0. DataInv /\ EndInv /\ WriterInv /\ ReaderInv
    BY DEF IInv
  <1>1. UNCHANGED <<store, rows, anchors, head, reader, history, faults>>
        /\ writers' = [writers EXCEPT ![w] = [pc |-> "idle", tip |-> NoTip]]
        /\ lock' = Free /\ writers[w].pc = "write"
    BY DEF GiveUp
  <1>2. WriterInv'
    BY <1>0, <1>1, IdleWriter
  <1>3. DataInv' /\ EndInv'
    BY <1>0, <1>1 DEF DataInv, EndInv, Genuine
  <1>4. AnchorInv' /\ WholeInv'
    BY <1>1 DEF IInv, AnchorInv, WholeInv, Anchor
  <1> QED BY <1>0, <1>1, <1>2, <1>3, <1>4, VerdictStays DEF IInv

LEMMA InsertKeeps == ASSUME IInv, NEW w \in Writers, Insert(w) PROVE IInv'
  <1> DEFINE n == Len(history)
             tip == writers[w].tip
             seq == IF store = "audit" THEN tip.seq ELSE n + 1
             row == [seq |-> seq, id |-> n + 1, rest |-> n + 1, prev |-> tip.prev,
                     hash |-> Digest(tip.prev, n + 1)]
  <1>0. DataInv /\ EndInv /\ WriterInv /\ AnchorInv /\ WholeInv /\ ReaderInv
        /\ n \in Nat /\ Len(rows) \in Nat /\ history \in Seq(Nat) /\ rows \in Seq(Records)
    BY LenProperties DEF IInv, DataInv
  <1>1. /\ rows' = Append(rows, row) /\ history' = Append(history, n + 1)
        /\ head' = IF store = "postgres" THEN row.hash ELSE head
        /\ writers' = [writers EXCEPT ![w] = [pc |-> "idle", tip |-> NoTip]]
        /\ lock' = Free /\ writers[w].pc = "write" /\ n < MaxRecords
        /\ UNCHANGED <<store, anchors, reader, faults>>
    BY DEF Insert
  <1>2. tip.prev = history /\ history = Upto(n) /\ seq = n + 1
    BY <1>0, <1>1 DEF WriterInv, EndInv
  <1>3. row \in Records /\ row.seq = n + 1 /\ row.id = n + 1 /\ row.rest = n + 1
        /\ row.prev = Upto(n)
        /\ row.hash = Upto(n + 1) /\ history' = Upto(n + 1)
    <2> HIDE DEF n, seq, tip
    <2>1. /\ Upto(n) \in Seq(Nat) /\ Upto(n + 1) \in Seq(Nat)
          /\ Upto(n + 1) = Append(Upto(n), n + 1) /\ n + 1 \in Nat
      <3>1. n \in Nat /\ n + 1 \in Nat
        BY <1>0
      <3> QED BY <3>1, UptoMeans
    <2>2. history' = Upto(n + 1)
      BY <1>1, <1>2, <2>1
    <2>3. row = [seq |-> n + 1, id |-> n + 1, rest |-> n + 1, prev |-> Upto(n),
                hash |-> Upto(n + 1)]
      BY <1>2, <2>1 DEF Digest
    <2> HIDE DEF row
    <2>4. row \in Records
      BY <2>1, <2>3 DEF Records
    <2> QED BY <2>2, <2>3, <2>4
  <1> HIDE DEF row, seq, tip
  <1>4. Len(history') = n + 1 /\ history' \in Seq(Nat)
    BY <1>0, <1>1
  <1>5. /\ rows' \in Seq(Records) /\ Len(rows') = Len(rows) + 1 /\ rows'[Len(rows) + 1] = row
        /\ \A i \in 1..Len(rows) : rows'[i] = rows[i]
    BY <1>0, <1>1, <1>3
  <1>6. \A r : Genuine(r, n) => Genuine(r, n + 1)
    BY <1>0 DEF Genuine
  <1>7. DataInv'
    <2>1. ASSUME NEW i \in 1..Len(rows')
          PROVE  Genuine(rows'[i], Len(history'))
      <3>1. CASE i = Len(rows) + 1
        <4>1. Genuine(row, n + 1)
          <5>1. row.seq \in 1..(n + 1) /\ row.seq - 1 = n /\ row.id \in {row.seq, Changed}
               /\ row.rest \in {row.seq, Changed}
            BY <1>0, <1>3
          <5>2. row.prev = Upto(row.seq - 1) /\ row.hash = Upto(row.seq)
            <6> HIDE DEF n
            <6> QED BY <1>3, <5>1
          <5> QED BY <5>1, <5>2 DEF Genuine
        <4> QED BY <1>4, <1>5, <3>1, <4>1
      <3>2. CASE i # Len(rows) + 1
        <4>1. i \in 1..Len(rows) /\ rows'[i] = rows[i]
          BY <1>0, <1>5, <3>2
        <4>2. Genuine(rows[i], n)
          BY <1>0, <4>1 DEF DataInv
        <4> QED BY <1>4, <1>6, <4>1, <4>2
      <3> QED BY <3>1, <3>2
    <2>2. MaxRecords \in Nat /\ n + 1 <= MaxRecords
      BY <1>0, <1>1, ChainAssumption DEF ChainAssumption
    <2> QED BY <1>0, <1>1, <1>4, <1>5, <2>1, <2>2 DEF DataInv
  <1>8. EndInv'
    <2>1. rows' # <<>>
      BY <1>0, <1>5, EmptySeq
    <2> QED BY <1>1, <1>3, <1>4, <1>5, <2>1 DEF EndInv
  <1>9. WriterInv'
    BY <1>0, <1>1, IdleWriter
  <1>10. AnchorInv'
    BY <1>0, <1>1, <1>4 DEF AnchorInv
  <1>11. WholeInv'
    <2> SUFFICES ASSUME faults = 0
                 PROVE  /\ Len(rows') = Len(history') - Anchor.seq
                        /\ \A i \in 1..Len(rows') : /\ rows'[i].seq = Anchor.seq + i
                                                    /\ rows'[i].id = rows'[i].seq /\ rows'[i].rest = rows'[i].seq
      BY <1>1 DEF WholeInv, Anchor
    <2>1. Anchor.seq \in Nat
      BY <1>0, AnchorMeans
    <2>2. Len(rows) = n - Anchor.seq
          /\ \A i \in 1..Len(rows) : /\ rows[i].seq = Anchor.seq + i
                                     /\ rows[i].id = rows[i].seq /\ rows[i].rest = rows[i].seq
      BY <1>0 DEF WholeInv
    <2> HIDE DEF n
    <2>3. Len(rows') = Len(history') - Anchor.seq
      BY <1>0, <1>4, <1>5, <2>1, <2>2
    <2>4. n + 1 = Anchor.seq + (Len(rows) + 1)
      BY <1>0, <2>1, <2>2
    <2>5. ASSUME NEW i \in 1..Len(rows')
          PROVE  /\ rows'[i].seq = Anchor.seq + i
               /\ rows'[i].id = rows'[i].seq /\ rows'[i].rest = rows'[i].seq
      <3>1. CASE i = Len(rows) + 1
        BY <1>3, <1>5, <2>4, <3>1
      <3>2. CASE i # Len(rows) + 1
        <4>1. i \in 1..Len(rows)
          BY <1>0, <1>5, <3>2
        <4> QED BY <1>5, <2>2, <4>1
      <3> QED BY <3>1, <3>2
    <2> QED BY <2>3, <2>5
  <1>12. ReaderInv'
    <2>1. \A i \in 1..Len(reader.rows) : Genuine(reader.rows[i], n + 1)
      BY <1>0, <1>6 DEF ReaderInv
    <2>2. Len(reader.rows) \in Nat
      BY <1>0, LenProperties DEF ReaderInv
    <2>3. n + 1 \in Nat /\ \A k \in Nat : k <= n => k <= n + 1
      BY <1>0
    <2> QED BY <1>0, <1>1, <1>4, <2>1, <2>2, <2>3 DEF ReaderInv
  <1> QED BY <1>7, <1>8, <1>9, <1>10, <1>11, <1>12 DEF IInv

LEMMA PruneKeeps == ASSUME IInv, ~forkable', NEW n \in 1..Len(rows), Prune(n) PROVE IInv'
  <1> DEFINE m == Len(rows)
             gone == AnchorAt(n)
  <1>0. DataInv /\ EndInv /\ WriterInv /\ AnchorInv /\ WholeInv /\ ReaderInv
        /\ Len(history) \in Nat /\ m \in Nat /\ rows \in Seq(Records) /\ n \in Nat
    BY LenProperties DEF IInv, DataInv
  <1>1. /\ anchors' = anchors \cup {gone} /\ store = "audit" /\ lock = Free
        /\ UNCHANGED <<store, head, lock, writers, reader, history, faults>>
        /\ n # m
    BY DEF Prune
  <1>2. /\ rows' \in Seq(Records) /\ Len(rows') = m - n
        /\ \A i \in 1..(m - n) : n + i \in 1..m /\ rows'[i] = rows[n + i]
    BY <1>0, PruneMeans
  <1>3. gone.seq = rows[n].seq /\ gone.hash = Upto(gone.seq) /\ gone.seq \in 1..Len(history)
    BY <1>0 DEF AnchorAt, DataInv, Genuine
  <1> HIDE DEF gone
  <1>4. DataInv'
    BY <1>0, <1>1, <1>2 DEF DataInv
  <1>5. EndInv'
    <2>1. m - n \in 1..(m - n) /\ n + (m - n) = m
      BY <1>0, <1>1
    <2>2. rows'[Len(rows')] = rows[m]
      <3> HIDE DEF m
      <3> QED BY <1>2, <2>1
    <2>3. Len(rows') \in 1..Len(rows') /\ Len(rows) \in 1..Len(rows)
      BY <1>0, <1>1, <1>2
    <2>4. rows' # <<>> /\ rows # <<>>
      BY <1>0, <1>2, <2>3, EmptySeq
    <2> QED BY <1>0, <1>1, <2>2, <2>4 DEF EndInv
  <1>6. WriterInv'
    BY <1>0, <1>1 DEF WriterInv
  <1>7. AnchorInv'
    BY <1>0, <1>1, <1>3 DEF AnchorInv
  <1>8. WholeInv'
    <2> SUFFICES ASSUME faults = 0
                 PROVE  /\ Len(rows') = Len(history) - Anchor'.seq
                        /\ \A i \in 1..Len(rows') : /\ rows'[i].seq = Anchor'.seq + i
                                                    /\ rows'[i].id = rows'[i].seq /\ rows'[i].rest = rows'[i].seq
      BY <1>1 DEF WholeInv
    <2>1. Anchor.seq \in Nat /\ \A a \in anchors : a.seq <= Anchor.seq
      BY <1>0, AnchorMeans
    <2>2. m = Len(history) - Anchor.seq
          /\ \A i \in 1..m : /\ rows[i].seq = Anchor.seq + i
                            /\ rows[i].id = rows[i].seq /\ rows[i].rest = rows[i].seq
      BY <1>0 DEF WholeInv
    <2>3. gone.seq = Anchor.seq + n
      BY <1>3, <2>2
    <2>4. Anchor'.seq = gone.seq
      <3>1. \A a \in anchors' : a.seq \in Nat
        BY <1>7 DEF AnchorInv
      <3>2. Anchor' \in anchors' /\ \A b \in anchors' : Anchor'.seq >= b.seq
        <4>1. \A a \in anchors' : gone.seq >= a.seq
          <5>1. \A a \in anchors : a.seq \in Nat
            BY <1>0 DEF AnchorInv
          <5> QED BY <1>0, <1>1, <1>3, <2>1, <2>3, <5>1
        <4>2. gone \in anchors'
          BY <1>1
        <4> QED BY <4>1, <4>2 DEF Anchor
      <3>3. gone.seq <= Anchor'.seq /\ Anchor'.seq \in Nat
        BY <1>1, <3>1, <3>2
      <3>4. CASE Anchor' = gone
        BY <3>4
      <3>5. CASE Anchor' \in anchors
        <4>1. Anchor'.seq <= Anchor.seq
          BY <2>1, <3>5
        <4> QED BY <1>0, <2>1, <2>3, <3>3, <4>1
      <3> QED BY <1>1, <3>2, <3>4, <3>5
    <2> HIDE DEF m
    <2>5. Len(rows') = Len(history) - Anchor'.seq
      BY <1>0, <1>2, <2>1, <2>2, <2>3, <2>4
    <2>6. ASSUME NEW i \in 1..Len(rows')
          PROVE  /\ rows'[i].seq = Anchor'.seq + i
               /\ rows'[i].id = rows'[i].seq /\ rows'[i].rest = rows'[i].seq
      <3>1. n + i \in 1..m /\ rows'[i] = rows[n + i] /\ i \in Nat
        BY <1>0, <1>2
      <3>2. /\ rows'[i].seq = Anchor.seq + (n + i)
            /\ rows'[i].id = rows'[i].seq /\ rows'[i].rest = rows'[i].seq
        BY <2>2, <3>1
      <3> QED BY <1>0, <2>1, <2>3, <2>4, <3>1, <3>2
    <2> QED BY <2>5, <2>6
  <1>9. ReaderInv'
    BY <1>0, <1>1, VerdictStays
  <1> QED BY <1>4, <1>5, <1>6, <1>7, <1>8, <1>9 DEF IInv

\* What any outside step leaves alone.
LEMMA FaultKeeps ==
  ASSUME IInv, Fault, rows' \in Seq(Records),
         \A i \in 1..Len(rows') : Genuine(rows'[i], Len(history)),
         store = "postgres" \/ (rows # <<>> /\ rows' # <<>>
                                 /\ rows'[Len(rows')].seq = rows[Len(rows)].seq)
  PROVE  IInv'
  <1>0. DataInv /\ EndInv /\ WriterInv /\ AnchorInv /\ ReaderInv
    BY DEF IInv
  <1>1. /\ UNCHANGED <<store, anchors, head, lock, writers, reader, history>>
        /\ faults < MaxFaults /\ faults' = faults + 1
    BY DEF Fault
  <1>2. faults' \in 0..MaxFaults /\ faults' # 0
    <2>1. faults \in Nat /\ MaxFaults \in Nat
      BY <1>0, ChainAssumption DEF DataInv, ChainAssumption
    <2> QED BY <1>1, <2>1
  <1>3. DataInv'
    BY <1>0, <1>1, <1>2 DEF DataInv
  <1>4. EndInv'
    BY <1>0, <1>1 DEF EndInv
  <1>5. WriterInv' /\ AnchorInv'
    BY <1>0, <1>1 DEF WriterInv, AnchorInv
  <1>6. WholeInv'
    BY <1>2 DEF WholeInv
  <1>7. ReaderInv'
    BY <1>0, <1>1, VerdictStays
  <1> QED BY <1>3, <1>4, <1>5, <1>6, <1>7 DEF IInv

LEMMA ChangeKeeps == ASSUME IInv, NEW i \in 1..Len(rows), Change(i) PROVE IInv'
  <1>0. DataInv /\ rows \in Seq(Records) /\ Len(rows) \in Nat
    BY LenProperties DEF IInv, DataInv
  <1>1. /\ rows' \in Seq(Records) /\ Len(rows') = Len(rows)
        /\ \A j \in 1..Len(rows) :
             /\ rows'[j].seq = rows[j].seq
             /\ rows'[j].prev = rows[j].prev /\ rows'[j].hash = rows[j].hash
             /\ rows'[j].id \in {rows[j].id, Changed}
             /\ rows'[j].rest \in {rows[j].rest, Changed}
    BY <1>0, ChangeMeans
  <1>2. ASSUME NEW j \in 1..Len(rows')
        PROVE  Genuine(rows'[j], Len(history))
    <2>1. Genuine(rows[j], Len(history)) /\ j \in 1..Len(rows)
      BY <1>0, <1>1 DEF DataInv
    <2> QED BY <1>1, <2>1 DEF Genuine
  <1>3. rows # <<>> /\ rows' # <<>> /\ rows'[Len(rows')].seq = rows[Len(rows)].seq
    <2>1. Len(rows) \in 1..Len(rows)
      BY <1>0
    <2>2. rows # <<>> /\ rows' # <<>>
      BY <1>0, <1>1, <2>1, EmptySeq
    <2> QED BY <1>1, <2>1, <2>2
  <1>4. Fault
    BY DEF Change
  <1> QED BY <1>1, <1>2, <1>3, <1>4, FaultKeeps

LEMMA LoseKeeps == ASSUME IInv, NEW i \in 1..Len(rows), Lose(i) PROVE IInv'
  <1> DEFINE n == Len(rows)
  <1>0. DataInv /\ rows \in Seq(Records) /\ n \in Nat /\ i \in Nat /\ 1 <= i /\ i <= n
    BY LenProperties DEF IInv, DataInv
  <1>1. Fault /\ (i < n \/ store = "postgres")
    BY DEF Lose
  <1>2. /\ rows' \in Seq(Records) /\ Len(rows') = n - 1
        /\ \A j \in 1..(n - 1) : rows'[j] = IF j < i THEN rows[j] ELSE rows[j + 1]
    BY <1>0, LoseMeans
  <1> HIDE DEF n
  <1>3. \A j \in 1..Len(rows') : Genuine(rows'[j], Len(history))
    <2> TAKE j \in 1..Len(rows')
    <2>1. j \in 1..n /\ j + 1 \in 1..n /\ j \in 1..(n - 1)
      BY <1>0, <1>2
    <2>2. Genuine(rows[j], Len(history)) /\ Genuine(rows[j + 1], Len(history))
      BY <1>0, <2>1 DEF DataInv, n
    <2> QED BY <1>2, <2>1, <2>2
  <1>4. CASE i < n
    <2>1. n - 1 \in 1..(n - 1) /\ n - 1 + 1 = n /\ ~(n - 1 < i)
      BY <1>0, <1>4
    <2>2. rows'[Len(rows')] = rows[n]
      BY <1>2, <2>1
    <2>3. n # 0 /\ Len(rows') # 0
      BY <1>0, <1>2, <2>1
    <2>4. rows # <<>> /\ rows' # <<>>
      BY <1>0, <1>2, <2>3, EmptySeq DEF n
    <2> QED BY <1>1, <1>2, <1>3, <2>2, <2>4, FaultKeeps DEF n
  <1>5. CASE store = "postgres"
    BY <1>1, <1>2, <1>3, <1>5, FaultKeeps
  <1> QED BY <1>1, <1>4, <1>5

LEMMA ReadRowsKeeps == ASSUME IInv, ReadRows PROVE IInv'
  <1>0. DataInv /\ EndInv /\ WriterInv /\ Len(history) \in Nat
    BY LenProperties DEF IInv, DataInv
  <1>1. reader' = [pc |-> "read", rows |-> rows, start |-> 0, upto |-> Len(history), ok |-> FALSE]
        /\ UNCHANGED <<store, rows, anchors, head, lock, writers, history, faults>>
    BY DEF ReadRows
  <1>2. ReaderInv'
    BY <1>0, <1>1 DEF ReaderInv, DataInv
  <1>3. DataInv' /\ EndInv' /\ WriterInv'
    BY <1>0, <1>1 DEF DataInv, EndInv, WriterInv
  <1>4. AnchorInv' /\ WholeInv'
    BY <1>1 DEF IInv, AnchorInv, WholeInv, Anchor
  <1> QED BY <1>2, <1>3, <1>4 DEF IInv

LEMMA JudgeKeeps == ASSUME IInv, Judge PROVE IInv'
  <1> DEFINE rs == reader.rows
             ok == Linked(rs, Anchor) /\ EndsAt(rs, head)
             n == Len(rs)
  <1>0. DataInv /\ EndInv /\ WriterInv /\ AnchorInv /\ ReaderInv /\ Len(history) \in Nat
        /\ rs \in Seq(Records) /\ n \in Nat /\ \A i \in 1..n : Genuine(rs[i], Len(history))
    BY LenProperties DEF IInv, DataInv, ReaderInv
  <1>1. /\ reader' = [reader EXCEPT !.pc = "told", !.start = Anchor.seq, !.ok = ok]
        /\ UNCHANGED <<store, rows, anchors, head, lock, writers, history, faults>>
    BY DEF Judge
  <1>2. Anchor.seq \in 0..Len(history) /\ Anchor.hash = Upto(Anchor.seq)
        /\ (store # "audit" => Anchor.seq = 0)
    BY <1>0, AnchorMeans
  <1>3. ASSUME ok
        PROVE  /\ Anchor.seq \in Nat /\ Anchor.seq + n <= Len(history)
               /\ \A i \in 1..n : rs[i].id = Anchor.seq + i
               /\ store = "postgres" /\ n > 0 => n >= reader.upto
    <2>1. \A i \in 1..n : rs[i].seq = Anchor.seq + i /\ rs[i].id = Anchor.seq + i
      <3>1. Linked(rs, Anchor) /\ Anchor.hash = Upto(Anchor.seq)
        BY <1>2, <1>3
      <3>2. Anchor.seq \in Nat
        BY <1>0, <1>2
      <3>3. DataInv /\ rs \in Seq(Records) /\ \A i \in 1..Len(rs) : Genuine(rs[i], Len(history))
        BY <1>0
      <3> HIDE DEF rs, ok
      <3> QED BY <3>1, <3>2, <3>3, LinkedMeans
    <2>2. CASE n = 0
      BY <1>0, <1>2, <2>1, <2>2
    <2>3. CASE n # 0
      <3>1. n \in 1..n
        BY <1>0, <2>3
      <3>2. rs[n].seq \in 1..Len(history) /\ rs[n].hash = Upto(rs[n].seq)
        BY <1>0, <3>1 DEF Genuine
      <3>3. rs[n].seq = Anchor.seq + n
        BY <2>1, <3>1
      <3>4. ASSUME store = "postgres" PROVE n >= reader.upto
        <4>1. rs # <<>>
          BY <3>1, EmptySeq
        <4>2. rs[n].hash = Upto(Len(history))
          <5>1. Last(rs).hash = head
            BY <1>3, <3>4, <4>1 DEF EndsAt
          <5>2. head = Upto(Len(history))
            BY <1>0, <3>4 DEF EndInv
          <5> QED BY <5>1, <5>2 DEF Last
        <4>3. rs[n].seq = Len(history)
          <5>1. rs[n].seq \in Nat /\ Len(history) \in Nat
            BY <1>0, <3>2
          <5>2. Upto(rs[n].seq) = Upto(Len(history))
            BY <3>2, <4>2
          <5> HIDE DEF rs, n
          <5> QED BY <5>1, <5>2, UptoSame
        <4>4. reader.upto \in 0..Len(history)
          BY <1>0 DEF ReaderInv
        <4>5. Anchor.seq = 0
          BY <1>2, <3>4
        <4>6. n = Len(history)
          BY <1>0, <3>3, <4>3, <4>5
        <4> QED BY <1>0, <4>4, <4>6
      <3> QED BY <1>0, <1>2, <2>1, <3>2, <3>3, <3>4
    <2> QED BY <2>2, <2>3
  <1>4. ok \in BOOLEAN
    BY DEF Linked, EndsAt
  <1>5. ReaderInv'
    <2>1. /\ reader'.pc = "told" /\ reader'.start = Anchor.seq /\ reader'.ok = ok
          /\ reader'.rows = rs /\ reader'.upto = reader.upto
      BY <1>1
    <2>2. reader' \in [pc : {"idle", "read", "told"}, rows : Seq(Records), start : Nat,
                       upto : Nat, ok : BOOLEAN]
      <3>1. Anchor.seq \in Nat
        BY <1>0, <1>2
      <3> HIDE DEF ok, rs, n
      <3> QED BY <1>0, <1>1, <1>4, <3>1 DEF ReaderInv
    <2>3. reader.upto \in 0..Len(history)
      BY <1>0 DEF ReaderInv
    <2>4. history' = history /\ store' = store
      BY <1>1
    <2> HIDE DEF ok, n
    <2> QED BY <1>0, <1>3, <2>1, <2>2, <2>3, <2>4 DEF ReaderInv, n
  <1>6. DataInv' /\ EndInv' /\ WriterInv'
    BY <1>0, <1>1 DEF DataInv, EndInv, WriterInv
  <1>7. AnchorInv' /\ WholeInv'
    BY <1>1 DEF IInv, AnchorInv, WholeInv, Anchor
  <1> QED BY <1>5, <1>6, <1>7 DEF IInv

LEMMA NextKeeps == ASSUME IInv, ~forkable', [Next]_vars PROVE IInv'
  <1>1. ASSUME NEW w \in Writers, ReadEnd(w) \/ Insert(w) \/ GiveUp(w) PROVE IInv'
    BY <1>1, ReadEndKeeps, InsertKeeps, GiveUpKeeps
  <1>2. ASSUME NEW n \in 1..Len(rows), Prune(n) \/ Change(n) \/ Lose(n) PROVE IInv'
    BY <1>2, PruneKeeps, ChangeKeeps, LoseKeeps
  <1>3. CASE ReadRows
    BY <1>3, ReadRowsKeeps
  <1>4. CASE Judge
    BY <1>4, JudgeKeeps
  <1>5. CASE UNCHANGED vars
    <2>1. DataInv' /\ EndInv' /\ WriterInv'
      BY <1>5 DEF IInv, vars, DataInv, EndInv, WriterInv
    <2>2. AnchorInv' /\ WholeInv'
      BY <1>5 DEF IInv, vars, AnchorInv, WholeInv, Anchor
    <2>3. ReaderInv'
      BY <1>5, VerdictStays DEF IInv, vars
    <2> QED BY <2>1, <2>2, <2>3 DEF IInv
  <1> QED BY <1>1, <1>2, <1>3, <1>4, <1>5 DEF Next

-----------------------------------------------------------------------------
(* The theorems. *)

\* A log that could fork stays one.
LEMMA ForkableStays == AnyInv /\ forkable /\ [Next]_vars => forkable'
  BY DEF Next, vars, ReadEnd, Insert, GiveUp, Prune, Change, Lose, Fault, ReadRows, Judge

\* In any log the hash of a row was made of a recorded text, and only a SQLite file
\* to which two appends overlapped and an audit log left without rows can fork; as
\* long as a log cannot, the end an append has read is the end until it inserts, and
\* every row is the record of its number.
THEOREM ChainInvariant == Spec => []ChainInv
  <1>1. Init => ChainInv
    BY AnyInit, InitHolds DEF ChainInv
  <1>2. ChainInv /\ [Next]_vars => ChainInv'
    <2> SUFFICES ASSUME ChainInv, [Next]_vars
                 PROVE  AnyInv' /\ (~forkable' => IInv')
      BY DEF ChainInv
    <2>1. AnyInv'
      BY AnyNext DEF ChainInv
    <2>2. ASSUME ~forkable' PROVE IInv'
      <3>1. ~forkable
        BY <2>2, ForkableStays DEF ChainInv
      <3> QED BY <2>2, <3>1, NextKeeps DEF ChainInv
    <2> QED BY <2>1, <2>2
  <1> QED BY <1>1, <1>2, PTL DEF Spec

\* The tables, the appends and the verification stay within their types, the lock
\* is with the append that has read the end, and the PostgreSQL ledger never comes
\* to be forkable.
THEOREM ChainTypes == Spec => []TypeOK
  <1>1. ChainInv => TypeOK
    <2> SUFFICES ASSUME AnyInv PROVE TypeOK
      BY DEF ChainInv
    <2>0. TablesInv /\ LockInv /\ TextInv /\ ForkInv /\ Len(history) \in Nat
          /\ MaxRecords \in Nat /\ Len(history) <= MaxRecords
      BY LenProperties, ChainAssumption DEF AnyInv, TablesInv, ChainAssumption
    <2>1. ASSUME NEW i \in 1..Len(rows)
          PROVE  Row(rows[i])
      <3> DEFINE r == rows[i]
                 n == Len(history)
      <3>1. Written(r, n) /\ n \in Nat /\ n <= MaxRecords
        BY <2>0 DEF TablesInv
      <3> HIDE DEF r, n
      <3>2. PICK k \in 1..n : /\ r.hash = Append(r.prev, k)
                              /\ r.id \in {k, Changed} /\ r.rest \in {k, Changed}
        BY <3>1 DEF Written
      <3>3. r.seq \in 1..MaxRecords /\ r.id \in Ids /\ r.rest \in Ids
        BY <2>0, <3>1, <3>2 DEF Written, Ids, Changed
      <3>4. \A j \in 1..Len(r.prev) : r.prev[j] \in Ids
        <4>1. \A j \in 1..Len(r.prev) : r.prev[j] \in 1..n
          BY <3>1, ElementOfSeq DEF Written
        <4> QED BY <2>0, <3>1, <4>1 DEF Ids
      <3> QED BY <3>2, <3>3, <3>4 DEF Row, Digest, r
    <2>2. \A a \in anchors : a.seq \in 1..MaxRecords
      BY <2>0 DEF TablesInv
    <2>3. \A w \in Writers : writers[w].pc \in {"idle", "write"}
      BY <2>0 DEF LockInv, TipInv, Pens
    <2>4. store # "sqlite" => \A w \in Writers : writers[w].pc = "write" <=> lock = w
      BY <2>0, ChainAssumption DEF LockInv, HoldInv, ChainAssumption
    <2>5. /\ store \in Stores /\ faults \in 0..MaxFaults
          /\ reader.pc \in {"idle", "read", "told"} /\ reader.ok \in BOOLEAN
          /\ reader.upto \in 0..Len(history)
          /\ forkable \in BOOLEAN /\ (forkable => store \in {"sqlite", "audit"})
      BY <2>0 DEF TablesInv, TextInv, ForkInv
    <2> QED BY <2>1, <2>2, <2>3, <2>4, <2>5 DEF TypeOK
  <1> QED BY <1>1, ChainInvariant, PTL

\* A log nobody touched verifies, however it was written and pruned: the PostgreSQL
\* ledger always, the others unless two appends to the SQLite file have overlapped or
\* retention has left the audit log without a row.
THEOREM HonestVerifies == Spec => []HonestLogVerifies
  <1>1. ChainInv /\ forkable => HonestLogVerifies
    BY DEF ChainInv, AnyInv, ForkInv, HonestLogVerifies
  <1>2. ChainInv /\ ~forkable => HonestLogVerifies
    <2> SUFFICES ASSUME IInv, faults = 0
                 PROVE  Linked(rows, Anchor) /\ EndsAt(rows, head)
      BY DEF HonestLogVerifies, ChainInv
    <2>0. DataInv /\ EndInv /\ AnchorInv /\ Len(history) \in Nat /\ Len(rows) \in Nat
          /\ rows \in Seq(Records)
      BY LenProperties DEF IInv, DataInv
    <2>1. Anchor.seq \in Nat /\ Anchor.hash = Upto(Anchor.seq)
          /\ (store # "audit" => Anchor.seq = 0)
      BY <2>0, AnchorMeans
    <2>2. Len(rows) = Len(history) - Anchor.seq
          /\ \A i \in 1..Len(rows) : /\ rows[i].seq = Anchor.seq + i
                                     /\ rows[i].id = rows[i].seq /\ rows[i].rest = rows[i].seq
      BY DEF IInv, WholeInv
    <2>3. Linked(rows, Anchor)
      BY <2>0, <2>1, <2>2, WholeLinks
    <2>4. ASSUME store = "postgres", rows # <<>> PROVE Last(rows).hash = head
      <3>1. Len(rows) = Len(history) /\ Len(rows) \in 1..Len(rows)
        BY <2>0, <2>1, <2>2, <2>4, EmptySeq
      <3>2. rows[Len(rows)].seq = Len(history)
        BY <2>0, <2>1, <2>2, <2>4, <3>1
      <3>3. rows[Len(rows)].hash = Upto(Len(history))
        BY <2>0, <3>1, <3>2 DEF DataInv, Genuine
      <3> QED BY <2>0, <2>4, <3>3 DEF EndInv, Last
    <2> QED BY <2>3, <2>4 DEF EndsAt
  <1> QED BY <1>1, <1>2, ChainInvariant, PTL

\* A verification that reports no fault has read no changed text of a row that is
\* hashed, in any log; in one that cannot have forked, which the PostgreSQL ledger is
\* always, it has read just what was recorded from its start on.
THEOREM OkIsHonestAlways == Spec => []OkIsHonest
  <1>1. AnyInv /\ reader.pc = "told" /\ reader.ok =>
          \A i \in 1..Len(reader.rows) :
            /\ reader.rows[i].id # Changed
            /\ store # "audit" => reader.rows[i].rest = reader.rows[i].id
    BY DEF AnyInv, TextInv
  <1>2. ASSUME IInv, reader.pc = "told", reader.ok
        PROVE  /\ [i \in 1..Len(reader.rows) |-> reader.rows[i].id] =
                    SubSeq(history, reader.start + 1, reader.start + Len(reader.rows))
               /\ store = "postgres" /\ Len(reader.rows) > 0
                    => Len(reader.rows) >= reader.upto
    <2> DEFINE n == Len(reader.rows)
               m == reader.start
               ids == [i \in 1..n |-> reader.rows[i].id]
               part == SubSeq(history, m + 1, m + n)
    <2>0. /\ DataInv /\ EndInv /\ ReaderInv /\ n \in Nat /\ m \in Nat /\ history \in Seq(Nat)
          /\ m + n <= Len(history) /\ Len(history) \in Nat
          /\ \A i \in 1..n : reader.rows[i].id = m + i
      BY <1>2, LenProperties DEF IInv, DataInv, ReaderInv
    <2>1. store = "postgres" /\ n > 0 => n >= reader.upto
      BY <1>2, <2>0 DEF ReaderInv
    <2>2. history = [i \in 1..Len(history) |-> i]
      BY <2>0 DEF EndInv, Upto
    <2> HIDE DEF n, m
    <2>3. part \in Seq(Nat) /\ Len(part) = n /\ \A i \in 1..n : part[i] = m + i
      <3>1. m + 1 \in Int /\ m + n \in Int /\ (m + n) - (m + 1) + 1 = n
            /\ (IF m + 1 <= m + n THEN (m + n) - (m + 1) + 1 ELSE 0) = n
        BY <2>0
      <3>2. \A i \in (m + 1)..(m + n) : i \in 1..Len(history) /\ history[i] \in Nat
        BY <2>0, ElementOfSeq
      <3>3. \A i \in 1..n : m + 1 + i - 1 = m + i /\ m + i \in 1..Len(history)
        BY <2>0
      <3>4. \A i \in 1..n : history[m + i] = m + i
        BY <2>2, <3>3
      <3>5. /\ part \in Seq(Nat)
            /\ Len(part) = (IF m + 1 <= m + n THEN (m + n) - (m + 1) + 1 ELSE 0)
            /\ \A i \in 1..((m + n) - (m + 1) + 1) : part[i] = history[m + 1 + i - 1]
        BY <3>1, <3>2, SubSeqProperties
      <3> QED BY <3>1, <3>3, <3>4, <3>5
    <2>4. ids \in Seq(Nat) /\ Len(ids) = n /\ \A i \in 1..n : ids[i] = m + i
      <3>1. \A i \in 1..n : reader.rows[i].id \in Nat
        BY <2>0
      <3> QED BY <2>0, <3>1
    <2>5. ids = part
      <3> HIDE DEF ids, part
      <3> QED BY <2>3, <2>4, SeqEqual
    <2> QED BY <2>1, <2>5 DEF n, m
  <1>3. ChainInv => OkIsHonest
    <2> SUFFICES ASSUME ChainInv, reader.pc = "told", reader.ok
                 PROVE  LET n == Len(reader.rows)
                            texts == [i \in 1..n |-> reader.rows[i].id]
                        IN  /\ forkable \/ texts = SubSeq(history, reader.start + 1,
                                                           reader.start + n)
                            /\ \A i \in 1..n :
                                 /\ texts[i] # Changed
                                 /\ store # "audit" => reader.rows[i].rest = texts[i]
                            /\ store = "postgres" /\ n > 0 => n >= reader.upto
      BY DEF OkIsHonest
    <2>1. AnyInv /\ (~forkable => IInv) /\ (store = "postgres" => ~forkable)
      BY DEF ChainInv, AnyInv, ForkInv
    <2> QED BY <1>1, <1>2, <2>1
  <1> QED BY <1>3, ChainInvariant, PTL

=============================================================================
