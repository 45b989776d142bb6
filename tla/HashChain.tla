------------------------------ MODULE HashChain ------------------------------
(***************************************************************************)
(* The hash-chained logs of the system: the gateway's audit table            *)
(* (van_gateway/audit/service.py), whose oldest rows retention removes       *)
(* behind an anchor (ops/retention.py), and the trading ledger, in           *)
(* PostgreSQL (vati/core/ledger_pg.py) or in a SQLite file                   *)
(* (vati/core/ledger.py).  Each behaviour is about one of the three.         *)
(*                                                                          *)
(* A record is linked to the chain's end, which is read before it is         *)
(* inserted; the audit log holds the database's write lock in between, the   *)
(* PostgreSQL ledger the row of the chain's head, the SQLite ledger nothing. *)
(* A verification reads the rows by one statement and what they must link    *)
(* to by another.  Outside the services rows may be changed or lost.         *)
(*                                                                          *)
(* Two uses of a log let a record link to something other than the last one: *)
(* two appends to one SQLite file at once, and a record appended after       *)
(* retention has taken every audit row.  `forkable' tells that one of them   *)
(* has happened.                                                            *)
(***************************************************************************)
EXTENDS Naturals, Sequences, SequencesExt

CONSTANTS
  Writers,      \* the processes and requests that append
  Free,         \* no writer
  Stores,       \* which of "audit", "postgres" and "sqlite" are looked at
  MaxRecords,   \* bound: records appended
  MaxFaults     \* bound: rows changed or lost outside the services

ASSUME ChainAssumption ==
  /\ Free \notin Writers
  /\ Stores \subseteq {"audit", "postgres", "sqlite"}
  /\ MaxRecords \in Nat /\ MaxFaults \in Nat

VARIABLES
  store,      \* which log this is
  rows,       \* the rows that are there, in the order of their sequence numbers
  anchors,    \* table audit_chain_anchors
  head,       \* table chain_head: the hash of the last record
  lock,       \* who holds the write lock, or the lock on the head's row
  writers,    \* where each append is, and the end of the chain it has read
  reader,     \* verify_chain: the rows it has read, and its verdict
  history,    \* what was recorded, in order; record n is called n
  faults,     \* rows changed or lost so far
  forkable    \* history: two appends at once to a SQLite file, or every audit row gone

vars == <<store, rows, anchors, head, lock, writers, reader, history, faults, forkable>>

Genesis == <<>>

Changed == 0   \* a text that nobody recorded

\* SHA-256 over the previous hash and a text: two hashes are equal exactly when
\* these are.
Digest(prev, text) == Append(prev, text)

\* The text of a row that its hash is made of.  An event of a ledger is hashed with
\* every column.  entry_digest leaves out an audit row's project_id, capability,
\* approval, model_delegate, tool and evidence_pointer, and joins the others by "|"
\* without marking where one ends: all this is the row's `rest'.
Hashed(row) ==
  IF store # "audit" /\ row.rest = Changed THEN Changed ELSE row.id

NoTip == [seq |-> 1, prev |-> Genesis]

Init ==
  /\ store \in Stores
  /\ rows = <<>>
  /\ anchors = {}
  /\ head = Genesis
  /\ lock = Free
  /\ writers = [w \in Writers |-> [pc |-> "idle", tip |-> NoTip]]
  /\ reader = [pc |-> "idle", rows |-> <<>>, start |-> 0, upto |-> 0, ok |-> TRUE]
  /\ history = <<>>
  /\ faults = 0
  /\ forkable = FALSE

-----------------------------------------------------------------------------
(* Appending. *)

\* Where the next record goes and what it links to.
End ==
  [seq |-> IF rows = <<>> THEN 1 ELSE Last(rows).seq + 1,
   prev |-> CASE store = "postgres" -> head
              [] store # "postgres" /\ rows # <<>> -> Last(rows).hash
              [] OTHER -> Genesis]

\* Mutant: BEGIN, or a select without FOR UPDATE.
Unlocked == TRUE

\* BEGIN IMMEDIATE, or SELECT .. FOR UPDATE: the others wait.
LockFree == lock = Free

\* The connection of a SQLite ledger is in autocommit mode (isolation_level=None): the
\* select and the insert are transactions of their own, whoever else appends.
MayRead == store = "sqlite" \/ LockFree

\* Another append to the SQLite file has read the end and not inserted yet.
Overlaps == store = "sqlite" /\ \E v \in Writers : writers[v].pc = "write"

ReadEnd(w) ==
  /\ writers[w].pc = "idle"
  /\ Len(history) < MaxRecords
  /\ MayRead
  /\ writers' = [writers EXCEPT ![w] = [pc |-> "write", tip |-> End]]
  /\ lock' = IF store = "sqlite" THEN Free ELSE w
  /\ forkable' = (forkable \/ Overlaps)
  /\ UNCHANGED <<store, rows, anchors, head, reader, history, faults>>

\* The insert, with the new head where there is one, and the commit.
Insert(w) ==
  LET id == Len(history) + 1
      tip == writers[w].tip
      seq == IF store = "audit" THEN tip.seq ELSE id
      hash == Digest(tip.prev, id)
  IN  /\ writers[w].pc = "write"
      /\ Len(history) < MaxRecords
      /\ rows' = Append(rows, [seq |-> seq, id |-> id, rest |-> id, prev |-> tip.prev,
                               hash |-> hash])
      /\ head' = IF store = "postgres" THEN hash ELSE head
      /\ history' = Append(history, id)
      /\ writers' = [writers EXCEPT ![w] = [pc |-> "idle", tip |-> NoTip]]
      /\ lock' = Free
      /\ UNCHANGED <<store, anchors, reader, faults, forkable>>

\* The statement raises, or the process dies: rolled back.
GiveUp(w) ==
  /\ writers[w].pc = "write"
  /\ writers' = [writers EXCEPT ![w] = [pc |-> "idle", tip |-> NoTip]]
  /\ lock' = Free
  /\ UNCHANGED <<store, rows, anchors, head, reader, history, faults, forkable>>

-----------------------------------------------------------------------------
(* Retention. *)

\* Mutant: the anchor is the first row that is kept.
FirstKept(n) ==
  LET row == rows[IF n < Len(rows) THEN n + 1 ELSE n] IN [seq |-> row.seq, hash |-> row.hash]

\* The sequence number and hash of the last row that goes.
AnchorAt(n) == [seq |-> rows[n].seq, hash |-> rows[n].hash]

\* prune_audit_prefix: the rows up to the last that is past the horizon go, which
\* may be all of them, and the anchor comes, in one transaction; anchor_seq is the
\* anchors' primary key.
Prune(n) ==
  /\ store = "audit"
  /\ lock = Free
  /\ \A a \in anchors : a.seq # AnchorAt(n).seq
  /\ anchors' = anchors \cup {AnchorAt(n)}
  /\ rows' = SubSeq(rows, n + 1, Len(rows))
  /\ forkable' = (forkable \/ n = Len(rows))
  /\ UNCHANGED <<store, head, lock, writers, reader, history, faults>>

\* chain_anchor: the one with the largest sequence number.
Anchor ==
  IF anchors = {} THEN [seq |-> 0, hash |-> Genesis]
  ELSE CHOOSE a \in anchors : \A b \in anchors : a.seq >= b.seq

-----------------------------------------------------------------------------
(* verify_chain. *)

\* Mutant: the links are compared, the contents are not hashed again.
LinksOnly(row, prev) == row.prev = prev

Reconciles(row, prev) == row.prev = prev /\ row.hash = Digest(prev, Hashed(row))

\* The rows link from the start on; the audit log also counts them.
Linked(rs, start) ==
  \A i \in 1..Len(rs) :
    /\ Reconciles(rs[i], IF i = 1 THEN start.hash ELSE rs[i - 1].hash)
    /\ store = "audit" => rs[i].seq = start.seq + i

\* The PostgreSQL ledger ends where its head says.
EndsAt(rs, hash) == store = "postgres" /\ rs # <<>> => Last(rs).hash = hash

ReadRows ==
  /\ reader.pc # "read"
  /\ reader' = [pc |-> "read", rows |-> rows, start |-> 0, upto |-> Len(history), ok |-> FALSE]
  /\ UNCHANGED <<store, rows, anchors, head, lock, writers, history, faults, forkable>>

\* The anchor, or the head, is read by a statement of its own.
Judge ==
  /\ reader.pc = "read"
  /\ reader' = [reader EXCEPT !.pc = "told", !.start = Anchor.seq,
                              !.ok = Linked(reader.rows, Anchor) /\ EndsAt(reader.rows, head)]
  /\ UNCHANGED <<store, rows, anchors, head, lock, writers, history, faults, forkable>>

-----------------------------------------------------------------------------
(* Outside the services. *)

Fault ==
  /\ faults < MaxFaults
  /\ store = "audit" => lock = Free
  /\ faults' = faults + 1
  /\ UNCHANGED <<store, anchors, head, lock, writers, reader, history, forkable>>

Change(i) ==
  /\ Fault
  /\ \/ rows' = [rows EXCEPT ![i].id = Changed]
     \/ rows' = [rows EXCEPT ![i].rest = Changed]

\* Only the PostgreSQL ledger has a head: the last rows of the others may go
\* unnoticed, which nothing says they may not.
Lose(i) ==
  /\ Fault
  /\ i < Len(rows) \/ store = "postgres"
  /\ rows' = RemoveAt(rows, i)

Next ==
  \/ \E w \in Writers : ReadEnd(w) \/ Insert(w) \/ GiveUp(w)
  \/ \E n \in 1..Len(rows) : Prune(n) \/ Change(n) \/ Lose(n)
  \/ ReadRows
  \/ Judge

Spec == Init /\ [][Next]_vars

-----------------------------------------------------------------------------
(* Properties. *)

Ids == 0..MaxRecords

Row(r) ==
  /\ r.seq \in 1..MaxRecords
  /\ r.id \in Ids /\ r.rest \in Ids
  /\ \A i \in 1..Len(r.prev) : r.prev[i] \in Ids
  /\ r.hash = Digest(r.prev, r.id) \/ r.id = Changed

\* The type invariant of the tables, of the appends and of the verification; a
\* lock is held by the one append that has read the end, and only an audit log or a
\* SQLite file comes to be forkable.
TypeOK ==
  /\ store \in Stores
  /\ \A i \in 1..Len(rows) : Row(rows[i])
  /\ \A a \in anchors : a.seq \in 1..MaxRecords
  /\ \A w \in Writers : writers[w].pc \in {"idle", "write"}
  /\ store # "sqlite" =>
       \A w \in Writers : writers[w].pc = "write" <=> lock = w
  /\ reader.pc \in {"idle", "read", "told"} /\ reader.ok \in BOOLEAN
  /\ reader.upto \in 0..Len(history)
  /\ faults \in 0..MaxFaults
  /\ forkable \in BOOLEAN /\ (forkable => store \in {"sqlite", "audit"})

\* A log nobody touched verifies, whatever was rolled back, however often its oldest
\* rows were removed ("so a pruned log is still tamper-evident for everything it
\* still holds", prune_audit_prefix), and, of the PostgreSQL ledger and the audit
\* log, whoever appended at the same time.  It may fail to only in a SQLite file
\* two appends to which have overlapped and in an audit log that retention has once
\* left without a row.
HonestLogVerifies ==
  faults = 0 => \/ Linked(rows, Anchor) /\ EndsAt(rows, head)
                \/ forkable /\ (store = "sqlite" \/ (store = "audit" /\ anchors # {}))

\* A verification that reports no fault has read exactly what was recorded from
\* its start on, nothing changed and nothing missing in between, though appends,
\* prunes and faults went on while it read; in the PostgreSQL ledger nothing
\* recorded before it began is missing at the end either.  In a log that could fork
\* a record may be missing, but still no text of a row is changed.  Of an audit row
\* this is about the columns that are hashed; of an event, about all.
OkIsHonest ==
  reader.pc = "told" /\ reader.ok =>
    LET n == Len(reader.rows)
        texts == [i \in 1..n |-> reader.rows[i].id]
    IN  /\ forkable \/ texts = SubSeq(history, reader.start + 1, reader.start + n)
        /\ \A i \in 1..n : /\ texts[i] # Changed
                            /\ store # "audit" => reader.rows[i].rest = texts[i]
        /\ store = "postgres" /\ n > 0 => n >= reader.upto

\* What the ledger's module says of it: the ledger is one transactional file, in
\* which "tampering with any row breaks verification of every later row", so that a
\* verification that fails tells of tampering.  Two appends that overlap, of the
\* session and of an owner's halt, break it too.
SqliteLedgerVerifies ==
  store = "sqlite" /\ faults = 0 => Linked(rows, Anchor)

==============================================================================
