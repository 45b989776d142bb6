---------------------------- MODULE AccountLease ----------------------------
(***************************************************************************)
(* The cross-host account runtime lease (trading/vati/app/account_lease.py) *)
(* as the account service drives it: one row of the shared authority store  *)
(* per account alias, a compare-and-set that arbitrates who may trade, and  *)
(* a row lock held across each broker submission.                           *)
(*                                                                          *)
(* An instance is one account service process.  A store read, the           *)
(* compare-and-set that follows it and the row lock are separate steps, the *)
(* time an operation uses is read before the store answers, a store call    *)
(* may fail before or after it took effect, a database connection may die   *)
(* under a running process and a process may crash anywhere.                *)
(***************************************************************************)
EXTENDS Naturals

CONSTANTS
  Instances,    \* the processes that may serve the account alias
  None,         \* no instance
  TTL,          \* ttl_ms of a lease, in clock ticks
  MinValidity,  \* min_validity_ms of fence, in clock ticks
  MaxTime,      \* bound on the clock
  MaxEpoch      \* bound on the epochs granted

ASSUME ConstantsAssumption ==
  /\ None \notin Instances
  /\ TTL \in Nat \ {0}
  /\ MinValidity \in Nat
  /\ MaxTime \in Nat
  /\ MaxEpoch \in Nat

VARIABLES
  clock,  \* the time every host reads
  row,    \* the alias's row in vati.account_runtime_leases
  guard,  \* the instance whose transaction holds the row lock, or None
  pc,     \* where each process is
  held,   \* AccountRuntimeLease._held of each process
  now,    \* the now_ms the running operation was given
  snap,   \* the row the running acquire or renew has read
  conn    \* the state of each process's store connection

vars == <<clock, row, guard, pc, held, now, snap, conn>>

(***************************************************************************)
(* A row, reduced to what arbitration compares: acquired_at_ms and the      *)
(* version strings are functions of the epoch.  Epoch 0 is "no row".        *)
(***************************************************************************)
Lease == [holder: Instances \cup {None}, epoch: Nat, heartbeat: Nat, expires: Nat]

NoLease == [holder |-> None, epoch |-> 0, heartbeat |-> 0, expires |-> 0]

Phase == {"down", "start", "startCas", "idle", "acquire", "acquireCas", "renew",
          "renewCas", "pass", "fence", "gates", "guard", "submit", "release"}

LiveAt(l, t) == t < l.expires

\* Mutant: a takeover keeps the epoch of the lease it replaces.
GrantedSameEpoch(i, current, t) ==
  [holder |-> i, epoch |-> IF current.epoch = 0 THEN 1 ELSE current.epoch,
   heartbeat |-> t, expires |-> t + TTL]

\* The lease acquire writes over the row it has read.
Granted(i, current, t) ==
  [holder |-> i, epoch |-> current.epoch + 1, heartbeat |-> t, expires |-> t + TTL]

\* The lease renew writes over the row it has read.
Renewed(current, t) ==
  [holder |-> current.holder, epoch |-> current.epoch, heartbeat |-> t, expires |-> t + TTL]

\* The lease release leaves behind.
Released(current, t) == [current EXCEPT !.expires = t]

Init ==
  /\ clock = 0
  /\ row = NoLease
  /\ guard = None
  /\ pc = [i \in Instances |-> "down"]
  /\ held = [i \in Instances |-> NoLease]
  /\ now = [i \in Instances |-> 0]
  /\ snap = [i \in Instances |-> NoLease]
  /\ conn = [i \in Instances |-> "up"]

-----------------------------------------------------------------------------
(* What the steps of a process have in common. *)

\* The operation is over: the process goes to phase p and forgets its inputs.
Settle(i, p) ==
  /\ pc' = [pc EXCEPT ![i] = p]
  /\ now' = [now EXCEPT ![i] = 0]
  /\ snap' = [snap EXCEPT ![i] = NoLease]

\* The process ends: its memory goes, and with its connection any lock it held.
Exit(i) ==
  /\ Settle(i, "down")
  /\ held' = [held EXCEPT ![i] = NoLease]
  /\ guard' = IF guard = i THEN None ELSE guard
  /\ UNCHANGED conn

\* Mutant: the row is read without FOR UPDATE.
RowLockUnseen(i) == conn[i] = "up"

\* write_if: SELECT ... FOR UPDATE waits for the lock another transaction holds.
RowLockFree(i) == conn[i] = "up" /\ guard = None

\* Mutant: the write is not conditional.
MatchesAlways(i) == TRUE

\* Mutant: the write is conditional on the epoch only.
MatchesEpoch(i) == row.epoch = snap[i].epoch

Matches(i) == row = snap[i]

-----------------------------------------------------------------------------
(* start() and acquire(). *)

\* build() opens the store connection, start() acquires over it.
Start(i) ==
  /\ pc[i] = "down"
  /\ pc' = [pc EXCEPT ![i] = "start"]
  /\ now' = [now EXCEPT ![i] = clock]
  /\ conn' = [conn EXCEPT ![i] = "up"]
  /\ UNCHANGED <<clock, row, guard, held, snap>>

\* Where a refused or failed acquire leaves the process: start() raises, a pass ends.
AfterRefusal(i) == IF pc[i] \in {"start", "startCas"} THEN "down" ELSE "idle"

AfterGrant(i) == IF pc[i] = "startCas" THEN "idle" ELSE "pass"

\* Mutant: a lease about to expire may be taken.
HeldByOtherForLong(i) == LiveAt(row, now[i] + MinValidity) /\ row.holder # i

HeldByOther(i) == LiveAt(row, now[i]) /\ row.holder # i

AcquireRead(i) ==
  /\ pc[i] \in {"start", "acquire"}
  /\ conn[i] = "up"
  /\ \/ /\ HeldByOther(i)
        /\ Settle(i, AfterRefusal(i))
     \/ /\ ~HeldByOther(i)
        /\ row.epoch < MaxEpoch
        /\ snap' = [snap EXCEPT ![i] = row]
        /\ pc' = [pc EXCEPT ![i] = IF @ = "start" THEN "startCas" ELSE "acquireCas"]
        /\ UNCHANGED now
  /\ UNCHANGED <<clock, row, guard, held, conn>>

AcquireCas(i) ==
  /\ pc[i] \in {"startCas", "acquireCas"}
  /\ RowLockFree(i)
  /\ \/ /\ Matches(i)
        /\ row' = Granted(i, snap[i], now[i])
        /\ held' = [held EXCEPT ![i] = row']
        /\ Settle(i, AfterGrant(i))
     \/ /\ ~Matches(i)
        /\ Settle(i, AfterRefusal(i))
        /\ UNCHANGED <<row, held>>
  /\ UNCHANGED <<clock, guard, conn>>

\* The commit landed but its acknowledgement did not: write_if raises.
AcquireCasUnacknowledged(i) ==
  /\ pc[i] \in {"startCas", "acquireCas"}
  /\ RowLockFree(i)
  /\ Matches(i)
  /\ row' = Granted(i, snap[i], now[i])
  /\ Settle(i, AfterRefusal(i))
  /\ UNCHANGED <<clock, guard, held, conn>>

-----------------------------------------------------------------------------
(* A pass of the coordinator begins with renew(), which acquires when        *)
(* nothing is held.                                                          *)

BeginPass(i) ==
  /\ pc[i] = "idle"
  /\ pc' = [pc EXCEPT ![i] = IF held[i] = NoLease THEN "acquire" ELSE "renew"]
  /\ now' = [now EXCEPT ![i] = clock]
  /\ UNCHANGED <<clock, row, guard, held, snap, conn>>

\* The row still names this instance under the epoch it holds.
StillOurs(i) == row.holder = i /\ row.epoch = held[i].epoch

RenewRead(i) ==
  /\ pc[i] = "renew"
  /\ conn[i] = "up"
  /\ \/ /\ StillOurs(i)
        /\ snap' = [snap EXCEPT ![i] = row]
        /\ pc' = [pc EXCEPT ![i] = "renewCas"]
        /\ UNCHANGED <<now, held>>
     \/ /\ ~StillOurs(i)
        /\ held' = [held EXCEPT ![i] = NoLease]
        /\ Settle(i, "idle")
  /\ UNCHANGED <<clock, row, guard, conn>>

RenewCas(i) ==
  /\ pc[i] = "renewCas"
  /\ RowLockFree(i)
  /\ \/ /\ Matches(i)
        /\ row' = Renewed(snap[i], now[i])
        /\ held' = [held EXCEPT ![i] = row']
        /\ Settle(i, "pass")
     \/ /\ ~Matches(i)
        /\ held' = [held EXCEPT ![i] = NoLease]
        /\ Settle(i, "idle")
        /\ UNCHANGED row
  /\ UNCHANGED <<clock, guard, conn>>

RenewCasUnacknowledged(i) ==
  /\ pc[i] = "renewCas"
  /\ RowLockFree(i)
  /\ Matches(i)
  /\ row' = Renewed(snap[i], now[i])
  /\ Settle(i, "idle")
  /\ UNCHANGED <<clock, guard, held, conn>>

EndPass(i) ==
  /\ pc[i] = "pass"
  /\ Settle(i, "idle")
  /\ UNCHANGED <<clock, row, guard, held, conn>>

-----------------------------------------------------------------------------
(* One order: the fence, the router's other gates, the guard, the broker.    *)

BeginOrder(i) ==
  /\ pc[i] = "pass"
  /\ pc' = [pc EXCEPT ![i] = "fence"]
  /\ now' = [now EXCEPT ![i] = clock]
  /\ UNCHANGED <<clock, row, guard, held, snap, conn>>

Fence(i) ==
  /\ pc[i] = "fence"
  /\ conn[i] = "up"
  /\ \/ /\ ~StillOurs(i)
        /\ held' = [held EXCEPT ![i] = NoLease]
        /\ Settle(i, "idle")
     \/ /\ StillOurs(i)
        /\ row.expires <= now[i] + MinValidity
        /\ Settle(i, "idle")
        /\ UNCHANGED held
     \/ /\ StillOurs(i)
        /\ row.expires > now[i] + MinValidity
        /\ held' = [held EXCEPT ![i] = row]
        /\ Settle(i, "gates")
  /\ UNCHANGED <<clock, row, guard, conn>>

\* Any other gate of the router refuses: RouterError ends the pass.
GateRefuses(i) ==
  /\ pc[i] = "gates"
  /\ Settle(i, "idle")
  /\ UNCHANGED <<clock, row, guard, held, conn>>

\* The caller reads its clock first and only then asks for the row lock.
AskGuard(i) ==
  /\ pc[i] = "gates"
  /\ pc' = [pc EXCEPT ![i] = "guard"]
  /\ now' = [now EXCEPT ![i] = clock]
  /\ UNCHANGED <<clock, row, guard, held, snap, conn>>

GuardValid(i) == StillOurs(i) /\ LiveAt(row, now[i])

EnterGuard(i) ==
  /\ pc[i] = "guard"
  /\ RowLockFree(i)
  /\ \/ /\ GuardValid(i)
        /\ held' = [held EXCEPT ![i] = row]
        /\ guard' = i
        /\ Settle(i, "submit")
     \/ /\ ~GuardValid(i)
        /\ held' = [held EXCEPT ![i] = NoLease]
        /\ Settle(i, "idle")
        /\ UNCHANGED guard
  /\ UNCHANGED <<clock, row, conn>>

\* The guarded section returns, or raises and ends the pass.  On a dead
\* connection the closing rollback itself raises.
LeaveGuard(i) ==
  /\ pc[i] = "submit"
  /\ \E p \in IF conn[i] = "up" THEN {"pass", "idle"} ELSE {"idle"} : Settle(i, p)
  /\ guard' = IF guard = i THEN None ELSE guard
  /\ UNCHANGED <<clock, row, held, conn>>

-----------------------------------------------------------------------------
(* Shutdown, failures, time. *)

\* SIGTERM is noticed between passes; with nothing held release() returns at once.
Stop(i) ==
  /\ pc[i] = "idle"
  /\ IF held[i] = NoLease
     THEN Exit(i)
     ELSE /\ pc' = [pc EXCEPT ![i] = "release"]
          /\ now' = [now EXCEPT ![i] = clock]
          /\ UNCHANGED <<guard, held, snap, conn>>
  /\ UNCHANGED <<clock, row>>

Release(i) ==
  /\ pc[i] = "release"
  /\ RowLockFree(i)
  /\ row' = IF row = held[i] THEN Released(held[i], now[i]) ELSE row
  /\ Exit(i)
  /\ UNCHANGED clock

\* A store call fails without effect: LeaseStoreUnavailable.  Nothing that was
\* held is dropped; release gives up and leaves the row to its TTL.
StoreUnreachable(i) ==
  /\ \/ /\ pc[i] \in {"start", "startCas", "acquire", "acquireCas", "renew", "renewCas",
                      "fence", "guard"}
        /\ Settle(i, AfterRefusal(i))
        /\ UNCHANGED <<held, guard, conn>>
     \/ /\ pc[i] = "release"
        /\ Exit(i)
  /\ UNCHANGED <<clock, row>>

\* The database connection dies under a running process: the server drops the
\* transaction and its lock, the process may still be talking to the broker.
ConnectionDies(i) ==
  /\ pc[i] # "down"
  /\ conn[i] = "up"
  /\ conn' = [conn EXCEPT ![i] = "dead"]
  /\ guard' = IF guard = i THEN None ELSE guard
  /\ UNCHANGED <<clock, row, pc, held, now, snap>>

Crash(i) ==
  /\ pc[i] # "down"
  /\ Exit(i)
  /\ UNCHANGED <<clock, row>>

Tick ==
  /\ clock < MaxTime
  /\ clock' = clock + 1
  /\ UNCHANGED <<row, guard, pc, held, now, snap, conn>>

Step(i) ==
  \/ Start(i) \/ AcquireRead(i) \/ AcquireCas(i) \/ AcquireCasUnacknowledged(i)
  \/ BeginPass(i) \/ RenewRead(i) \/ RenewCas(i) \/ RenewCasUnacknowledged(i)
  \/ EndPass(i) \/ BeginOrder(i) \/ Fence(i) \/ GateRefuses(i) \/ AskGuard(i)
  \/ EnterGuard(i) \/ LeaveGuard(i) \/ Stop(i) \/ Release(i)
  \/ StoreUnreachable(i) \/ ConnectionDies(i) \/ Crash(i)

Next == Tick \/ \E i \in Instances : Step(i)

Spec == Init /\ [][Next]_vars

-----------------------------------------------------------------------------
(* What the lease promises. *)

TypeOK ==
  /\ clock \in Nat
  /\ row \in Lease
  /\ guard \in Instances \cup {None}
  /\ pc \in [Instances -> Phase]
  /\ held \in [Instances -> Lease]
  /\ now \in [Instances -> Nat]
  /\ snap \in [Instances -> Lease]
  /\ conn \in [Instances -> {"up", "dead"}]

Submitting(i) == pc[i] = "submit"

\* A submission whose process still has the row lock.
Guarded(i) == Submitting(i) /\ conn[i] = "up"

(***************************************************************************)
(* Of two broker submissions in progress at once, at most one still has its *)
(* row lock: SELECT FOR UPDATE keeps every other process out of the guarded *)
(* section until this one is settled or its connection has died             *)
(* (PostgresLeaseStore.submission_guard).                                   *)
(***************************************************************************)
SubmissionExclusive ==
  \A i, j \in Instances : Guarded(i) /\ Guarded(j) => i = j

(***************************************************************************)
(* For as long as a guarded submission runs, however long the broker takes  *)
(* and whether or not the lease has meanwhile expired, the row still names  *)
(* that instance under the epoch the order carries: no acquire, renew or    *)
(* release of another process lands in between.                             *)
(***************************************************************************)
GuardedIsHolder ==
  \A i \in Instances :
    Guarded(i) => row.holder = i /\ row.epoch = held[i].epoch

(***************************************************************************)
(* An epoch identifies one holder: two processes never believe they hold    *)
(* the account under the same epoch, and none believes in an epoch the      *)
(* store has not granted, or in the store's newest epoch unless the store   *)
(* names it.  This is what makes lease_epoch on an order a fencing token.   *)
(***************************************************************************)
EpochIdentifiesHolder ==
  /\ \A i \in Instances :
       held[i] # NoLease =>
         /\ held[i].holder = i
         /\ held[i].epoch <= row.epoch
         /\ held[i].epoch = row.epoch => row.holder = i
  /\ \A i, j \in Instances :
       held[i] # NoLease /\ held[j] # NoLease /\ held[i].epoch = held[j].epoch => i = j

(***************************************************************************)
(* A submission that lost its lock (its connection died while the broker    *)
(* was being called) carries an older epoch than any guarded submission of  *)
(* another process that overlaps it, so a venue or a ledger reader that     *)
(* compares epochs can tell which of the two is stale.                      *)
(***************************************************************************)
OrphanIsOlder ==
  \A i, j \in Instances :
    Submitting(i) /\ ~Guarded(i) /\ Guarded(j) => held[i].epoch < held[j].epoch

(***************************************************************************)
(* The account passes to another instance only when the lease in the row    *)
(* has expired on the clock: a live lease is never taken, though the taker  *)
(* judged it by a row and a time it had read some steps earlier.            *)
(***************************************************************************)
TakeoverOnlyAfterExpiry ==
  [][row'.holder # row.holder => row.expires <= clock]_vars

(***************************************************************************)
(* Epochs only grow, one at a time, and the holder never changes without a  *)
(* new epoch: a renewal or a release by a process that was overtaken is     *)
(* lost, never written over its successor's row.                            *)
(***************************************************************************)
EpochsAdvance ==
  [][/\ row'.epoch \in {row.epoch, row.epoch + 1}
     /\ row'.holder # row.holder => row'.epoch = row.epoch + 1]_vars

(***************************************************************************)
(* The inductive invariant behind these promises: who has the row lock, what *)
(* a process may believe at each phase, and that what an acquire or a renew  *)
(* has read still justifies the write it is about to attempt.                *)
(***************************************************************************)
LeaseInv ==
  /\ TypeOK
  /\ \A i \in Instances : Guarded(i) <=> guard = i
  /\ GuardedIsHolder
  /\ EpochIdentifiesHolder
  /\ \A i \in Instances :
       /\ now[i] <= clock
       /\ pc[i] \in {"pass", "fence", "gates", "guard", "submit", "renew", "renewCas",
                     "release"} => held[i] # NoLease
       /\ pc[i] = "renewCas" => snap[i].holder = i /\ snap[i].epoch = held[i].epoch
       /\ pc[i] \in {"startCas", "acquireCas"} =>
            snap[i].holder = i \/ snap[i].expires <= now[i]

=============================================================================
