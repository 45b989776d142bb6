------------------------- MODULE AccountLeaseProofs -------------------------
(* What the lease promises, for every set of instances and all the bounds.   *)
EXTENDS AccountLeaseImplements, TLAPS

(***************************************************************************)
(* The leases that acquire, renew and release write are leases.             *)
(***************************************************************************)
LEMMA LeaseConstructors ==
  /\ NoLease \in Lease
  /\ \A l \in Lease : /\ l.epoch \in Nat
                       /\ l.expires \in Nat
                       /\ l.holder \in Instances \cup {None}
  /\ \A i \in Instances, l \in Lease, t \in Nat :
       /\ Granted(i, l, t) \in Lease
       /\ Renewed(l, t) \in Lease
       /\ Released(l, t) \in Lease
<1>1. NoLease \in Lease
  BY DEF NoLease, Lease
<1>2. \A l \in Lease : /\ l.epoch \in Nat
                       /\ l.expires \in Nat
                       /\ l.holder \in Instances \cup {None}
  BY DEF Lease
<1>3. ASSUME NEW i \in Instances, NEW l \in Lease, NEW t \in Nat
      PROVE  /\ Granted(i, l, t) \in Lease
             /\ Renewed(l, t) \in Lease
             /\ Released(l, t) \in Lease
  BY <1>3, ConstantsAssumption DEF Lease, Granted, Renewed, Released
<1>4. QED
  BY <1>1, <1>2, <1>3

(***************************************************************************)
(* Ending an operation keeps the types of what it touches.                  *)
(***************************************************************************)
LEMMA SettleTypes ==
  ASSUME TypeOK, NEW i \in Instances, NEW p \in Phase, Settle(i, p)
  PROVE  /\ pc' \in [Instances -> Phase]
         /\ now' \in [Instances -> Nat]
         /\ snap' \in [Instances -> Lease]
BY LeaseConstructors DEF TypeOK, Settle

LEMMA PhasesOfOutcomes ==
  ASSUME NEW i \in Instances
  PROVE  /\ AfterRefusal(i) \in Phase
         /\ AfterGrant(i) \in Phase
         /\ {"down", "idle", "pass", "gates", "submit"} \subseteq Phase
BY DEF AfterRefusal, AfterGrant, Phase

LEMMA ExitTypes ==
  ASSUME TypeOK, NEW i \in Instances, Exit(i)
  PROVE  /\ pc' \in [Instances -> Phase]
         /\ now' \in [Instances -> Nat]
         /\ snap' \in [Instances -> Lease]
         /\ held' \in [Instances -> Lease]
         /\ guard' \in Instances \cup {None}
         /\ conn' = conn
BY LeaseConstructors, SettleTypes, PhasesOfOutcomes DEF TypeOK, Exit

LEMMA TypeStep == TypeOK /\ [Next]_vars => TypeOK'
<1> SUFFICES ASSUME TypeOK, [Next]_vars PROVE TypeOK'
  OBVIOUS
<1> USE DEF TypeOK
<1>1. CASE Tick
  BY <1>1, ConstantsAssumption DEF Tick
<1>2. ASSUME NEW i \in Instances, Step(i) PROVE TypeOK'
  <2>1. CASE Start(i)
    BY <2>1 DEF Start, Phase
  <2>2. CASE AcquireRead(i)
    BY <2>2, SettleTypes, PhasesOfOutcomes DEF AcquireRead, Phase
  <2>3. CASE AcquireCas(i)
    <3>1. row' \in Lease
      <4>1. snap[i] \in Lease /\ now[i] \in Nat /\ row \in Lease
        OBVIOUS
      <4>2. row' = Granted(i, snap[i], now[i]) \/ row' = row
        BY <2>3 DEF AcquireCas
      <4>3. Granted(i, snap[i], now[i]) \in Lease
        BY <4>1, LeaseConstructors
      <4>4. QED
        BY <4>1, <4>2, <4>3
    <3>2. held' \in [Instances -> Lease]
      BY <2>3, <3>1, LeaseConstructors DEF AcquireCas
    <3>3. pc' \in [Instances -> Phase] /\ now' \in [Instances -> Nat] /\ snap' \in [Instances -> Lease]
      BY <2>3, SettleTypes, PhasesOfOutcomes DEF AcquireCas
    <3>4. QED
      BY <2>3, <3>1, <3>2, <3>3 DEF AcquireCas
  <2>4. CASE AcquireCasUnacknowledged(i)
    BY <2>4, LeaseConstructors, SettleTypes, PhasesOfOutcomes DEF AcquireCasUnacknowledged
  <2>5. CASE BeginPass(i)
    BY <2>5 DEF BeginPass, Phase
  <2>6. CASE RenewRead(i)
    <3>1. CASE StillOurs(i) /\ snap' = [snap EXCEPT ![i] = row]
               /\ pc' = [pc EXCEPT ![i] = "renewCas"] /\ UNCHANGED <<now, held>>
      BY <2>6, <3>1 DEF RenewRead, Phase
    <3>2. CASE held' = [held EXCEPT ![i] = NoLease] /\ Settle(i, "idle")
      <4>1. held' \in [Instances -> Lease]
        BY <3>2, LeaseConstructors
      <4>2. pc' \in [Instances -> Phase] /\ now' \in [Instances -> Nat] /\ snap' \in [Instances -> Lease]
        BY <3>2, SettleTypes, PhasesOfOutcomes
      <4>3. QED
        BY <2>6, <4>1, <4>2 DEF RenewRead
    <3>3. QED
      BY <2>6, <3>1, <3>2 DEF RenewRead
  <2>7. CASE RenewCas(i)
    <3>1. row' \in Lease
      <4>1. snap[i] \in Lease /\ now[i] \in Nat /\ row \in Lease
        OBVIOUS
      <4>2. row' = Renewed(snap[i], now[i]) \/ row' = row
        BY <2>7 DEF RenewCas
      <4>3. Renewed(snap[i], now[i]) \in Lease
        BY <4>1, LeaseConstructors
      <4>4. QED
        BY <4>1, <4>2, <4>3
    <3>2. held' \in [Instances -> Lease]
      BY <2>7, <3>1, LeaseConstructors DEF RenewCas
    <3>3. pc' \in [Instances -> Phase] /\ now' \in [Instances -> Nat] /\ snap' \in [Instances -> Lease]
      BY <2>7, SettleTypes, PhasesOfOutcomes DEF RenewCas
    <3>4. QED
      BY <2>7, <3>1, <3>2, <3>3 DEF RenewCas
  <2>8. CASE RenewCasUnacknowledged(i)
    BY <2>8, LeaseConstructors, SettleTypes, PhasesOfOutcomes DEF RenewCasUnacknowledged
  <2>9. CASE EndPass(i)
    BY <2>9, SettleTypes, PhasesOfOutcomes DEF EndPass
  <2>10. CASE BeginOrder(i)
    BY <2>10 DEF BeginOrder, Phase
  <2>11. CASE Fence(i)
    BY <2>11, LeaseConstructors, SettleTypes, PhasesOfOutcomes DEF Fence
  <2>12. CASE GateRefuses(i)
    BY <2>12, SettleTypes, PhasesOfOutcomes DEF GateRefuses
  <2>13. CASE AskGuard(i)
    BY <2>13 DEF AskGuard, Phase
  <2>14. CASE EnterGuard(i)
    <3>1. held' \in [Instances -> Lease] /\ guard' \in Instances \cup {None}
      BY <2>14, LeaseConstructors DEF EnterGuard
    <3>2. pc' \in [Instances -> Phase] /\ now' \in [Instances -> Nat] /\ snap' \in [Instances -> Lease]
      BY <2>14, SettleTypes, PhasesOfOutcomes DEF EnterGuard
    <3>3. QED
      BY <2>14, <3>1, <3>2 DEF EnterGuard
  <2>15. CASE LeaveGuard(i)
    BY <2>15, SettleTypes, PhasesOfOutcomes DEF LeaveGuard
  <2>16. CASE Stop(i)
    BY <2>16, ExitTypes DEF Stop, Phase
  <2>17. CASE Release(i)
    BY <2>17, LeaseConstructors, ExitTypes DEF Release
  <2>18. CASE StoreUnreachable(i)
    BY <2>18, SettleTypes, PhasesOfOutcomes, ExitTypes DEF StoreUnreachable
  <2>19. CASE ConnectionDies(i)
    BY <2>19 DEF ConnectionDies
  <2>20. CASE Crash(i)
    BY <2>20, ExitTypes DEF Crash
  <2>21. QED
    BY <1>2, <2>1, <2>2, <2>3, <2>4, <2>5, <2>6, <2>7, <2>8, <2>9, <2>10, <2>11,
       <2>12, <2>13, <2>14, <2>15, <2>16, <2>17, <2>18, <2>19, <2>20 DEF Step
<1>3. CASE UNCHANGED vars
  BY <1>3 DEF vars
<1>4. QED
  BY <1>1, <1>2, <1>3 DEF Next

(***************************************************************************)
(* Type correctness: every variable of the lease keeps its type.            *)
(***************************************************************************)
THEOREM LeaseTypes == Spec => []TypeOK
<1>1. Init => TypeOK
  BY LeaseConstructors DEF Init, TypeOK, Phase
<1>2. QED
  BY <1>1, TypeStep, PTL DEF Spec

LEMMA NoLeaseFields == NoLease.holder = None /\ NoLease.epoch = 0 /\ NoLease.expires = 0
BY DEF NoLease

LEMMA WrittenFields ==
  ASSUME NEW i \in Instances, NEW l \in Lease, NEW t \in Nat
  PROVE  /\ Granted(i, l, t).holder = i
         /\ Granted(i, l, t).epoch = l.epoch + 1
         /\ Renewed(l, t).holder = l.holder
         /\ Renewed(l, t).epoch = l.epoch
         /\ Released(l, t).holder = l.holder
         /\ Released(l, t).epoch = l.epoch
BY DEF Granted, Renewed, Released, Lease

(***************************************************************************)
(* A step of one process leaves the others' memory alone.                   *)
(***************************************************************************)
LEMMA OthersKeepTheirs ==
  ASSUME TypeOK, NEW i \in Instances, Step(i), NEW j \in Instances, i # j
  PROVE  /\ pc'[j] = pc[j]
         /\ held'[j] = held[j]
         /\ now'[j] = now[j]
         /\ snap'[j] = snap[j]
         /\ conn'[j] = conn[j]
<1> USE DEF TypeOK
<1>1. CASE Start(i)
  BY <1>1 DEF Start, Settle
<1>2. CASE AcquireRead(i)
  BY <1>2 DEF AcquireRead, Settle
<1>3. CASE AcquireCas(i)
  BY <1>3 DEF AcquireCas, Settle
<1>4. CASE AcquireCasUnacknowledged(i)
  BY <1>4 DEF AcquireCasUnacknowledged, Settle
<1>5. CASE BeginPass(i)
  BY <1>5 DEF BeginPass, Settle
<1>6. CASE RenewRead(i)
  BY <1>6 DEF RenewRead, Settle
<1>7. CASE RenewCas(i)
  BY <1>7 DEF RenewCas, Settle
<1>8. CASE RenewCasUnacknowledged(i)
  BY <1>8 DEF RenewCasUnacknowledged, Settle
<1>9. CASE EndPass(i)
  BY <1>9 DEF EndPass, Settle
<1>10. CASE BeginOrder(i)
  BY <1>10 DEF BeginOrder, Settle
<1>11. CASE Fence(i)
  BY <1>11 DEF Fence, Settle
<1>12. CASE GateRefuses(i)
  BY <1>12 DEF GateRefuses, Settle
<1>13. CASE AskGuard(i)
  BY <1>13 DEF AskGuard, Settle
<1>14. CASE EnterGuard(i)
  BY <1>14 DEF EnterGuard, Settle
<1>15. CASE LeaveGuard(i)
  BY <1>15 DEF LeaveGuard, Settle
<1>16. CASE Stop(i)
  BY <1>16 DEF Stop, Exit, Settle
<1>17. CASE Release(i)
  BY <1>17 DEF Release, Exit, Settle
<1>18. CASE StoreUnreachable(i)
  BY <1>18 DEF StoreUnreachable, Exit, Settle
<1>19. CASE ConnectionDies(i)
  BY <1>19 DEF ConnectionDies, Settle
<1>20. CASE Crash(i)
  BY <1>20 DEF Crash, Exit, Settle
<1>21. QED
  BY <1>1, <1>2, <1>3, <1>4, <1>5, <1>6, <1>7, <1>8, <1>9, <1>10, <1>11, <1>12, <1>13, <1>14, <1>15, <1>16, <1>17, <1>18, <1>19, <1>20 DEF Step

(***************************************************************************)
(* The three things a step of a process can do to the row.                  *)
(***************************************************************************)
Grants(i) ==
  /\ guard = None
  /\ pc[i] \in {"startCas", "acquireCas"}
  /\ row = snap[i]
  /\ row'.holder = i
  /\ row'.epoch = row.epoch + 1

Extends(i) ==
  /\ guard = None
  /\ row'.holder = row.holder
  /\ row'.epoch = row.epoch

LEMMA RowMoves ==
  ASSUME TypeOK, NEW i \in Instances, Step(i)
  PROVE  row' = row \/ Grants(i) \/ Extends(i)
<1> USE DEF TypeOK
<1>1. CASE Start(i)
  BY <1>1 DEF Start
<1>2. CASE AcquireRead(i)
  BY <1>2 DEF AcquireRead
<1>3. CASE AcquireCas(i)
  BY <1>3, WrittenFields DEF AcquireCas, Grants, RowLockFree, Matches
<1>4. CASE AcquireCasUnacknowledged(i)
  BY <1>4, WrittenFields DEF AcquireCasUnacknowledged, Grants, RowLockFree, Matches
<1>5. CASE BeginPass(i)
  BY <1>5 DEF BeginPass
<1>6. CASE RenewRead(i)
  BY <1>6 DEF RenewRead
<1>7. CASE RenewCas(i)
  BY <1>7, WrittenFields DEF RenewCas, Extends, RowLockFree, Matches
<1>8. CASE RenewCasUnacknowledged(i)
  BY <1>8, WrittenFields DEF RenewCasUnacknowledged, Extends, RowLockFree, Matches
<1>9. CASE EndPass(i)
  BY <1>9 DEF EndPass
<1>10. CASE BeginOrder(i)
  BY <1>10 DEF BeginOrder
<1>11. CASE Fence(i)
  BY <1>11 DEF Fence
<1>12. CASE GateRefuses(i)
  BY <1>12 DEF GateRefuses
<1>13. CASE AskGuard(i)
  BY <1>13 DEF AskGuard
<1>14. CASE EnterGuard(i)
  BY <1>14 DEF EnterGuard
<1>15. CASE LeaveGuard(i)
  BY <1>15 DEF LeaveGuard
<1>16. CASE Stop(i)
  BY <1>16 DEF Stop
<1>17. CASE Release(i)
  BY <1>17, WrittenFields DEF Release, Extends, RowLockFree
<1>18. CASE StoreUnreachable(i)
  BY <1>18 DEF StoreUnreachable
<1>19. CASE ConnectionDies(i)
  BY <1>19 DEF ConnectionDies
<1>20. CASE Crash(i)
  BY <1>20 DEF Crash
<1>21. QED
  BY <1>1, <1>2, <1>3, <1>4, <1>5, <1>6, <1>7, <1>8, <1>9, <1>10, <1>11, <1>12, <1>13, <1>14, <1>15, <1>16, <1>17, <1>18, <1>19, <1>20 DEF Step

(***************************************************************************)
(* What a step can do to the lease its process believes in: keep it, forget *)
(* it, or take over the row as the step leaves it.                          *)
(***************************************************************************)
Believes(i) ==
  /\ held'[i] = row'
  /\ row'.holder = i
  /\ \/ Grants(i)
     \/ held[i] # NoLease /\ row'.epoch = held[i].epoch

LEMMA HeldMoves ==
  ASSUME LeaseInv, NEW i \in Instances, Step(i)
  PROVE  held'[i] = held[i] \/ held'[i] = NoLease \/ Believes(i)
<1> USE DEF LeaseInv, TypeOK
<1>1. CASE Start(i)
  BY <1>1 DEF Start
<1>2. CASE AcquireRead(i)
  BY <1>2 DEF AcquireRead
<1>3. CASE AcquireCas(i)
  BY <1>3, WrittenFields DEF AcquireCas, Grants, Believes, RowLockFree, Matches
<1>4. CASE AcquireCasUnacknowledged(i)
  BY <1>4 DEF AcquireCasUnacknowledged
<1>5. CASE BeginPass(i)
  BY <1>5 DEF BeginPass
<1>6. CASE RenewRead(i)
  BY <1>6 DEF RenewRead
<1>7. CASE RenewCas(i)
  <2>1. CASE ~Matches(i)
    BY <1>7, <2>1 DEF RenewCas
  <2>2. CASE Matches(i)
    <3>1. row' = Renewed(snap[i], now[i]) /\ held'[i] = row'
      BY <1>7, <2>2 DEF RenewCas
    <3>2. /\ held[i] # NoLease
          /\ snap[i].holder = i
          /\ snap[i].epoch = held[i].epoch
      BY <1>7 DEF RenewCas
    <3>3. row'.holder = i /\ row'.epoch = held[i].epoch
      BY <3>1, <3>2, WrittenFields
    <3>4. QED
      BY <3>1, <3>2, <3>3 DEF Believes
  <2>3. QED
    BY <2>1, <2>2
<1>8. CASE RenewCasUnacknowledged(i)
  BY <1>8 DEF RenewCasUnacknowledged
<1>9. CASE EndPass(i)
  BY <1>9 DEF EndPass
<1>10. CASE BeginOrder(i)
  BY <1>10 DEF BeginOrder
<1>11. CASE Fence(i)
  BY <1>11 DEF Fence, Believes, StillOurs, GuardValid
<1>12. CASE GateRefuses(i)
  BY <1>12 DEF GateRefuses
<1>13. CASE AskGuard(i)
  BY <1>13 DEF AskGuard
<1>14. CASE EnterGuard(i)
  BY <1>14 DEF EnterGuard, Believes, StillOurs, GuardValid
<1>15. CASE LeaveGuard(i)
  BY <1>15 DEF LeaveGuard
<1>16. CASE Stop(i)
  BY <1>16 DEF Stop, Exit
<1>17. CASE Release(i)
  BY <1>17 DEF Release, Exit
<1>18. CASE StoreUnreachable(i)
  BY <1>18 DEF StoreUnreachable, Exit
<1>19. CASE ConnectionDies(i)
  BY <1>19 DEF ConnectionDies
<1>20. CASE Crash(i)
  BY <1>20 DEF Crash, Exit
<1>21. QED
  BY <1>1, <1>2, <1>3, <1>4, <1>5, <1>6, <1>7, <1>8, <1>9, <1>10, <1>11, <1>12, <1>13, <1>14, <1>15, <1>16, <1>17, <1>18, <1>19, <1>20 DEF Step

(***************************************************************************)
(* The row lock: a process has it exactly while its submission is guarded,  *)
(* and takes or loses only its own.                                         *)
(***************************************************************************)
LEMMA GuardStep ==
  ASSUME LeaseInv, NEW i \in Instances, Step(i)
  PROVE  /\ Guarded(i)' <=> guard' = i
         /\ \A j \in Instances : i # j => (guard' = j <=> guard = j)
<1> USE ConstantsAssumption DEF LeaseInv, TypeOK, Guarded, Submitting
<1>1. CASE Start(i)
  BY <1>1 DEF Start, Settle
<1>2. CASE AcquireRead(i)
  BY <1>2 DEF AcquireRead, Settle, AfterRefusal
<1>3. CASE AcquireCas(i)
  BY <1>3 DEF AcquireCas, Settle, AfterRefusal, AfterGrant
<1>4. CASE AcquireCasUnacknowledged(i)
  BY <1>4 DEF AcquireCasUnacknowledged, Settle, AfterRefusal
<1>5. CASE BeginPass(i)
  BY <1>5 DEF BeginPass, Settle
<1>6. CASE RenewRead(i)
  BY <1>6 DEF RenewRead, Settle
<1>7. CASE RenewCas(i)
  BY <1>7 DEF RenewCas, Settle
<1>8. CASE RenewCasUnacknowledged(i)
  BY <1>8 DEF RenewCasUnacknowledged, Settle
<1>9. CASE EndPass(i)
  BY <1>9 DEF EndPass, Settle
<1>10. CASE BeginOrder(i)
  BY <1>10 DEF BeginOrder, Settle
<1>11. CASE Fence(i)
  BY <1>11 DEF Fence, Settle
<1>12. CASE GateRefuses(i)
  BY <1>12 DEF GateRefuses, Settle
<1>13. CASE AskGuard(i)
  BY <1>13 DEF AskGuard, Settle
<1>14. CASE EnterGuard(i)
  BY <1>14 DEF EnterGuard, Settle, RowLockFree
<1>15. CASE LeaveGuard(i)
  BY <1>15 DEF LeaveGuard, Settle
<1>16. CASE Stop(i)
  BY <1>16 DEF Stop, Exit, Settle
<1>17. CASE Release(i)
  BY <1>17 DEF Release, Exit, Settle
<1>18. CASE StoreUnreachable(i)
  BY <1>18 DEF StoreUnreachable, Exit, Settle, AfterRefusal
<1>19. CASE ConnectionDies(i)
  BY <1>19 DEF ConnectionDies, Settle
<1>20. CASE Crash(i)
  BY <1>20 DEF Crash, Exit, Settle
<1>21. QED
  BY <1>1, <1>2, <1>3, <1>4, <1>5, <1>6, <1>7, <1>8, <1>9, <1>10, <1>11, <1>12, <1>13, <1>14, <1>15, <1>16, <1>17, <1>18, <1>19, <1>20 DEF Step

(***************************************************************************)
(* What is true of one process at each phase, as LeaseInv states it.        *)
(***************************************************************************)
Local(i) ==
  /\ now[i] <= clock
  /\ pc[i] \in {"pass", "fence", "gates", "guard", "submit", "renew", "renewCas",
                "release"} => held[i] # NoLease
  /\ pc[i] = "renewCas" => snap[i].holder = i /\ snap[i].epoch = held[i].epoch
  /\ pc[i] \in {"startCas", "acquireCas"} =>
       snap[i].holder = i \/ snap[i].expires <= now[i]

LEMMA LocalStep ==
  ASSUME LeaseInv, NEW i \in Instances, Step(i)
  PROVE  Local(i)'
<1> USE DEF LeaseInv, TypeOK, Local
<1>1. CASE Start(i)
  BY <1>1 DEF Start, Settle
<1>2. CASE AcquireRead(i)
  <2>1. CASE HeldByOther(i)
    BY <1>2, <2>1 DEF AcquireRead, Settle, AfterRefusal
  <2>2. CASE ~HeldByOther(i)
    <3>1. row.holder = i \/ row.expires <= now[i]
      <4>1. row.expires \in Nat /\ now[i] \in Nat
        BY LeaseConstructors
      <4>2. QED
        BY <2>2, <4>1 DEF HeldByOther, LiveAt
    <3>2. /\ snap'[i] = row
          /\ now'[i] = now[i]
          /\ pc'[i] \in {"startCas", "acquireCas"}
          /\ clock' = clock
      BY <1>2, <2>2 DEF AcquireRead
    <3>3. QED
      BY <3>1, <3>2
  <2>3. QED
    BY <2>1, <2>2
<1>3. CASE AcquireCas(i)
  <2>1. pc'[i] \in {"down", "idle", "pass"} /\ now'[i] = 0
    BY <1>3 DEF AcquireCas, Settle, AfterRefusal, AfterGrant
  <2>2. CASE Matches(i)
    <3>1. held'[i] = Granted(i, snap[i], now[i])
      BY <1>3, <2>2 DEF AcquireCas
    <3>2. held'[i] # NoLease
      BY <3>1, WrittenFields, NoLeaseFields, ConstantsAssumption
    <3>3. QED
      BY <1>3, <2>1, <3>2 DEF AcquireCas
  <2>3. CASE ~Matches(i)
    BY <1>3, <2>3 DEF AcquireCas, Settle, AfterRefusal
  <2>4. QED
    BY <2>2, <2>3
<1>4. CASE AcquireCasUnacknowledged(i)
  BY <1>4 DEF AcquireCasUnacknowledged, Settle, AfterRefusal
<1>5. CASE BeginPass(i)
  BY <1>5 DEF BeginPass, Settle
<1>6. CASE RenewRead(i)
  BY <1>6, NoLeaseFields, ConstantsAssumption DEF RenewRead, Settle, StillOurs, GuardValid
<1>7. CASE RenewCas(i)
  <2>1. pc'[i] \in {"idle", "pass"} /\ now'[i] = 0
    BY <1>7 DEF RenewCas, Settle
  <2>2. CASE Matches(i)
    <3>1. held'[i] = Renewed(snap[i], now[i])
      BY <1>7, <2>2 DEF RenewCas
    <3>2. snap[i].holder = i
      BY <1>7 DEF RenewCas
    <3>3. held'[i] # NoLease
      BY <3>1, <3>2, WrittenFields, NoLeaseFields, ConstantsAssumption
    <3>4. QED
      BY <1>7, <2>1, <3>3 DEF RenewCas
  <2>3. CASE ~Matches(i)
    BY <1>7, <2>3 DEF RenewCas, Settle
  <2>4. QED
    BY <2>2, <2>3
<1>8. CASE RenewCasUnacknowledged(i)
  BY <1>8 DEF RenewCasUnacknowledged, Settle
<1>9. CASE EndPass(i)
  BY <1>9 DEF EndPass, Settle
<1>10. CASE BeginOrder(i)
  BY <1>10 DEF BeginOrder, Settle
<1>11. CASE Fence(i)
  BY <1>11, NoLeaseFields, ConstantsAssumption DEF Fence, Settle, StillOurs, GuardValid
<1>12. CASE GateRefuses(i)
  BY <1>12 DEF GateRefuses, Settle
<1>13. CASE AskGuard(i)
  BY <1>13 DEF AskGuard, Settle
<1>14. CASE EnterGuard(i)
  BY <1>14, NoLeaseFields, ConstantsAssumption DEF EnterGuard, Settle, StillOurs, GuardValid
<1>15. CASE LeaveGuard(i)
  BY <1>15 DEF LeaveGuard, Settle
<1>16. CASE Stop(i)
  BY <1>16 DEF Stop, Exit, Settle
<1>17. CASE Release(i)
  BY <1>17 DEF Release, Exit, Settle
<1>18. CASE StoreUnreachable(i)
  BY <1>18 DEF StoreUnreachable, Exit, Settle, AfterRefusal
<1>19. CASE ConnectionDies(i)
  BY <1>19 DEF ConnectionDies, Settle
<1>20. CASE Crash(i)
  BY <1>20 DEF Crash, Exit, Settle
<1>21. QED
  BY <1>1, <1>2, <1>3, <1>4, <1>5, <1>6, <1>7, <1>8, <1>9, <1>10, <1>11, <1>12, <1>13, <1>14, <1>15, <1>16, <1>17, <1>18, <1>19, <1>20 DEF Step

(***************************************************************************)
(* While somebody is guarded nobody moves the row: the row of a guarded     *)
(* process is still its own after any step.                                 *)
(***************************************************************************)
LEMMA HolderStep ==
  ASSUME LeaseInv, NEW i \in Instances, Step(i), NEW j \in Instances, Guarded(j)'
  PROVE  row'.holder = j /\ row'.epoch = held'[j].epoch
<1> USE ConstantsAssumption
<1>t. TypeOK
  BY DEF LeaseInv
<1>1. CASE Guarded(j)
  <2>1. guard = j /\ row.holder = j /\ row.epoch = held[j].epoch
    BY <1>1 DEF LeaseInv, GuardedIsHolder
  <2>2. row' = row
    BY <1>t, <2>1, RowMoves DEF Grants, Extends
  <2>3. CASE i # j
    BY <1>t, <2>1, <2>2, <2>3, OthersKeepTheirs
  <2>4. CASE i = j
    <3>1. pc[i] = "submit"
      BY <1>1, <2>4 DEF Guarded, Submitting
    <3>2. ConnectionDies(i) \/ LeaveGuard(i) \/ Crash(i)
      BY <3>1 DEF Step, Start, AcquireRead, AcquireCas, AcquireCasUnacknowledged, BeginPass,
           RenewRead, RenewCas, RenewCasUnacknowledged, EndPass, BeginOrder, Fence,
           GateRefuses, AskGuard, EnterGuard, Stop, Release, StoreUnreachable
    <3>3. ~Guarded(j)'
      BY <1>t, <2>4, <3>2 DEF ConnectionDies, LeaveGuard, Crash, Exit, Settle, Guarded,
           Submitting, TypeOK
    <3>4. QED
      BY <3>3
  <2>5. QED
    BY <2>3, <2>4
<1>2. CASE ~Guarded(j)
  <2>1. i = j
    BY <1>t, <1>2, OthersKeepTheirs DEF Guarded, Submitting
  <2>2. EnterGuard(i)
    <3>1. pc[i] # "submit" \/ conn[i] # "up"
      BY <1>2, <2>1 DEF Guarded, Submitting
    <3>2. pc'[i] = "submit" /\ conn'[i] = "up"
      BY <2>1 DEF Guarded, Submitting
    <3>3. QED
      BY <1>t, <3>1, <3>2 DEF TypeOK, Step, Start, AcquireRead, AcquireCas,
           AcquireCasUnacknowledged, BeginPass, RenewRead, RenewCas, RenewCasUnacknowledged,
           EndPass, BeginOrder, Fence, GateRefuses, AskGuard, LeaveGuard, Stop, Release,
           StoreUnreachable, ConnectionDies, Crash, Exit, Settle, AfterRefusal, AfterGrant
  <2>3. GuardValid(i) /\ held'[i] = row /\ row' = row
    BY <1>t, <2>1, <2>2 DEF EnterGuard, Settle, Guarded, Submitting, TypeOK
  <2>4. QED
    BY <2>1, <2>3 DEF GuardValid, StillOurs
<1>3. QED
  BY <1>1, <1>2

(***************************************************************************)
(* What one process believes about its epoch, against the row.              *)
(***************************************************************************)
Believer(i) ==
  held[i] # NoLease =>
    /\ held[i].holder = i
    /\ held[i].epoch <= row.epoch
    /\ held[i].epoch = row.epoch => row.holder = i

\* Two processes that believe in the same epoch are one.
Agree(i, j) ==
  held[i] # NoLease /\ held[j] # NoLease /\ held[i].epoch = held[j].epoch => i = j

LEMMA EpochParts ==
  EpochIdentifiesHolder <=> /\ \A i \in Instances : Believer(i)
                            /\ \A i, j \in Instances : Agree(i, j)
BY DEF EpochIdentifiesHolder, Believer, Agree

\* The epoch of the row never falls, and keeps its holder while it stands.
LEMMA EpochsRise ==
  ASSUME TypeOK, NEW i \in Instances, Step(i)
  PROVE  /\ row.epoch \in Nat
         /\ \/ row'.epoch = row.epoch /\ row'.holder = row.holder
            \/ row'.epoch = row.epoch + 1 /\ row'.holder = i
<1>1. row.epoch \in Nat
  BY LeaseConstructors DEF TypeOK
<1>2. QED
  BY <1>1, RowMoves DEF Grants, Extends

LEMMA BelieverStep ==
  ASSUME LeaseInv, NEW i \in Instances, Step(i), NEW j \in Instances
  PROVE  Believer(j)'
<1>1. TypeOK /\ Believer(j)
  BY EpochParts DEF LeaseInv
<1>2. /\ row.epoch \in Nat
      /\ held[j].epoch \in Nat
      /\ \/ row'.epoch = row.epoch /\ row'.holder = row.holder
         \/ row'.epoch = row.epoch + 1 /\ row'.holder = i
  BY <1>1, EpochsRise, LeaseConstructors DEF TypeOK
<1>3. CASE held'[j] = held[j]
  BY <1>1, <1>2, <1>3 DEF Believer
<1>4. CASE held'[j] # held[j]
  <2>1. i = j
    BY <1>1, <1>4, OthersKeepTheirs
  <2>2. held'[j] = NoLease \/ (held'[j] = row' /\ row'.holder = j)
    BY <1>4, <2>1, HeldMoves DEF Believes
  <2>3. row'.epoch \in Nat
    BY <1>2
  <2>4. QED
    BY <2>2, <2>3 DEF Believer
<1>5. QED
  BY <1>3, <1>4

(***************************************************************************)
(* When one process takes over the row in its memory, no other process      *)
(* believes in that epoch: either the epoch is new, or the row was the      *)
(* process's own.                                                           *)
(***************************************************************************)
LEMMA AgreeWithOther ==
  ASSUME LeaseInv, NEW i \in Instances, Step(i), NEW j \in Instances, i # j
  PROVE  Agree(i, j)' /\ Agree(j, i)'
<1>1. TypeOK /\ Believer(j) /\ Agree(i, j)
  BY EpochParts DEF LeaseInv
<1>2. held'[j] = held[j]
  BY <1>1, OthersKeepTheirs
<1>3. row.epoch \in Nat /\ held[i].epoch \in Nat /\ held[j].epoch \in Nat
  BY <1>1, LeaseConstructors DEF TypeOK
<1>4. CASE held'[i] = held[i]
  BY <1>1, <1>2, <1>4 DEF Agree
<1>5. CASE held'[i] = NoLease
  BY <1>2, <1>5 DEF Agree
<1>6. CASE Believes(i)
  <2>1. SUFFICES ASSUME held'[i] # NoLease, held[j] # NoLease, held'[i].epoch = held[j].epoch
                 PROVE  FALSE
    BY <1>2 DEF Agree
  <2>2. CASE Grants(i)
    BY <1>1, <1>3, <1>6, <2>1, <2>2 DEF Believes, Grants, Believer
  <2>3. CASE held[i] # NoLease /\ row'.epoch = held[i].epoch
    BY <1>1, <1>6, <2>1, <2>3 DEF Believes, Agree
  <2>4. QED
    BY <1>6, <2>2, <2>3 DEF Believes
<1>7. QED
  BY <1>4, <1>5, <1>6, HeldMoves

LEMMA AgreeStep ==
  ASSUME LeaseInv, NEW i \in Instances, Step(i), NEW j \in Instances, NEW k \in Instances
  PROVE  Agree(j, k)'
<1>1. TypeOK /\ Agree(j, k)
  BY EpochParts DEF LeaseInv
<1>2. CASE j = k
  BY <1>2 DEF Agree
<1>3. CASE i = j /\ j # k
  BY <1>3, AgreeWithOther
<1>4. CASE i = k /\ j # k
  BY <1>4, AgreeWithOther
<1>5. CASE i # j /\ i # k
  <2>1. held'[j] = held[j] /\ held'[k] = held[k]
    BY <1>1, <1>5, OthersKeepTheirs
  <2>2. QED
    BY <1>1, <2>1 DEF Agree
<1>6. QED
  BY <1>2, <1>3, <1>4, <1>5

LEMMA LeaseInvParts ==
  LeaseInv <=> /\ TypeOK
               /\ \A i \in Instances : Guarded(i) <=> guard = i
               /\ \A i \in Instances :
                    Guarded(i) => row.holder = i /\ row.epoch = held[i].epoch
               /\ \A i \in Instances : Believer(i)
               /\ \A i, j \in Instances : Agree(i, j)
               /\ \A i \in Instances : Local(i)
BY EpochParts DEF LeaseInv, GuardedIsHolder, Local

LEMMA LeaseInvNext ==
  ASSUME TypeOK',
         \A i \in Instances : Guarded(i)' <=> guard' = i,
         \A i \in Instances :
           Guarded(i)' => row'.holder = i /\ row'.epoch = held'[i].epoch,
         \A i \in Instances : Believer(i)',
         \A i, j \in Instances : Agree(i, j)',
         \A i \in Instances : Local(i)'
  PROVE  LeaseInv'
<1>1. EpochIdentifiesHolder'
  BY DEF EpochIdentifiesHolder, Believer, Agree
<1>2. GuardedIsHolder'
  BY DEF GuardedIsHolder
<1>3. QED
  BY <1>1, <1>2 DEF LeaseInv, Local

LEMMA InvStep == LeaseInv /\ [Next]_vars => LeaseInv'
<1> SUFFICES ASSUME LeaseInv, [Next]_vars PROVE LeaseInv'
  OBVIOUS
<1>t. TypeOK /\ TypeOK'
  BY TypeStep DEF LeaseInv
<1>1. CASE Tick
  <2>1. clock \in Nat /\ clock' = clock + 1 /\ now \in [Instances -> Nat]
    BY <1>t, <1>1 DEF Tick, TypeOK
  <2>2. \A i \in Instances : Local(i)'
    BY <1>1, <2>1, LeaseInvParts DEF Tick, Local
  <2>3. UNCHANGED <<row, guard, pc, held, now, snap, conn>>
    BY <1>1 DEF Tick
  <2>4. /\ \A i \in Instances : Guarded(i)' <=> guard' = i
        /\ \A i \in Instances :
             Guarded(i)' => row'.holder = i /\ row'.epoch = held'[i].epoch
    BY <2>3, LeaseInvParts DEF Guarded, Submitting
  <2>5. /\ \A i \in Instances : Believer(i)'
        /\ \A i, j \in Instances : Agree(i, j)'
    BY <2>3, LeaseInvParts DEF Believer, Agree
  <2>6. QED
    BY <1>t, <2>2, <2>4, <2>5, LeaseInvNext
<1>2. ASSUME NEW i \in Instances, Step(i) PROVE LeaseInv'
  <2>1. \A j \in Instances : Guarded(j)' <=> guard' = j
    <3>1. ASSUME NEW j \in Instances PROVE Guarded(j)' <=> guard' = j
      <4>1. CASE i = j
        BY <1>2, <4>1, GuardStep
      <4>2. CASE i # j
        <5>1. Guarded(j) <=> guard = j
          BY LeaseInvParts
        <5>2. Guarded(j)' <=> Guarded(j)
          BY <1>t, <1>2, <4>2, OthersKeepTheirs DEF Guarded, Submitting
        <5>3. QED
          BY <1>2, <4>2, <5>1, <5>2, GuardStep
      <4>3. QED
        BY <4>1, <4>2
    <3>2. QED
      BY <3>1
  <2>2. \A j \in Instances :
          Guarded(j)' => row'.holder = j /\ row'.epoch = held'[j].epoch
    BY <1>2, HolderStep
  <2>3. \A j \in Instances : Believer(j)'
    BY <1>2, BelieverStep
  <2>4. \A j, k \in Instances : Agree(j, k)'
    BY <1>2, AgreeStep
  <2>5. ASSUME NEW j \in Instances PROVE Local(j)'
    <3>1. CASE i = j
      BY <1>2, <3>1, LocalStep
    <3>2. CASE i # j
      <4>1. Local(j) /\ clock' = clock
        BY <1>2, LeaseInvParts DEF Step, Start, AcquireRead, AcquireCas,
           AcquireCasUnacknowledged, BeginPass, RenewRead, RenewCas, RenewCasUnacknowledged,
           EndPass, BeginOrder, Fence, GateRefuses, AskGuard, EnterGuard, LeaveGuard, Stop,
           Release, StoreUnreachable, ConnectionDies, Crash
      <4>2. /\ pc'[j] = pc[j]
            /\ held'[j] = held[j]
            /\ now'[j] = now[j]
            /\ snap'[j] = snap[j]
        BY <1>t, <1>2, <3>2, OthersKeepTheirs
      <4>3. QED
        BY <4>1, <4>2 DEF Local
    <3>3. QED
      BY <3>1, <3>2
  <2>6. QED
    BY <1>t, <2>1, <2>2, <2>3, <2>4, <2>5, LeaseInvNext
<1>3. CASE UNCHANGED vars
  <2>1. UNCHANGED <<row, guard, pc, held, now, snap, conn, clock>>
    BY <1>3 DEF vars
  <2>2. /\ \A i \in Instances : Guarded(i)' <=> guard' = i
        /\ \A i \in Instances :
             Guarded(i)' => row'.holder = i /\ row'.epoch = held'[i].epoch
    BY <2>1, LeaseInvParts DEF Guarded, Submitting
  <2>3. /\ \A i \in Instances : Believer(i)'
        /\ \A i, j \in Instances : Agree(i, j)'
        /\ \A i \in Instances : Local(i)'
    BY <2>1, LeaseInvParts DEF Believer, Agree, Local
  <2>4. QED
    BY <1>t, <2>2, <2>3, LeaseInvNext
<1>4. QED
  BY <1>1, <1>2, <1>3 DEF Next

LEMMA InvInit == Init => LeaseInv
<1> SUFFICES ASSUME Init PROVE LeaseInv
  OBVIOUS
<1>1. TypeOK
  BY LeaseConstructors DEF Init, TypeOK, Phase
<1>2. \A i \in Instances : pc[i] = "down" /\ held[i] = NoLease /\ now[i] = 0 /\ clock = 0
  BY DEF Init
<1>3. guard = None
  BY DEF Init
<1>4. \A i \in Instances : ~Guarded(i) /\ guard # i
  BY <1>2, <1>3, ConstantsAssumption DEF Guarded, Submitting
<1>5. QED
  BY <1>1, <1>2, <1>4, LeaseInvParts DEF Believer, Agree, Local

(***************************************************************************)
(* The inductive invariant holds of every reachable state.                  *)
(***************************************************************************)
THEOREM LeaseInvariant == Spec => []LeaseInv
BY InvInit, InvStep, PTL DEF Spec

(***************************************************************************)
(* At most one guarded submission at a time, whatever fails.                *)
(***************************************************************************)
THEOREM Exclusion == Spec => []SubmissionExclusive
<1>1. LeaseInv => SubmissionExclusive
  BY DEF LeaseInv, SubmissionExclusive
<1>2. QED
  BY <1>1, LeaseInvariant, PTL

(***************************************************************************)
(* A guarded submission is the current holder's, for its whole duration.    *)
(***************************************************************************)
THEOREM GuardMeansHolder == Spec => []GuardedIsHolder
<1>1. LeaseInv => GuardedIsHolder
  BY DEF LeaseInv
<1>2. QED
  BY <1>1, LeaseInvariant, PTL

(***************************************************************************)
(* No two processes ever believe they hold the account under one epoch.     *)
(***************************************************************************)
THEOREM EpochIsIdentity == Spec => []EpochIdentifiesHolder
<1>1. LeaseInv => EpochIdentifiesHolder
  BY DEF LeaseInv
<1>2. QED
  BY <1>1, LeaseInvariant, PTL

(***************************************************************************)
(* A submission that lost its lock is recognisable as stale by its epoch.   *)
(***************************************************************************)
THEOREM OrphansAreOlder == Spec => []OrphanIsOlder
<1>1. LeaseInv => OrphanIsOlder
  <2> SUFFICES ASSUME LeaseInv, NEW i \in Instances, NEW j \in Instances,
                      Submitting(i), ~Guarded(i), Guarded(j)
               PROVE  held[i].epoch < held[j].epoch
    BY DEF OrphanIsOlder
  <2>1. /\ held[i].epoch \in Nat
        /\ held[j].epoch \in Nat
        /\ row.epoch \in Nat
    BY LeaseConstructors DEF LeaseInv, TypeOK
  <2>2. held[i] # NoLease /\ Believer(i)
    BY LeaseInvParts DEF Local, Submitting
  <2>3. row.holder = j /\ row.epoch = held[j].epoch /\ i # j
    BY LeaseInvParts
  <2>4. QED
    BY <2>1, <2>2, <2>3 DEF Believer
<1>2. QED
  BY <1>1, LeaseInvariant, PTL

(***************************************************************************)
(* A live lease is never taken over: what an acquire read still justifies   *)
(* its write, because the write lands only over that very row and the time  *)
(* it was judged at has passed.                                             *)
(***************************************************************************)
THEOREM NoEarlyTakeover == Spec => TakeoverOnlyAfterExpiry
<1>1. ASSUME LeaseInv, [Next]_vars
      PROVE  [row'.holder # row.holder => row.expires <= clock]_vars
  <2> SUFFICES ASSUME row'.holder # row.holder PROVE row.expires <= clock
    OBVIOUS
  <2>1. TypeOK
    BY <1>1 DEF LeaseInv
  <2>2. PICK i \in Instances : Step(i)
    BY <1>1 DEF Next, Tick, vars
  <2>3. Grants(i)
    BY <2>1, <2>2, RowMoves DEF Extends
  <2>4. row.holder = i \/ row.expires <= now[i]
    BY <1>1, <2>3 DEF LeaseInv, Grants
  <2>5. row.holder # i
    BY <2>3 DEF Grants
  <2>6. now[i] <= clock /\ now[i] \in Nat /\ clock \in Nat /\ row.expires \in Nat
    BY <1>1, <2>1, LeaseConstructors DEF LeaseInv, TypeOK
  <2>7. QED
    BY <2>4, <2>5, <2>6
<1>2. QED
  BY <1>1, LeaseInvariant, PTL DEF Spec, TakeoverOnlyAfterExpiry

(***************************************************************************)
(* Epochs advance one at a time and every change of holder has its own.     *)
(***************************************************************************)
THEOREM EpochsOnlyAdvance == Spec => EpochsAdvance
<1>1. ASSUME TypeOK, [Next]_vars
      PROVE  [/\ row'.epoch \in {row.epoch, row.epoch + 1}
              /\ row'.holder # row.holder => row'.epoch = row.epoch + 1]_vars
  <2>1. CASE row' = row
    BY <2>1
  <2>2. CASE row' # row
    <3>1. PICK i \in Instances : Step(i)
      BY <1>1, <2>2 DEF Next, Tick, vars
    <3>2. QED
      BY <1>1, <3>1, EpochsRise
  <2>3. QED
    BY <2>1, <2>2
<1>2. QED
  BY <1>1, LeaseTypes, PTL DEF Spec, EpochsAdvance

-----------------------------------------------------------------------------
(* The lease implements the fencing token. *)

Stray(i) == Submitting(i) /\ ~Guarded(i)

LEMMA StraysAre == Strays = {<<i, held[i].epoch>> : i \in {j \in Instances : Stray(j)}}
BY DEF Strays, Stray

LEMMA StraysNextAre == Strays' = {<<i, held'[i].epoch>> : i \in {j \in Instances : Stray(j)'}}
BY DEF Strays, Stray

LEMMA SameStrays ==
  ASSUME \A j \in Instances : Stray(j)' <=> Stray(j),
         \A j \in Instances : Stray(j) => held'[j] = held[j]
  PROVE  Strays' = Strays
BY StraysAre, StraysNextAre

(***************************************************************************)
(* How one step of a process shows in the strays.                           *)
(***************************************************************************)
LEMMA StraysMove ==
  ASSUME TypeOK, NEW i \in Instances, Step(i)
  PROVE  /\ ~Stray(i) /\ ~Stray(i)' => Strays' = Strays
         /\ Stray(i) /\ ~Stray(i)' => Strays' = Strays \ {<<i, held[i].epoch>>}
         /\ ~Stray(i) /\ Stray(i)' => Strays' = Strays \cup {<<i, held'[i].epoch>>}
<1>1. \A j \in Instances : i # j => (Stray(j)' <=> Stray(j)) /\ held'[j] = held[j]
  BY OthersKeepTheirs DEF Stray, Submitting, Guarded
<1>2. ASSUME ~Stray(i), ~Stray(i)' PROVE Strays' = Strays
  BY <1>1, <1>2, SameStrays
<1>3. ASSUME Stray(i), ~Stray(i)' PROVE Strays' = Strays \ {<<i, held[i].epoch>>}
  BY <1>1, <1>3, StraysAre, StraysNextAre
<1>4. ASSUME ~Stray(i), Stray(i)' PROVE Strays' = Strays \cup {<<i, held'[i].epoch>>}
  BY <1>1, <1>4, StraysAre, StraysNextAre
<1>5. QED
  BY <1>2, <1>3, <1>4

\* A step that neither starts nor ends a submission nor moves authority.
Quiet(i) ==
  /\ guard' = guard
  /\ row' = row \/ Extends(i)
  /\ ~Stray(i) /\ ~Stray(i)'

Stutter == UNCHANGED <<row.epoch, row.holder, guard, Strays>>

LEMMA QuietStutters ==
  ASSUME TypeOK, NEW i \in Instances, Step(i), Quiet(i)
  PROVE  Stutter
BY StraysMove DEF Quiet, Extends, Stutter

LEMMA SubmissionEnds ==
  ASSUME LeaseInv, NEW i \in Instances, Step(i), Submitting(i), ~Submitting(i)',
         row' = row, guard' = IF guard = i THEN None ELSE guard
  PROVE  Token!Next
<1>1. TypeOK /\ (Guarded(i) <=> guard = i)
  BY LeaseInvParts
<1>2. CASE Guarded(i)
  <2>1. Strays' = Strays
    BY <1>1, <1>2, StraysMove DEF Stray
  <2>2. Token!Finish(i)
    BY <1>1, <1>2, <2>1 DEF Token!Finish
  <2>3. QED
    BY <2>2 DEF Token!Next
<1>3. CASE ~Guarded(i)
  <2>1. Strays' = Strays \ {<<i, held[i].epoch>>} /\ Stray(i)
    BY <1>1, <1>3, StraysMove DEF Stray
  <2>2. <<i, held[i].epoch>> \in Strays
    BY <2>1, StraysAre
  <2>3. guard' = guard
    BY <1>1, <1>3
  <2>4. Token!StrayEnds(<<i, held[i].epoch>>)
    BY <2>1, <2>3 DEF Token!StrayEnds
  <2>5. QED
    BY <2>2, <2>4 DEF Token!Next
<1>4. QED
  BY <1>2, <1>3

LEMMA GrantSimulated ==
  ASSUME TypeOK, NEW i \in Instances, Step(i), Grants(i), guard' = guard,
         ~Submitting(i), ~Submitting(i)'
  PROVE  Token!Next
<1>1. Strays' = Strays
  BY StraysMove DEF Stray
<1>2. Token!Grant(i)
  BY <1>1 DEF Token!Grant, Grants
<1>3. QED
  BY <1>2 DEF Token!Next

LEMMA StepSimulated ==
  ASSUME LeaseInv, NEW i \in Instances, Step(i)
  PROVE  Token!Next \/ Stutter
<1>i. TypeOK /\ (Guarded(i) <=> guard = i)
  BY LeaseInvParts
<1>r. row' = row \/ Grants(i) \/ Extends(i)
  BY <1>i, RowMoves
<1>1. CASE Start(i) \/ BeginPass(i) \/ RenewRead(i) \/ EndPass(i) \/ BeginOrder(i)
           \/ Fence(i) \/ GateRefuses(i) \/ AskGuard(i) \/ AcquireRead(i)
  <2>1. row' = row /\ guard' = guard /\ ~Submitting(i) /\ ~Submitting(i)'
    BY <1>i, <1>1 DEF TypeOK, Start, BeginPass, RenewRead, EndPass, BeginOrder, Fence,
       GateRefuses, AskGuard, AcquireRead, Settle, AfterRefusal, Submitting
  <2>2. QED
    BY <1>i, <2>1, QuietStutters DEF Quiet, Stray
<1>2. CASE AcquireCas(i) \/ AcquireCasUnacknowledged(i) \/ RenewCas(i)
           \/ RenewCasUnacknowledged(i)
  <2>1. guard' = guard /\ ~Submitting(i) /\ ~Submitting(i)'
    BY <1>i, <1>2 DEF TypeOK, AcquireCas, AcquireCasUnacknowledged, RenewCas,
       RenewCasUnacknowledged, Settle, AfterRefusal, AfterGrant, Submitting
  <2>2. CASE Grants(i)
    BY <1>i, <2>1, <2>2, GrantSimulated
  <2>3. CASE row' = row \/ Extends(i)
    BY <1>i, <2>1, <2>3, QuietStutters DEF Quiet, Stray
  <2>4. QED
    BY <1>r, <2>2, <2>3
<1>3. CASE EnterGuard(i)
  <2>1. row' = row /\ ~Submitting(i) /\ conn[i] = "up" /\ conn'[i] = "up" /\ guard = None
    BY <1>3 DEF EnterGuard, Submitting, RowLockFree
  <2>2. Strays' = Strays /\ ~Stray(i)
    BY <1>i, <2>1, StraysMove DEF Stray, Guarded
  <2>3. CASE GuardValid(i)
    <3>1. guard' = i /\ row.holder = i
      BY <1>3, <2>3, ConstantsAssumption DEF EnterGuard, GuardValid, StillOurs
    <3>2. \A s \in Strays : s[1] # i
      BY <2>2, StraysAre
    <3>3. Token!Begin(i)
      BY <2>1, <2>2, <3>1, <3>2 DEF Token!Begin
    <3>4. QED
      BY <3>3 DEF Token!Next
  <2>4. CASE ~GuardValid(i)
    BY <1>3, <2>1, <2>2, <2>4 DEF EnterGuard, Stutter
  <2>5. QED
    BY <2>3, <2>4
<1>4. CASE LeaveGuard(i)
  <2>1. /\ Submitting(i)
        /\ ~Submitting(i)'
        /\ row' = row
        /\ guard' = IF guard = i THEN None ELSE guard
    BY <1>i, <1>4 DEF LeaveGuard, Settle, Submitting, TypeOK
  <2>2. QED
    BY <2>1, SubmissionEnds
<1>5. CASE ConnectionDies(i)
  <2>1. /\ row' = row
        /\ held' = held
        /\ Submitting(i)' <=> Submitting(i)
        /\ conn[i] = "up" /\ conn'[i] = "dead"
        /\ guard' = IF guard = i THEN None ELSE guard
    BY <1>i, <1>5 DEF ConnectionDies, Submitting, TypeOK
  <2>2. CASE Submitting(i)
    <3>1. guard = i /\ row.epoch = held[i].epoch /\ ~Stray(i) /\ Stray(i)'
      BY <2>1, <2>2, LeaseInvParts DEF Guarded, Stray
    <3>2. Strays' = Strays \cup {<<i, row.epoch>>}
      BY <1>i, <2>1, <3>1, StraysMove
    <3>3. Token!Detach(i)
      BY <2>1, <3>1, <3>2 DEF Token!Detach
    <3>4. QED
      BY <3>3 DEF Token!Next
  <2>3. CASE ~Submitting(i)
    <3>1. guard' = guard
      BY <1>i, <2>1, <2>3 DEF Guarded
    <3>2. QED
      BY <1>i, <2>1, <2>3, <3>1, QuietStutters DEF Quiet, Stray
  <2>4. QED
    BY <2>2, <2>3
<1>6. CASE Crash(i) \/ Stop(i) \/ Release(i) \/ StoreUnreachable(i)
  <2>1. /\ ~Submitting(i)'
        /\ guard' = IF guard = i THEN None ELSE guard
    <3>1. CASE Submitting(i)
      BY <1>i, <1>6, <3>1 DEF Crash, Stop, Release, StoreUnreachable, Exit, Settle,
         Submitting, TypeOK
    <3>2. CASE ~Submitting(i)
      <4>1. guard # i
        BY <1>i, <3>2 DEF Guarded
      <4>2. QED
        BY <1>i, <1>6, <3>2, <4>1 DEF Crash, Stop, Release, StoreUnreachable, Exit, Settle,
           Submitting, TypeOK, AfterRefusal
    <3>3. QED
      BY <3>1, <3>2
  <2>2. CASE Submitting(i)
    <3>1. row' = row
      BY <1>6, <2>2 DEF Crash, Stop, Release, StoreUnreachable, Submitting
    <3>2. QED
      BY <2>1, <2>2, <3>1, SubmissionEnds
  <2>3. CASE ~Submitting(i)
    <3>1. guard' = guard
      BY <1>i, <2>1, <2>3 DEF Guarded
    <3>2. ~Grants(i) \/ row' = row
      BY <1>6 DEF Crash, Stop, Release, StoreUnreachable, Grants
    <3>3. QED
      BY <1>i, <1>r, <2>1, <2>3, <3>1, <3>2, QuietStutters DEF Quiet, Stray
  <2>4. QED
    BY <2>2, <2>3
<1>7. QED
  BY <1>1, <1>2, <1>3, <1>4, <1>5, <1>6 DEF Step

(***************************************************************************)
(* The lease protocol refines the fencing token: every store operation,     *)
(* failure and restart is a grant, a submission's start or end, the loss of *)
(* an attachment, or nothing at all to a reader of epochs.                  *)
(***************************************************************************)
THEOREM LeaseRefinesToken == Spec => ImplementsToken
<1>1. Init => Token!Init
  <2> SUFFICES ASSUME Init PROVE Token!Init
    OBVIOUS
  <2>1. \A i \in Instances : ~Stray(i)
    BY DEF Init, Stray, Submitting
  <2>2. Strays = {}
    BY <2>1, StraysAre
  <2>3. QED
    BY <2>2 DEF Init, NoLease, Token!Init
<1>2. ASSUME LeaseInv, [Next]_vars PROVE [Token!Next]_Token!fvars
  <2>1. CASE \E i \in Instances : Step(i)
    BY <1>2, <2>1, StepSimulated DEF Stutter, Token!fvars
  <2>2. CASE Tick \/ UNCHANGED vars
    <3>1. UNCHANGED <<row, guard, pc, held, conn>>
      BY <2>2 DEF Tick, vars
    <3>2. Strays' = Strays
      BY <3>1 DEF Strays, Submitting, Guarded
    <3>3. QED
      BY <3>1, <3>2 DEF Token!fvars
  <2>3. QED
    BY <1>2, <2>1, <2>2 DEF Next
<1>3. QED
  BY <1>1, <1>2, LeaseInvariant, PTL DEF Spec, ImplementsToken, Token!Spec

=============================================================================
