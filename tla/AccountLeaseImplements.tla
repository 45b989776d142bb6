----------------------- MODULE AccountLeaseImplements -----------------------
(* The lease protocol implements the fencing token: the refinement mapping.  *)
EXTENDS AccountLease

\* Submissions whose process lost its store connection.
Strays == {<<i, held[i].epoch>> : i \in {j \in Instances : Submitting(j) /\ ~Guarded(j)}}

Token == INSTANCE FencingToken WITH
           epoch  <- row.epoch,
           holder <- row.holder,
           busy   <- guard,
           strays <- Strays

(***************************************************************************)
(* Every behaviour of the lease (account_lease.py as the account service    *)
(* drives it) is a behaviour of the fencing token: reads, waits, renewals   *)
(* and failures are stutters, a compare-and-set that changes the holder or  *)
(* the epoch is a grant and happens with no submission attached.            *)
(***************************************************************************)
ImplementsToken == Token!Spec

=============================================================================
