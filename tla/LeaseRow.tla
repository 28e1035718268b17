------------------------------ MODULE LeaseRow ------------------------------
(***************************************************************************)
(* One row of the worker_leases table (app/leases.py, app/store.py).  The  *)
(* table has at most one row per (scope, scope_id): uq_worker_lease_scope. *)
(* A scope that was never claimed has no row, status "absent".             *)
(*                                                                         *)
(* The operators are what WorkerLeases computes on a row inside a session; *)
(* the modules that own a lease table apply them.                          *)
(***************************************************************************)
EXTENDS Integers

CONSTANTS Owners,   \* worker ids: a uuid4 per worker process or runtime
          NoOwner   \* owner_id of a row that does not exist

ASSUME NoOwnerAssumption == NoOwner \notin Owners

LeaseStatus == {"absent", "claimed", "released"}

LeaseRows == [status : LeaseStatus, owner : Owners \cup {NoOwner}, expires : Nat]

NoLease == [status |-> "absent", owner |-> NoOwner, expires |-> 0]

\* The negation of WorkerLease.expired(): a claim whose expiry is still ahead.
LeaseHeld(l, now) == l.status = "claimed" /\ l.expires > now

\* claim_in_session raises LeaseConflict exactly when this is false.
LeaseClaimable(l, o, now) == LeaseHeld(l, now) => l.owner = o

\* ClaimOutcome.reclaimed: the row was still marked claimed, but had expired.
LeaseReclaimed(l, now) == l.status = "claimed" /\ ~LeaseHeld(l, now)

LeaseClaimed(o, expires) == [status |-> "claimed", owner |-> o, expires |-> expires]

\* release_in_session checks the owner and nothing else: an expired lease may
\* be released, and so may one that is released already.
LeaseReleasable(l, o) == l.status # "absent" /\ l.owner = o

\* Faulty: a release that backdates the expiry instead of setting it to now.
LeaseReleasedBackdated(l, now) ==
  [l EXCEPT !.status = "released", !.expires = now - 1]

LeaseReleased(l, now) == [l EXCEPT !.status = "released", !.expires = now]

=============================================================================
