------------------------------ MODULE WorkQueue ------------------------------
(***************************************************************************)
(* The durable work queue of app/queue.py on the leases of app/leases.py:  *)
(* every operation one serial transaction, as when all callers live in one *)
(* event loop (SwarmRuntime never awaits inside a store call).  WorkQueueTx *)
(* breaks the same operations into the statements that separate worker     *)
(* processes interleave.                                                   *)
(*                                                                         *)
(* clock abstracts utcnow(); item and lease are the tables work_items and  *)
(* worker_leases (scope "job"); hold[o][j] is the ClaimedWork (or the      *)
(* WorkItem returned by a heartbeat) that caller o is still acting on,     *)
(* attempt 0 meaning none.                                                 *)
(***************************************************************************)
EXTENDS LeaseRow, FiniteSets

CONSTANTS Jobs,        \* work item ids; numbers, so that ids are ordered
          Kinds,       \* work item kinds
          TTLs,        \* the lease times to live callers ask for
          RetryDelays, \* how far ahead fail() may set available_at
          MaxClock,    \* bound on clock
          MaxAttempt   \* bound on the attempts of one item

ASSUME WorkQueueAssumption ==
  /\ Jobs \subseteq Nat
  /\ TTLs \subseteq Nat \ {0}
  /\ RetryDelays \subseteq Nat
  /\ MaxClock \in Nat
  /\ MaxAttempt \in Nat

VARIABLES clock, item, lease, hold

vars == <<clock, item, lease, hold>>

------------------------------------------------------------------------------
(* Rows *)

ItemStatus == {"absent", "pending", "claimed", "completed", "failed"}

Terminal == {"completed", "failed"}

\* expires 0 stands for NULL: every reader treats NULL like a time in the past.
\* leased is "lease_id is not NULL"; the row it names is lease[j], which is
\* created once and never deleted.
Items == [status : ItemStatus, kind : Kinds \cup {""}, owner : Owners \cup {NoOwner},
          leased : BOOLEAN, attempt : Nat, available : Nat, expires : Nat,
          created : Nat]

NoItem == [status |-> "absent", kind |-> "", owner |-> NoOwner, leased |-> FALSE,
           attempt |-> 0, available |-> 0, expires |-> 0, created |-> 0]

Claims == [attempt : Nat, expires : Nat]

NoClaim == [attempt |-> 0, expires |-> 0]

ItemHeld(r, now) == r.status = "claimed" /\ r.expires > now

\* Faulty: whatever nobody holds is available, terminal items included.
AvailableUnlessHeld(r, now) ==
  r.status # "absent" /\ r.available <= now /\ ~ItemHeld(r, now)

ItemAvailable(r, now) ==
  \/ r.status = "pending" /\ r.available <= now
  \/ r.status = "claimed" /\ ~ItemHeld(r, now)

\* ORDER BY created_at, id
Before(j, k) ==
  \/ item[j].created < item[k].created
  \/ item[j].created = item[k].created /\ j <= k

\* What a scan of _select_row returns: the oldest available item of the kinds
\* the caller accepts.
FirstAvailable(j, kinds) ==
  LET candidates == {k \in Jobs : item[k].kind \in kinds /\ ItemAvailable(item[k], clock)}
  IN  j \in candidates /\ \A k \in candidates : Before(j, k)

\* What _select_row by id lets through: the caller's own live claim is handed
\* out again, anything terminal or held by another raises.
SelectableById(j, o) ==
  IF ItemHeld(item[j], clock) THEN item[j].owner = o ELSE ItemAvailable(item[j], clock)

\* Faulty: ownership without the expiry check.
OwnsClaimedItem(r, o, now) == r.status = "claimed" /\ r.owner = o /\ r.leased

\* The guards complete() and fail() share, up to the release of the lease.
OwnsLiveItem(r, o, now) ==
  r.status = "claimed" /\ r.owner = o /\ r.expires > now /\ r.leased

\* heartbeat() also requires the lease row itself to be live and the caller's.
OwnsLiveLease(l, o, now) == l.owner = o /\ LeaseHeld(l, now)

\* fail(..., retry_at): back to pending, with the claim columns cleared.
Rescheduled(r, at) ==
  [r EXCEPT !.status = "pending", !.owner = NoOwner, !.leased = FALSE,
            !.available = at, !.expires = 0]

\* complete() and fail() without retry_at keep owner_id and lease_id.
Resolved(r, status, now) == [r EXCEPT !.status = status, !.expires = now]

------------------------------------------------------------------------------
(* Operations *)

Init ==
  /\ clock = 0
  /\ item = [j \in Jobs |-> NoItem]
  /\ lease = [j \in Jobs |-> NoLease]
  /\ hold = [o \in Owners |-> [j \in Jobs |-> NoClaim]]

Tick ==
  /\ clock < MaxClock
  /\ clock' = clock + 1
  /\ UNCHANGED <<item, lease, hold>>

\* A second enqueue of an id raises IntegrityError and changes nothing.
Enqueue(j, kind) ==
  /\ item[j].status = "absent"
  /\ item' = [item EXCEPT ![j] = [NoItem EXCEPT !.status = "pending", !.kind = kind,
                                    !.available = clock, !.created = clock]]
  /\ UNCHANGED <<clock, lease, hold>>

\* Faulty: taking over an expired claim does not count.
AttemptFromPending(r, l, now) ==
  IF r.status = "pending" THEN r.attempt + 1 ELSE r.attempt

\* A new tenancy counts as an attempt; the owner's own live claim does not.
ClaimedAttempt(r, l, now) ==
  IF r.status = "pending" \/ LeaseReclaimed(l, now) THEN r.attempt + 1 ELSE r.attempt

\* The part of claim() after the row is selected.
Grant(o, j, ttl) ==
  LET attempt == ClaimedAttempt(item[j], lease[j], clock)
      expires == clock + ttl
  IN  /\ LeaseClaimable(lease[j], o, clock)
      /\ attempt <= MaxAttempt
      /\ lease' = [lease EXCEPT ![j] = LeaseClaimed(o, expires)]
      /\ item' = [item EXCEPT ![j] = [@ EXCEPT !.status = "claimed", !.owner = o,
                     !.leased = TRUE, !.expires = expires, !.attempt = attempt]]
      /\ hold' = [hold EXCEPT ![o][j] = [attempt |-> attempt, expires |-> expires]]
      /\ UNCHANGED clock

ClaimById(o, j, ttl) ==
  /\ SelectableById(j, o)
  /\ Grant(o, j, ttl)

\* A scan hands out an item whose claim has expired even to its former owner,
\* never a live claim.
ClaimNext(o, kinds, ttl) ==
  \E j \in Jobs : FirstAvailable(j, kinds) /\ Grant(o, j, ttl)

\* Faulty: heartbeats that leave one table, or both, as they were.
HeartbeatLeaseOnly(o, j, ttl) ==
  /\ OwnsLiveItem(item[j], o, clock)
  /\ OwnsLiveLease(lease[j], o, clock)
  /\ lease' = [lease EXCEPT ![j] = LeaseClaimed(o, clock + ttl)]
  /\ hold' = [hold EXCEPT ![o][j] = [attempt |-> item[j].attempt, expires |-> clock + ttl]]
  /\ UNCHANGED <<clock, item>>

HeartbeatItemOnly(o, j, ttl) ==
  /\ OwnsLiveItem(item[j], o, clock)
  /\ item' = [item EXCEPT ![j].expires = clock + ttl]
  /\ hold' = [hold EXCEPT ![o][j] = [attempt |-> item[j].attempt, expires |-> clock + ttl]]
  /\ UNCHANGED <<clock, lease>>

HeartbeatUnwritten(o, j, ttl) ==
  /\ OwnsLiveItem(item[j], o, clock)
  /\ OwnsLiveLease(lease[j], o, clock)
  /\ hold' = [hold EXCEPT ![o][j] = [attempt |-> item[j].attempt, expires |-> clock + ttl]]
  /\ UNCHANGED <<clock, item, lease>>

Heartbeat(o, j, ttl) ==
  /\ OwnsLiveItem(item[j], o, clock)
  /\ OwnsLiveLease(lease[j], o, clock)
  /\ lease' = [lease EXCEPT ![j] = LeaseClaimed(o, clock + ttl)]
  /\ item' = [item EXCEPT ![j].expires = clock + ttl]
  /\ hold' = [hold EXCEPT ![o][j] = [attempt |-> item[j].attempt, expires |-> clock + ttl]]
  /\ UNCHANGED clock

\* Faulty: the item is resolved and its lease left claimed.
ResolveKeepingLease(o, j, row) ==
  /\ OwnsLiveItem(item[j], o, clock)
  /\ item' = [item EXCEPT ![j] = row]
  /\ hold' = [hold EXCEPT ![o][j] = NoClaim]
  /\ UNCHANGED <<clock, lease>>

\* complete() and fail(): the item's new row, the lease released with it.
Resolve(o, j, row) ==
  /\ OwnsLiveItem(item[j], o, clock)
  /\ LeaseReleasable(lease[j], o)
  /\ lease' = [lease EXCEPT ![j] = LeaseReleased(@, clock)]
  /\ item' = [item EXCEPT ![j] = row]
  /\ hold' = [hold EXCEPT ![o][j] = NoClaim]
  /\ UNCHANGED clock

Complete(o, j) == Resolve(o, j, Resolved(item[j], "completed", clock))

Fail(o, j) == Resolve(o, j, Resolved(item[j], "failed", clock))

FailRetry(o, j, delay) == Resolve(o, j, Rescheduled(item[j], clock + delay))

\* A heartbeat, complete or fail that raises: the caller drops the claim
\* (_execute_claimed returns, the runtime turns it into a PolicyError).
Refused(o, j) ==
  /\ hold[o][j].attempt > 0
  /\ ~OwnsLiveItem(item[j], o, clock)
  /\ hold' = [hold EXCEPT ![o][j] = NoClaim]
  /\ UNCHANGED <<clock, item, lease>>

Next ==
  \/ Tick
  \/ \E j \in Jobs, kind \in Kinds : Enqueue(j, kind)
  \/ \E o \in Owners, j \in Jobs :
       \/ \E ttl \in TTLs : ClaimById(o, j, ttl) \/ Heartbeat(o, j, ttl)
       \/ Complete(o, j)
       \/ Fail(o, j)
       \/ \E delay \in RetryDelays : FailRetry(o, j, delay)
       \/ Refused(o, j)
  \/ \E o \in Owners, kinds \in SUBSET Kinds \ {{}}, ttl \in TTLs :
       ClaimNext(o, kinds, ttl)

Spec == Init /\ [][Next]_vars

------------------------------------------------------------------------------
(* Properties *)

\* Every row, every copy of a claim and the clock have their types.
TypeOK ==
  /\ clock \in 0 .. MaxClock
  /\ item \in [Jobs -> Items]
  /\ lease \in [Jobs -> LeaseRows]
  /\ hold \in [Owners -> [Jobs -> Claims]]

LiveHold(o, j) == hold[o][j].attempt > 0 /\ hold[o][j].expires > clock

\* The two tables tell one story: a claimed item names its lease, and that
\* lease is claimed by the same owner until the same time; any other item has
\* no live lease.  claim(), heartbeat(), complete() and fail() write both.
ItemLeaseAgree ==
  \A j \in Jobs :
    IF item[j].status = "claimed"
    THEN /\ item[j].leased
         /\ lease[j].status = "claimed"
         /\ lease[j].owner = item[j].owner
         /\ lease[j].expires = item[j].expires
    ELSE lease[j].status # "claimed"

\* A scan that finds an item never runs into somebody's lease: claim() with no
\* id answers with work or None, so one item cannot block those behind it.
AvailableLeaseFree ==
  \A j \in Jobs : ItemAvailable(item[j], clock) => ~LeaseHeld(lease[j], clock)

\* "A live lease blocks a second worker": no two callers hold claims on one
\* item that both believe to be running.
SingleLiveHolder ==
  \A j \in Jobs : \A o, p \in Owners : LiveHold(o, j) /\ LiveHold(p, j) => o = p

\* The other half of the promise: a caller whose copy of the claim has not run
\* out is still the owner of record, so its heartbeat, complete or fail is
\* accepted, and it speaks for the attempt it was given.
LiveHoldHonoured ==
  \A o \in Owners, j \in Jobs : LiveHold(o, j) =>
    /\ OwnsLiveItem(item[j], o, clock)
    /\ OwnsLiveLease(lease[j], o, clock)
    /\ item[j].attempt = hold[o][j].attempt

\* The attempt number fences tenancies: two callers that ever hold the same
\* item, however stale one of them is, hold different attempts of it.
AttemptsDistinct ==
  \A j \in Jobs : \A o, p \in Owners :
    o # p /\ hold[o][j].attempt > 0 => hold[o][j].attempt # hold[p][j].attempt

\* A completed or failed item is never touched again, nor is its lease: no
\* claim, report or heartbeat revives it.
TerminalStays ==
  [][\A j \in Jobs : item[j].status \in Terminal =>
       item'[j] = item[j] /\ lease'[j] = lease[j]]_vars

\* A claim ends in a report only while item and lease are both live and owned
\* by one worker, and the lease is released in that very step (complete() and
\* fail() look at the owner of the lease row, not at its expiry).
ReportReleasesLiveLease ==
  [][\A j \in Jobs : item[j].status = "claimed" /\ item'[j].status # "claimed" =>
       /\ OwnsLiveLease(lease[j], item[j].owner, clock)
       /\ ItemHeld(item[j], clock)
       /\ lease'[j].status = "released"]_vars

\* The queue implements ExclusiveJobs.
PhaseOf(r) ==
  CASE r.status = "absent" -> "none"
    [] r.status \in Terminal -> "done"
    [] ItemHeld(r, clock) -> "held"
    [] OTHER -> "open"

phases == [j \in Jobs |-> PhaseOf(item[j])]

holders == [j \in Jobs |-> IF ItemHeld(item[j], clock) THEN item[j].owner ELSE NoOwner]

Promise == INSTANCE ExclusiveJobs WITH
  Nobody <- NoOwner, phase <- phases, holder <- holders

\* Every behaviour of the queue is one the exclusive job ledger allows.
ImplementsExclusiveJobs == Promise!Spec

==============================================================================
