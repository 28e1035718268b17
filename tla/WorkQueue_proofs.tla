-------------------------- MODULE WorkQueue_proofs --------------------------
(***************************************************************************)
(* Proofs about WorkQueue, for any number of owners, jobs and kinds, any   *)
(* lease times and any bounds.                                             *)
(***************************************************************************)
EXTENDS WorkQueueTx, TLAPS

(***************************************************************************)
(* Every variable keeps its type.                                          *)
(***************************************************************************)
\* The rows of a fresh table, and of an item just enqueued, are well typed.
LEMMA EmptyRowTypes ==
  /\ NoLease \in LeaseRows
  /\ NoClaim \in Claims
  /\ \A kind \in Kinds \cup {""}, s \in ItemStatus, now \in Nat :
       [NoItem EXCEPT !.status = s, !.kind = kind, !.available = now, !.created = now] \in Items
  /\ NoItem \in Items
<1>1. NoLease \in LeaseRows /\ NoClaim \in Claims
  BY DEF NoLease, LeaseRows, LeaseStatus, NoClaim, Claims
<1>2. NoItem \in Items
  BY DEF NoItem, Items, ItemStatus
<1>3. \A kind \in Kinds \cup {""}, s \in ItemStatus, now \in Nat :
        [NoItem EXCEPT !.status = s, !.kind = kind, !.available = now, !.created = now] \in Items
  BY DEF NoItem, Items
<1> QED BY <1>1, <1>2, <1>3

\* Every row an operation computes from well-typed rows is well typed.
LEMMA RowTypes ==
  ASSUME NEW l \in LeaseRows, NEW r \in Items, NEW o \in Owners, NEW now \in Nat, NEW at \in Nat
  PROVE  /\ LeaseClaimed(o, at) \in LeaseRows
         /\ LeaseReleased(l, now) \in LeaseRows
         /\ Rescheduled(r, at) \in Items
         /\ \A s \in ItemStatus : Resolved(r, s, now) \in Items
         /\ ClaimedAttempt(r, l, now) \in Nat
<1>1. LeaseClaimed(o, at) \in LeaseRows
  BY DEF LeaseClaimed, LeaseRows, LeaseStatus
<1>2. LeaseReleased(l, now) \in LeaseRows
  BY DEF LeaseReleased, LeaseRows, LeaseStatus
<1>3. Rescheduled(r, at) \in Items
  BY DEF Rescheduled, Items, ItemStatus
<1>4. \A s \in ItemStatus : Resolved(r, s, now) \in Items
  BY DEF Resolved, Items
<1>5. ClaimedAttempt(r, l, now) \in Nat
  <2>1. r.attempt \in Nat
    BY DEF Items
  <2>2. ClaimedAttempt(r, l, now) \in {r.attempt, r.attempt + 1}
    BY ZenonT(20) DEF ClaimedAttempt
  <2> QED BY <2>1, <2>2
<1> QED BY <1>1, <1>2, <1>3, <1>4, <1>5

\* The types of the fields a step reads, from TypeOK.
LEMMA FieldTypes ==
  ASSUME TypeOK, NEW o \in Owners, NEW j \in Jobs
  PROVE  /\ clock \in Nat
         /\ item[j] \in Items
         /\ item[j].attempt \in Nat /\ item[j].expires \in Nat
         /\ lease[j] \in LeaseRows
         /\ hold[o][j].attempt \in Nat /\ hold[o][j].expires \in Nat
<1>1. clock \in Nat
  BY WorkQueueAssumption DEF TypeOK
<1>2. item[j] \in Items
  BY DEF TypeOK
<1>3. item[j].attempt \in Nat /\ item[j].expires \in Nat
  BY <1>2 DEF Items
<1>4. lease[j] \in LeaseRows
  BY DEF TypeOK
<1>5. hold[o][j] \in Claims
  BY DEF TypeOK
<1>6. hold[o][j].attempt \in Nat /\ hold[o][j].expires \in Nat
  BY <1>5 DEF Claims
<1> QED BY <1>1, <1>2, <1>3, <1>4, <1>6

\* claim() writes well-typed rows.
LEMMA GrantType ==
  ASSUME TypeOK, NEW o \in Owners, NEW j \in Jobs, NEW ttl \in TTLs, Grant(o, j, ttl)
  PROVE  TypeOK'
<1>1. /\ clock \in Nat /\ ttl \in Nat /\ clock + ttl \in Nat
      /\ item[j] \in Items /\ lease[j] \in LeaseRows
  BY WorkQueueAssumption DEF TypeOK
<1>2. /\ LeaseClaimed(o, clock + ttl) \in LeaseRows
      /\ ClaimedAttempt(item[j], lease[j], clock) \in Nat
  BY <1>1, RowTypes
<1> QED BY <1>1, <1>2 DEF Grant, TypeOK, Items, ItemStatus, Claims

\* complete() and fail() write well-typed rows.
LEMMA ResolveType ==
  ASSUME TypeOK, NEW o \in Owners, NEW j \in Jobs, NEW row \in Items, Resolve(o, j, row)
  PROVE  TypeOK'
<1>1. clock \in Nat /\ lease[j] \in LeaseRows
  BY WorkQueueAssumption DEF TypeOK
<1>2. LeaseReleased(lease[j], clock) \in LeaseRows
  BY <1>1 DEF LeaseReleased, LeaseRows, LeaseStatus
<1> QED BY <1>2 DEF Resolve, TypeOK, Claims, NoClaim

\* No operation leaves the types.
LEMMA TypeStep == TypeOK /\ [Next]_vars => TypeOK'
<1> SUFFICES ASSUME TypeOK, [Next]_vars PROVE TypeOK'
  OBVIOUS
<1>1. CASE Tick
  BY <1>1, WorkQueueAssumption DEF Tick, TypeOK
<1>2. ASSUME NEW j \in Jobs, NEW kind \in Kinds, Enqueue(j, kind) PROVE TypeOK'
  <2>1. clock \in Nat /\ "pending" \in ItemStatus
    BY WorkQueueAssumption DEF TypeOK, ItemStatus
  <2> QED BY <1>2, <2>1, EmptyRowTypes DEF Enqueue, TypeOK
<1>3. ASSUME NEW o \in Owners, NEW j \in Jobs, NEW ttl \in TTLs, ClaimById(o, j, ttl)
      PROVE  TypeOK'
  BY <1>3, GrantType DEF ClaimById
<1>4. ASSUME NEW o \in Owners, NEW kinds \in SUBSET Kinds, NEW ttl \in TTLs,
             ClaimNext(o, kinds, ttl)
      PROVE  TypeOK'
  BY <1>4, GrantType DEF ClaimNext
<1>5. ASSUME NEW o \in Owners, NEW j \in Jobs, NEW ttl \in TTLs, Heartbeat(o, j, ttl)
      PROVE  TypeOK'
  <2>1. clock \in Nat /\ clock + ttl \in Nat /\ item[j] \in Items
    BY WorkQueueAssumption DEF TypeOK
  <2>2. LeaseClaimed(o, clock + ttl) \in LeaseRows
    BY <2>1 DEF LeaseClaimed, LeaseRows, LeaseStatus
  <2> QED BY <1>5, <2>1, <2>2 DEF Heartbeat, TypeOK, Items, Claims
<1>6. ASSUME NEW o \in Owners, NEW j \in Jobs,
             Complete(o, j) \/ Fail(o, j) \/ \E delay \in RetryDelays : FailRetry(o, j, delay)
      PROVE  TypeOK'
  <2>1. clock \in Nat /\ item[j] \in Items /\ \A delay \in RetryDelays : clock + delay \in Nat
    BY WorkQueueAssumption DEF TypeOK
  <2>2. /\ Resolved(item[j], "completed", clock) \in Items
        /\ Resolved(item[j], "failed", clock) \in Items
        /\ \A delay \in RetryDelays : Rescheduled(item[j], clock + delay) \in Items
    BY <2>1 DEF Resolved, Rescheduled, Items, ItemStatus
  <2> QED BY <1>6, <2>2, ResolveType DEF Complete, Fail, FailRetry
<1>7. ASSUME NEW o \in Owners, NEW j \in Jobs, Refused(o, j) PROVE TypeOK'
  BY <1>7 DEF Refused, TypeOK, Claims, NoClaim
<1>8. CASE UNCHANGED vars
  BY <1>8 DEF vars, TypeOK
<1> QED BY <1>1, <1>2, <1>3, <1>4, <1>5, <1>6, <1>7, <1>8 DEF Next

\* The empty queue is well typed.
LEMMA TypeInit == Init => TypeOK
<1> SUFFICES ASSUME Init PROVE TypeOK
  OBVIOUS
<1>1. clock \in 0 .. MaxClock
  BY WorkQueueAssumption DEF Init
<1>2. item \in [Jobs -> Items] /\ lease \in [Jobs -> LeaseRows]
  BY EmptyRowTypes DEF Init
<1>3. hold \in [Owners -> [Jobs -> Claims]]
  BY EmptyRowTypes DEF Init
<1> QED BY <1>1, <1>2, <1>3 DEF TypeOK

\* Type correctness of the queue, its leases and its callers' claims.
THEOREM TypeCorrect == Spec => []TypeOK
BY TypeInit, TypeStep, PTL DEF Spec

-----------------------------------------------------------------------------
(***************************************************************************)
(* The inductive invariant.  AttemptsDistinct is kept by a step only if no *)
(* caller's attempt is ahead of the item's, and if the one whose attempt is *)
(* the item's is its owner; a live copy of a claim must agree with the row, *)
(* or the exclusion of the row would say nothing about its callers.        *)
(***************************************************************************)
HoldsBehindItem ==
  \A o \in Owners, j \in Jobs : hold[o][j].attempt > 0 =>
    /\ hold[o][j].attempt <= item[j].attempt
    /\ hold[o][j].attempt = item[j].attempt => item[j].status = "claimed" /\ item[j].owner = o

LiveHoldCurrent ==
  \A o \in Owners, j \in Jobs : LiveHold(o, j) =>
    hold[o][j].attempt = item[j].attempt /\ hold[o][j].expires = item[j].expires

AbsentUntouched ==
  \A j \in Jobs : item[j].status = "absent" => item[j].attempt = 0

QueueInvariant ==
  /\ TypeOK
  /\ ItemLeaseAgree
  /\ AttemptsDistinct
  /\ HoldsBehindItem
  /\ LiveHoldCurrent
  /\ AbsentUntouched

\* A caller that is handed an item: nobody else has a live copy of a claim on
\* it, and every other copy is of an earlier attempt.
LEMMA GrantExcludesOthers ==
  ASSUME QueueInvariant, NEW o \in Owners, NEW j \in Jobs,
         item[j].status \in {"pending", "claimed"},
         ItemHeld(item[j], clock) => item[j].owner = o,
         LeaseClaimable(lease[j], o, clock),
         NEW p \in Owners, p # o, hold[p][j].attempt > 0
  PROVE  /\ ~LiveHold(p, j)
         /\ hold[p][j].attempt < ClaimedAttempt(item[j], lease[j], clock)
<1> DEFINE attempt == ClaimedAttempt(item[j], lease[j], clock)
<1>1. /\ clock \in Nat /\ item[j].attempt \in Nat /\ hold[p][j].attempt \in Nat
      /\ item[j].expires \in Nat
  BY FieldTypes DEF QueueInvariant
<1>2. hold[p][j].attempt = item[j].attempt => item[j].status = "claimed" /\ item[j].owner = p
  BY DEF QueueInvariant, HoldsBehindItem
<1>3. ~LiveHold(p, j)
  <2> SUFFICES ASSUME LiveHold(p, j) PROVE FALSE
    OBVIOUS
  <2>1. hold[p][j].attempt = item[j].attempt /\ item[j].expires > clock
    BY DEF QueueInvariant, LiveHoldCurrent, LiveHold
  <2> QED BY <1>2, <2>1 DEF ItemHeld
<1>4. CASE item[j].status = "pending" \/ LeaseReclaimed(lease[j], clock)
  <2>1. attempt = item[j].attempt + 1
    BY <1>4 DEF ClaimedAttempt
  <2>2. hold[p][j].attempt <= item[j].attempt
    BY DEF QueueInvariant, HoldsBehindItem
  <2> QED BY <1>1, <1>3, <2>1, <2>2
<1>5. CASE ~(item[j].status = "pending" \/ LeaseReclaimed(lease[j], clock))
  <2>1. attempt = item[j].attempt
    BY <1>5 DEF ClaimedAttempt
  <2>2. item[j].status = "claimed" /\ lease[j].status = "claimed" /\ lease[j].owner = item[j].owner
    BY <1>5 DEF QueueInvariant, ItemLeaseAgree
  <2>3. lease[j].owner = o
    BY <1>5, <2>2 DEF LeaseReclaimed, LeaseClaimable
  <2>4. hold[p][j].attempt # item[j].attempt
    BY <1>2, <2>2, <2>3
  <2>5. hold[p][j].attempt <= item[j].attempt
    BY DEF QueueInvariant, HoldsBehindItem
  <2> QED BY <1>1, <1>3, <2>1, <2>4, <2>5
<1> QED BY <1>4, <1>5

\* claim() preserves the invariant.
LEMMA GrantStep ==
  ASSUME QueueInvariant, NEW o \in Owners, NEW j \in Jobs, NEW ttl \in TTLs,
         item[j].status \in {"pending", "claimed"},
         ItemHeld(item[j], clock) => item[j].owner = o,
         Grant(o, j, ttl)
  PROVE  QueueInvariant'
<1> DEFINE attempt == ClaimedAttempt(item[j], lease[j], clock)
           expires == clock + ttl
           row == [item[j] EXCEPT !.status = "claimed", !.owner = o, !.leased = TRUE,
                                  !.expires = expires, !.attempt = attempt]
<1>1. TypeOK /\ TypeOK'
  BY GrantType DEF QueueInvariant
<1>2. /\ clock \in Nat /\ ttl \in Nat \ {0} /\ expires \in Nat /\ expires > clock
      /\ item[j] \in Items /\ item[j].attempt \in Nat
      /\ attempt \in {item[j].attempt, item[j].attempt + 1}
  <2>1. clock \in Nat /\ item[j] \in Items /\ item[j].attempt \in Nat
    BY <1>1, FieldTypes
  <2>2. ttl \in Nat \ {0}
    BY WorkQueueAssumption
  <2>3. expires \in Nat /\ expires > clock
    BY <2>1, <2>2
  <2>4. attempt \in {item[j].attempt, item[j].attempt + 1}
    BY ZenonT(20) DEF ClaimedAttempt
  <2> QED BY <2>1, <2>2, <2>3, <2>4
<1>3. /\ lease' = [lease EXCEPT ![j] = LeaseClaimed(o, expires)]
      /\ item' = [item EXCEPT ![j] = row]
      /\ hold' = [hold EXCEPT ![o][j] = [attempt |-> attempt, expires |-> expires]]
      /\ clock' = clock
      /\ LeaseClaimable(lease[j], o, clock)
  BY DEF Grant
<1>4. /\ item'[j].status = "claimed" /\ item'[j].owner = o /\ item'[j].leased
      /\ item'[j].expires = expires /\ item'[j].attempt = attempt
      /\ \A k \in Jobs : k # j => item'[k] = item[k]
  BY <1>1, <1>2, <1>3 DEF TypeOK, Items
<1>5. /\ lease'[j].status = "claimed" /\ lease'[j].owner = o /\ lease'[j].expires = expires
      /\ \A k \in Jobs : k # j => lease'[k] = lease[k]
  BY <1>1, <1>3 DEF TypeOK, LeaseClaimed
<1>6. /\ hold'[o][j].attempt = attempt /\ hold'[o][j].expires = expires
      /\ \A p \in Owners, k \in Jobs : (p # o \/ k # j) => hold'[p][k] = hold[p][k]
  BY <1>1, <1>3 DEF TypeOK, Claims
<1>7. \A p \in Owners : p # o /\ hold[p][j].attempt > 0 =>
        ~LiveHold(p, j) /\ hold[p][j].attempt < attempt
  BY <1>3, GrantExcludesOthers
<1>8. \A p \in Owners, k \in Jobs : hold[p][k].attempt \in Nat /\ hold[p][k].expires \in Nat
  BY <1>1, FieldTypes
<1>9. ItemLeaseAgree'
  BY <1>4, <1>5 DEF QueueInvariant, ItemLeaseAgree
<1>10. AttemptsDistinct'
  <2> SUFFICES ASSUME NEW k \in Jobs, NEW p \in Owners, NEW q \in Owners,
                      p # q, hold'[p][k].attempt > 0
               PROVE  hold'[p][k].attempt # hold'[q][k].attempt
    BY DEF AttemptsDistinct
  <2>1. CASE k = j /\ p = o
    BY <1>2, <1>6, <1>7, <1>8, <2>1
  <2>2. CASE k = j /\ q = o
    BY <1>2, <1>6, <1>7, <1>8, <2>2
  <2>3. CASE k # j \/ (p # o /\ q # o)
    BY <1>6, <2>3 DEF QueueInvariant, AttemptsDistinct
  <2> QED BY <2>1, <2>2, <2>3
<1>11. HoldsBehindItem'
  <2> SUFFICES ASSUME NEW p \in Owners, NEW k \in Jobs, hold'[p][k].attempt > 0
               PROVE  /\ hold'[p][k].attempt <= item'[k].attempt
                      /\ hold'[p][k].attempt = item'[k].attempt =>
                           item'[k].status = "claimed" /\ item'[k].owner = p
    BY DEF HoldsBehindItem
  <2>1. CASE k = j /\ p = o
    BY <1>2, <1>4, <1>6, <2>1
  <2>2. CASE k = j /\ p # o
    BY <1>2, <1>4, <1>6, <1>7, <1>8, <2>2
  <2>3. CASE k # j
    BY <1>4, <1>6, <2>3 DEF QueueInvariant, HoldsBehindItem
  <2> QED BY <2>1, <2>2, <2>3
<1>12. LiveHoldCurrent'
  <2> SUFFICES ASSUME NEW p \in Owners, NEW k \in Jobs, LiveHold(p, k)'
               PROVE  /\ hold'[p][k].attempt = item'[k].attempt
                      /\ hold'[p][k].expires = item'[k].expires
    BY DEF LiveHoldCurrent
  <2>1. CASE k = j /\ p = o
    BY <1>4, <1>6, <2>1
  <2>2. CASE k = j /\ p # o
    BY <1>3, <1>6, <1>7, <2>2 DEF LiveHold
  <2>3. CASE k # j
    BY <1>3, <1>4, <1>6, <2>3 DEF QueueInvariant, LiveHoldCurrent, LiveHold
  <2> QED BY <2>1, <2>2, <2>3
<1>13. AbsentUntouched'
  BY <1>4 DEF QueueInvariant, AbsentUntouched
<1> QED BY <1>1, <1>9, <1>10, <1>11, <1>12, <1>13 DEF QueueInvariant

\* A claim that ends leaves no copy of the current attempt behind, so the next
\* tenant's copy is the newest.
LEMMA ResolveStep ==
  ASSUME QueueInvariant, NEW o \in Owners, NEW j \in Jobs, NEW row \in Items,
         row.status \in {"pending", "completed", "failed"}, row.attempt = item[j].attempt,
         Resolve(o, j, row)
  PROVE  QueueInvariant'
<1>1. TypeOK /\ TypeOK'
  BY ResolveType DEF QueueInvariant
<1>2. item[j].status = "claimed" /\ item[j].owner = o
  BY DEF Resolve, OwnsLiveItem
<1>3. item'[j] = row /\ \A k \in Jobs : k # j => item'[k] = item[k]
  BY <1>1 DEF Resolve, TypeOK
<1>4. lease'[j].status = "released" /\ \A k \in Jobs : k # j => lease'[k] = lease[k]
  <2>1. lease'[j] = LeaseReleased(lease[j], clock) /\ \A k \in Jobs : k # j => lease'[k] = lease[k]
    BY <1>1 DEF Resolve, TypeOK
  <2>2. lease[j] \in LeaseRows
    BY <1>1 DEF TypeOK
  <2> QED BY <2>1, <2>2 DEF LeaseReleased, LeaseRows
<1>5. /\ hold'[o][j].attempt = 0
      /\ \A p \in Owners, k \in Jobs : (p # o \/ k # j) => hold'[p][k] = hold[p][k]
      /\ clock' = clock
  BY <1>1 DEF Resolve, TypeOK, NoClaim
<1>6. \A p \in Owners : p # o /\ hold[p][j].attempt > 0 => hold[p][j].attempt # item[j].attempt
  BY <1>2 DEF QueueInvariant, HoldsBehindItem
<1>7. \A p \in Owners : p # o => ~LiveHold(p, j)
  BY <1>6 DEF QueueInvariant, LiveHoldCurrent, LiveHold
<1>8. ItemLeaseAgree'
  BY <1>3, <1>4 DEF QueueInvariant, ItemLeaseAgree
<1>9. AttemptsDistinct'
  <2> SUFFICES ASSUME NEW k \in Jobs, NEW p \in Owners, NEW q \in Owners,
                      p # q, hold'[p][k].attempt > 0
               PROVE  hold'[p][k].attempt # hold'[q][k].attempt
    BY DEF AttemptsDistinct
  <2>1. CASE k = j /\ (p = o \/ q = o)
    BY <1>5, <2>1
  <2>2. CASE k # j \/ (p # o /\ q # o)
    BY <1>5, <2>2 DEF QueueInvariant, AttemptsDistinct
  <2> QED BY <2>1, <2>2
<1>10. HoldsBehindItem'
  <2> SUFFICES ASSUME NEW p \in Owners, NEW k \in Jobs, hold'[p][k].attempt > 0
               PROVE  /\ hold'[p][k].attempt <= item'[k].attempt
                      /\ hold'[p][k].attempt = item'[k].attempt =>
                           item'[k].status = "claimed" /\ item'[k].owner = p
    BY DEF HoldsBehindItem
  <2>1. p # o \/ k # j
    BY <1>5
  <2>2. CASE k = j
    BY <1>3, <1>5, <1>6, <2>1, <2>2 DEF QueueInvariant, HoldsBehindItem
  <2>3. CASE k # j
    BY <1>3, <1>5, <2>3 DEF QueueInvariant, HoldsBehindItem
  <2> QED BY <2>2, <2>3
<1>11. LiveHoldCurrent'
  <2> SUFFICES ASSUME NEW p \in Owners, NEW k \in Jobs, LiveHold(p, k)'
               PROVE  /\ hold'[p][k].attempt = item'[k].attempt
                      /\ hold'[p][k].expires = item'[k].expires
    BY DEF LiveHoldCurrent
  <2>1. p # o \/ k # j
    BY <1>5 DEF LiveHold
  <2>2. LiveHold(p, k)
    BY <1>5, <2>1 DEF LiveHold
  <2>3. k # j
    BY <1>7, <2>1, <2>2
  <2> QED BY <1>3, <1>5, <2>2, <2>3 DEF QueueInvariant, LiveHoldCurrent
<1>12. AbsentUntouched'
  BY <1>3 DEF QueueInvariant, AbsentUntouched
<1> QED BY <1>1, <1>8, <1>9, <1>10, <1>11, <1>12 DEF QueueInvariant

\* Extending a live claim moves the same tenancy of the same owner.
LEMMA HeartbeatStep ==
  ASSUME QueueInvariant, TypeOK', NEW o \in Owners, NEW j \in Jobs, NEW ttl \in TTLs,
         Heartbeat(o, j, ttl)
  PROVE  QueueInvariant'
<1> DEFINE expires == clock + ttl
<1>1. TypeOK
  BY DEF QueueInvariant
<1>2. item[j].status = "claimed" /\ item[j].owner = o /\ item[j].leased
  BY DEF Heartbeat, OwnsLiveItem
<1>3. /\ item'[j].status = "claimed" /\ item'[j].owner = o /\ item'[j].leased
      /\ item'[j].attempt = item[j].attempt /\ item'[j].expires = expires
      /\ \A k \in Jobs : k # j => item'[k] = item[k]
  <2>1. item[j] \in Items /\ item' = [item EXCEPT ![j].expires = expires]
    BY <1>1 DEF Heartbeat, TypeOK
  <2> QED BY <1>1, <1>2, <2>1 DEF TypeOK, Items
<1>4. /\ lease'[j].status = "claimed" /\ lease'[j].owner = o /\ lease'[j].expires = expires
      /\ \A k \in Jobs : k # j => lease'[k] = lease[k]
  BY <1>1 DEF Heartbeat, TypeOK, LeaseClaimed
<1>5. /\ hold'[o][j].attempt = item[j].attempt /\ hold'[o][j].expires = expires
      /\ \A p \in Owners, k \in Jobs : (p # o \/ k # j) => hold'[p][k] = hold[p][k]
      /\ clock' = clock
  BY <1>1 DEF Heartbeat, TypeOK, Claims
<1>6. \A p \in Owners : p # o /\ hold[p][j].attempt > 0 => hold[p][j].attempt # item[j].attempt
  BY <1>2 DEF QueueInvariant, HoldsBehindItem
<1>7. \A p \in Owners : p # o => ~LiveHold(p, j)
  BY <1>6 DEF QueueInvariant, LiveHoldCurrent, LiveHold
<1>8. ItemLeaseAgree'
  BY <1>3, <1>4 DEF QueueInvariant, ItemLeaseAgree
<1>9. AttemptsDistinct'
  <2> SUFFICES ASSUME NEW k \in Jobs, NEW p \in Owners, NEW q \in Owners,
                      p # q, hold'[p][k].attempt > 0
               PROVE  hold'[p][k].attempt # hold'[q][k].attempt
    BY DEF AttemptsDistinct
  <2>0. \A r \in Owners : hold[r][j].attempt \in Nat
    BY <1>1, FieldTypes
  <2>1. CASE k = j /\ p = o
    BY <1>5, <1>6, <2>0, <2>1
  <2>2. CASE k = j /\ q = o
    BY <1>5, <1>6, <2>0, <2>2
  <2>3. CASE k # j \/ (p # o /\ q # o)
    BY <1>5, <2>3 DEF QueueInvariant, AttemptsDistinct
  <2> QED BY <2>1, <2>2, <2>3
<1>10. HoldsBehindItem'
  <2> SUFFICES ASSUME NEW p \in Owners, NEW k \in Jobs, hold'[p][k].attempt > 0
               PROVE  /\ hold'[p][k].attempt <= item'[k].attempt
                      /\ hold'[p][k].attempt = item'[k].attempt =>
                           item'[k].status = "claimed" /\ item'[k].owner = p
    BY DEF HoldsBehindItem
  <2>0. item[j].attempt \in Nat
    BY <1>1, FieldTypes
  <2>1. CASE k = j /\ p = o
    BY <1>3, <1>5, <2>0, <2>1
  <2>2. CASE k = j /\ p # o
    BY <1>3, <1>5, <1>6, <2>2 DEF QueueInvariant, HoldsBehindItem
  <2>3. CASE k # j
    BY <1>3, <1>5, <2>3 DEF QueueInvariant, HoldsBehindItem
  <2> QED BY <2>1, <2>2, <2>3
<1>11. LiveHoldCurrent'
  <2> SUFFICES ASSUME NEW p \in Owners, NEW k \in Jobs, LiveHold(p, k)'
               PROVE  /\ hold'[p][k].attempt = item'[k].attempt
                      /\ hold'[p][k].expires = item'[k].expires
    BY DEF LiveHoldCurrent
  <2>1. CASE k = j /\ p = o
    BY <1>3, <1>5, <2>1
  <2>2. CASE k = j /\ p # o
    BY <1>5, <1>7, <2>2 DEF LiveHold
  <2>3. CASE k # j
    BY <1>3, <1>5, <2>3 DEF QueueInvariant, LiveHoldCurrent, LiveHold
  <2> QED BY <2>1, <2>2, <2>3
<1>12. AbsentUntouched'
  BY <1>3 DEF QueueInvariant, AbsentUntouched
<1> QED BY <1>8, <1>9, <1>10, <1>11, <1>12 DEF QueueInvariant

\* The claims of both kinds select a row that is not somebody else's live claim.
LEMMA ClaimSelects ==
  ASSUME NEW o \in Owners, NEW j \in Jobs, NEW ttl \in TTLs,
         ClaimById(o, j, ttl) \/ \E kinds \in SUBSET Kinds : FirstAvailable(j, kinds) /\ Grant(o, j, ttl)
  PROVE  /\ item[j].status \in {"pending", "claimed"}
         /\ ItemHeld(item[j], clock) => item[j].owner = o
<1>1. CASE ClaimById(o, j, ttl)
  BY <1>1 DEF ClaimById, SelectableById, ItemHeld, ItemAvailable
<1>2. CASE \E kinds \in SUBSET Kinds : FirstAvailable(j, kinds)
  <2>1. ItemAvailable(item[j], clock)
    BY <1>2 DEF FirstAvailable
  <2> QED BY <2>1 DEF ItemHeld, ItemAvailable
<1> QED BY <1>1, <1>2

\* Both ways of claiming, by id and by scan, preserve the invariant.
LEMMA ClaimStep ==
  ASSUME QueueInvariant, NEW o \in Owners, NEW j \in Jobs, NEW ttl \in TTLs,
         ClaimById(o, j, ttl) \/ \E kinds \in SUBSET Kinds : FirstAvailable(j, kinds) /\ Grant(o, j, ttl)
  PROVE  QueueInvariant'
<1>1. Grant(o, j, ttl)
  BY DEF ClaimById
<1> QED BY <1>1, ClaimSelects, GrantStep

\* The rows complete() and fail() write.
LEMMA ReportRows ==
  ASSUME TypeOK, NEW j \in Jobs
  PROVE  /\ \A s \in {"completed", "failed"} :
              LET row == Resolved(item[j], s, clock)
              IN  row \in Items /\ row.status = s /\ row.attempt = item[j].attempt
         /\ \A delay \in RetryDelays :
              LET row == Rescheduled(item[j], clock + delay)
              IN  row \in Items /\ row.status = "pending" /\ row.attempt = item[j].attempt
<1>1. item[j] \in Items /\ clock \in Nat /\ \A delay \in RetryDelays : clock + delay \in Nat
  BY WorkQueueAssumption DEF TypeOK
<1>2. \A s \in {"completed", "failed"} :
        LET row == Resolved(item[j], s, clock)
        IN  row \in Items /\ row.status = s /\ row.attempt = item[j].attempt
  BY <1>1 DEF Resolved, Items, ItemStatus
<1>3. \A delay \in RetryDelays :
        LET row == Rescheduled(item[j], clock + delay)
        IN  row \in Items /\ row.status = "pending" /\ row.attempt = item[j].attempt
  BY <1>1 DEF Rescheduled, Items, ItemStatus
<1> QED BY <1>2, <1>3

\* Every operation, and every tick, preserves the invariant.
LEMMA QueueInvariantStep == QueueInvariant /\ [Next]_vars => QueueInvariant'
<1> SUFFICES ASSUME QueueInvariant, [Next]_vars PROVE QueueInvariant'
  OBVIOUS
<1>0. TypeOK /\ TypeOK'
  BY TypeStep DEF QueueInvariant
<1>1. CASE Tick
  <2>1. \A o \in Owners, j \in Jobs : LiveHold(o, j)' => LiveHold(o, j)
    <3> SUFFICES ASSUME NEW o \in Owners, NEW j \in Jobs, LiveHold(o, j)' PROVE LiveHold(o, j)
      OBVIOUS
    <3>1. clock \in Nat /\ clock' = clock + 1 /\ hold' = hold /\ hold[o][j].expires \in Nat
      BY <1>0, <1>1, FieldTypes DEF Tick
    <3> QED BY <3>1 DEF LiveHold
  <2> QED
    BY <1>0, <1>1, <2>1 DEF Tick, QueueInvariant, ItemLeaseAgree, AttemptsDistinct,
       HoldsBehindItem, LiveHoldCurrent, AbsentUntouched
<1>2. ASSUME NEW j \in Jobs, NEW kind \in Kinds, Enqueue(j, kind) PROVE QueueInvariant'
  <2>1. /\ item'[j].status = "pending" /\ item'[j].attempt = 0
        /\ \A k \in Jobs : k # j => item'[k] = item[k]
        /\ lease' = lease /\ hold' = hold /\ clock' = clock
    BY <1>0, <1>2 DEF Enqueue, TypeOK, NoItem
  <2>2. item[j].status = "absent" /\ item[j].attempt = 0
    BY <1>2 DEF Enqueue, QueueInvariant, AbsentUntouched
  <2>3. \A o \in Owners : ~(hold[o][j].attempt > 0)
    <3> SUFFICES ASSUME NEW o \in Owners, hold[o][j].attempt > 0 PROVE FALSE
      OBVIOUS
    <3>1. hold[o][j].attempt <= 0 /\ hold[o][j].attempt \in Nat
      BY <1>0, <2>2, FieldTypes DEF QueueInvariant, HoldsBehindItem
    <3> QED BY <3>1
  <2>4. ItemLeaseAgree'
    BY <2>1, <2>2 DEF QueueInvariant, ItemLeaseAgree
  <2>5. AttemptsDistinct' /\ AbsentUntouched'
    BY <2>1 DEF QueueInvariant, AttemptsDistinct, AbsentUntouched
  <2>6. HoldsBehindItem' /\ LiveHoldCurrent'
    BY <2>1, <2>3 DEF QueueInvariant, HoldsBehindItem, LiveHoldCurrent, LiveHold
  <2> QED BY <1>0, <2>4, <2>5, <2>6 DEF QueueInvariant
<1>3. ASSUME NEW o \in Owners, NEW j \in Jobs, NEW ttl \in TTLs, ClaimById(o, j, ttl)
      PROVE  QueueInvariant'
  BY <1>3, ClaimStep
<1>4. ASSUME NEW o \in Owners, NEW kinds \in SUBSET Kinds, NEW ttl \in TTLs,
             ClaimNext(o, kinds, ttl)
      PROVE  QueueInvariant'
  BY <1>4, ClaimStep DEF ClaimNext
<1>5. ASSUME NEW o \in Owners, NEW j \in Jobs, NEW ttl \in TTLs, Heartbeat(o, j, ttl)
      PROVE  QueueInvariant'
  BY <1>0, <1>5, HeartbeatStep
<1>6. ASSUME NEW o \in Owners, NEW j \in Jobs,
             Complete(o, j) \/ Fail(o, j) \/ \E delay \in RetryDelays : FailRetry(o, j, delay)
      PROVE  QueueInvariant'
  BY <1>0, <1>6, ReportRows, ResolveStep DEF Complete, Fail, FailRetry
<1>7. ASSUME NEW o \in Owners, NEW j \in Jobs, Refused(o, j) PROVE QueueInvariant'
  <2>1. /\ hold'[o][j].attempt = 0
        /\ \A p \in Owners, k \in Jobs : (p # o \/ k # j) => hold'[p][k] = hold[p][k]
        /\ clock' = clock /\ item' = item /\ lease' = lease
    BY <1>0, <1>7 DEF Refused, TypeOK, NoClaim
  <2>2. \A p \in Owners, k \in Jobs : hold'[p][k].attempt > 0 => p # o \/ k # j
    BY <2>1
  <2>3. ItemLeaseAgree' /\ AbsentUntouched'
    BY <2>1 DEF QueueInvariant, ItemLeaseAgree, AbsentUntouched
  <2>4. HoldsBehindItem' /\ LiveHoldCurrent'
    BY <2>1, <2>2 DEF QueueInvariant, HoldsBehindItem, LiveHoldCurrent, LiveHold
  <2>5. AttemptsDistinct'
    <3> SUFFICES ASSUME NEW k \in Jobs, NEW p \in Owners, NEW q \in Owners,
                        p # q, hold'[p][k].attempt > 0
                 PROVE  hold'[p][k].attempt # hold'[q][k].attempt
      BY DEF AttemptsDistinct
    <3>1. CASE k = j /\ (p = o \/ q = o)
      BY <2>1, <3>1
    <3>2. CASE k # j \/ (p # o /\ q # o)
      BY <2>1, <3>2 DEF QueueInvariant, AttemptsDistinct
    <3> QED BY <3>1, <3>2
  <2> QED BY <1>0, <2>3, <2>4, <2>5 DEF QueueInvariant
<1>8. CASE UNCHANGED vars
  BY <1>0, <1>8 DEF vars, QueueInvariant, ItemLeaseAgree, AttemptsDistinct, HoldsBehindItem,
     LiveHoldCurrent, LiveHold, AbsentUntouched
<1> QED BY <1>1, <1>2, <1>3, <1>4, <1>5, <1>6, <1>7, <1>8 DEF Next

\* The strengthened invariant of the queue.
THEOREM QueueInvariantHolds == Spec => []QueueInvariant
<1>1. Init => QueueInvariant
  <2> SUFFICES ASSUME Init PROVE QueueInvariant
    OBVIOUS
  <2>1. TypeOK
    BY TypeInit
  <2>2. /\ \A j \in Jobs : item[j] = NoItem /\ lease[j] = NoLease
        /\ \A o \in Owners, j \in Jobs : hold[o][j] = NoClaim
    BY DEF Init
  <2>3. /\ \A j \in Jobs : /\ item[j].status = "absent" /\ item[j].attempt = 0
                           /\ lease[j].status = "absent"
        /\ \A o \in Owners, j \in Jobs : hold[o][j].attempt = 0
    <3>0. NoItem.status = "absent" /\ NoItem.attempt = 0
      BY DEF NoItem
    <3>1. \A j \in Jobs : item[j].status = "absent" /\ item[j].attempt = 0
      BY <2>2, <3>0
    <3>2. \A j \in Jobs : lease[j].status = "absent"
      BY <2>2 DEF NoLease
    <3>3. \A o \in Owners, j \in Jobs : hold[o][j].attempt = 0
      BY <2>2 DEF NoClaim
    <3> QED BY <3>1, <3>2, <3>3
  <2>4. ItemLeaseAgree /\ AbsentUntouched
    BY <2>3 DEF ItemLeaseAgree, AbsentUntouched
  <2>5. AttemptsDistinct /\ HoldsBehindItem /\ LiveHoldCurrent
    BY <2>3 DEF AttemptsDistinct, HoldsBehindItem, LiveHoldCurrent, LiveHold
  <2> QED BY <2>1, <2>4, <2>5 DEF QueueInvariant
<1> QED BY <1>1, QueueInvariantStep, PTL DEF Spec

\* The item and its lease always agree.
THEOREM ItemLeaseAgreement == Spec => []ItemLeaseAgree
<1>1. QueueInvariant => ItemLeaseAgree
  BY DEF QueueInvariant
<1> QED BY <1>1, QueueInvariantHolds, PTL

\* A scan never meets a live lease on an available item.
THEOREM NoHeadOfLineConflict == Spec => []AvailableLeaseFree
<1>1. QueueInvariant => AvailableLeaseFree
  BY DEF QueueInvariant, ItemLeaseAgree, AvailableLeaseFree, ItemAvailable, ItemHeld, LeaseHeld
<1> QED BY <1>1, QueueInvariantHolds, PTL

\* At most one caller at a time has a live claim on an item.
THEOREM MutualExclusion == Spec => []SingleLiveHolder
<1>1. QueueInvariant => SingleLiveHolder
  BY DEF QueueInvariant, HoldsBehindItem, LiveHoldCurrent, SingleLiveHolder, LiveHold
<1> QED BY <1>1, QueueInvariantHolds, PTL

\* A live copy of a claim is always honoured.
THEOREM ClaimsHonoured == Spec => []LiveHoldHonoured
<1>1. QueueInvariant => LiveHoldHonoured
  <2> SUFFICES ASSUME QueueInvariant, NEW o \in Owners, NEW j \in Jobs, LiveHold(o, j)
               PROVE  /\ OwnsLiveItem(item[j], o, clock)
                      /\ OwnsLiveLease(lease[j], o, clock)
                      /\ item[j].attempt = hold[o][j].attempt
    BY DEF LiveHoldHonoured
  <2>1. /\ item[j].attempt = hold[o][j].attempt /\ item[j].expires > clock
        /\ item[j].status = "claimed" /\ item[j].owner = o
    BY DEF QueueInvariant, HoldsBehindItem, LiveHoldCurrent, LiveHold
  <2> QED BY <2>1 DEF QueueInvariant, ItemLeaseAgree, OwnsLiveItem, OwnsLiveLease, LeaseHeld
<1> QED BY <1>1, QueueInvariantHolds, PTL

\* The attempt number tells any two holders of an item apart.
THEOREM AttemptFencing == Spec => []AttemptsDistinct
<1>1. QueueInvariant => AttemptsDistinct
  BY DEF QueueInvariant
<1> QED BY <1>1, QueueInvariantHolds, PTL

-----------------------------------------------------------------------------
(* Action properties *)

\* No operation touches a terminal item or its lease.
LEMMA TerminalStep ==
  ASSUME QueueInvariant, [Next]_vars, NEW j \in Jobs, item[j].status \in Terminal
  PROVE  item'[j] = item[j] /\ lease'[j] = lease[j]
<1>0. TypeOK
  BY DEF QueueInvariant
<1>1. ~ItemHeld(item[j], clock) /\ ~ItemAvailable(item[j], clock)
  BY DEF Terminal, ItemHeld, ItemAvailable
<1>2. \A o \in Owners : ~OwnsLiveItem(item[j], o, clock)
  BY DEF Terminal, OwnsLiveItem
<1>3. CASE Tick
  BY <1>3 DEF Tick
<1>4. ASSUME NEW k \in Jobs, NEW kind \in Kinds, Enqueue(k, kind)
      PROVE  item'[j] = item[j] /\ lease'[j] = lease[j]
  BY <1>0, <1>4 DEF Enqueue, Terminal, TypeOK
<1>5. ASSUME NEW o \in Owners, NEW k \in Jobs, NEW ttl \in TTLs,
             ClaimById(o, k, ttl) \/ \E kinds \in SUBSET Kinds : FirstAvailable(k, kinds) /\ Grant(o, k, ttl)
      PROVE  item'[j] = item[j] /\ lease'[j] = lease[j]
  <2>1. Grant(o, k, ttl)
    BY <1>5 DEF ClaimById
  <2>2. k # j
    BY <1>1, <1>5 DEF ClaimById, SelectableById, FirstAvailable
  <2> QED BY <1>0, <2>1, <2>2 DEF Grant, TypeOK
<1>6. ASSUME NEW o \in Owners, NEW k \in Jobs, NEW ttl \in TTLs, Heartbeat(o, k, ttl)
      PROVE  item'[j] = item[j] /\ lease'[j] = lease[j]
  BY <1>0, <1>2, <1>6 DEF Heartbeat, TypeOK
<1>7. ASSUME NEW o \in Owners, NEW k \in Jobs, NEW row, Resolve(o, k, row)
      PROVE  item'[j] = item[j] /\ lease'[j] = lease[j]
  BY <1>0, <1>2, <1>7 DEF Resolve, TypeOK
<1>8. ASSUME NEW o \in Owners, NEW k \in Jobs, Refused(o, k)
      PROVE  item'[j] = item[j] /\ lease'[j] = lease[j]
  BY <1>8 DEF Refused
<1>9. CASE UNCHANGED vars
  BY <1>9 DEF vars
<1> QED
  BY <1>3, <1>4, <1>5, <1>6, <1>7, <1>8, <1>9 DEF Next, ClaimNext, Complete, Fail, FailRetry

\* Completed and failed items, and their leases, never change again.
THEOREM TerminalIsFinal == Spec => TerminalStays
<1>1. QueueInvariant /\ [Next]_vars =>
        [\A j \in Jobs : item[j].status \in Terminal =>
           item'[j] = item[j] /\ lease'[j] = lease[j]]_vars
  BY TerminalStep
<1> QED BY <1>1, QueueInvariantHolds, PTL DEF Spec, TerminalStays

\* A claim that leaves "claimed" was reported by its live owner.
LEMMA ReportStep ==
  ASSUME QueueInvariant, [Next]_vars, NEW j \in Jobs,
         item[j].status = "claimed", item'[j].status # "claimed"
  PROVE  /\ OwnsLiveLease(lease[j], item[j].owner, clock)
         /\ ItemHeld(item[j], clock)
         /\ lease'[j].status = "released"
<1>0. TypeOK
  BY DEF QueueInvariant
<1>1. ~Tick /\ ~UNCHANGED vars
  BY DEF Tick, vars
<1>2. ASSUME NEW k \in Jobs, NEW kind \in Kinds, Enqueue(k, kind) PROVE FALSE
  BY <1>0, <1>2 DEF Enqueue, TypeOK
<1>3. ASSUME NEW o \in Owners, NEW k \in Jobs, NEW ttl \in TTLs, Grant(o, k, ttl) PROVE FALSE
  <2>1. item[k] \in Items /\ item[j] \in Items
    BY <1>0, FieldTypes
  <2> QED BY <1>0, <1>3, <2>1 DEF Grant, TypeOK, Items
<1>4. ASSUME NEW o \in Owners, NEW k \in Jobs, NEW ttl \in TTLs, Heartbeat(o, k, ttl) PROVE FALSE
  <2>1. item[k] \in Items /\ item[j] \in Items
    BY <1>0, FieldTypes
  <2> QED BY <1>0, <1>4, <2>1 DEF Heartbeat, TypeOK, Items
<1>5. ASSUME NEW o \in Owners, NEW k \in Jobs, Refused(o, k) PROVE FALSE
  BY <1>5 DEF Refused
<1>6. ASSUME NEW o \in Owners, NEW k \in Jobs, NEW row, Resolve(o, k, row)
      PROVE  /\ OwnsLiveLease(lease[j], item[j].owner, clock)
             /\ ItemHeld(item[j], clock)
             /\ lease'[j].status = "released"
  <2>1. k = j
    BY <1>0, <1>6 DEF Resolve, TypeOK
  <2>2. lease[j] \in LeaseRows /\ lease'[j] = LeaseReleased(lease[j], clock)
    BY <1>0, <1>6, <2>1 DEF Resolve, TypeOK
  <2>3. lease'[j].status = "released"
    BY <2>2 DEF LeaseReleased, LeaseRows
  <2> QED BY <1>6, <2>1, <2>3 DEF Resolve, OwnsLiveItem, ItemHeld, OwnsLiveLease, LeaseHeld,
             QueueInvariant, ItemLeaseAgree
<1> QED
  BY <1>1, <1>2, <1>3, <1>4, <1>5, <1>6 DEF Next, ClaimById, ClaimNext, Complete, Fail, FailRetry

\* Whoever ends a claim holds item and lease live, and releases the lease.
THEOREM ReportsComeFromLiveOwners == Spec => ReportReleasesLiveLease
<1>1. QueueInvariant /\ [Next]_vars =>
        [\A j \in Jobs : item[j].status = "claimed" /\ item'[j].status # "claimed" =>
           /\ OwnsLiveLease(lease[j], item[j].owner, clock)
           /\ ItemHeld(item[j], clock)
           /\ lease'[j].status = "released"]_vars
  BY ReportStep
<1> QED BY <1>1, QueueInvariantHolds, PTL DEF Spec, ReportReleasesLiveLease

-----------------------------------------------------------------------------
(* Refinement of ExclusiveJobs *)

\* The mapping is pointwise: rows that stay as they are at the same time keep
\* their phase and their holder.
LEMMA MappingOfOthers ==
  ASSUME NEW j \in Jobs, clock' = clock, \A k \in Jobs : k # j => item'[k] = item[k]
  PROVE  /\ phases' = [phases EXCEPT ![j] = phases'[j]]
         /\ holders' = [holders EXCEPT ![j] = holders'[j]]
<1>1. \A k \in Jobs : k # j => phases'[k] = phases[k] /\ holders'[k] = holders[k]
  BY DEF phases, holders, PhaseOf, ItemHeld
<1>2. /\ phases = [k \in Jobs |-> phases[k]] /\ phases' = [k \in Jobs |-> phases'[k]]
      /\ holders = [k \in Jobs |-> holders[k]] /\ holders' = [k \in Jobs |-> holders'[k]]
  BY DEF phases, holders
<1> QED BY <1>1, <1>2

\* A claim takes an open job, or renews what its owner holds already.
LEMMA GrantRefines ==
  ASSUME QueueInvariant, NEW o \in Owners, NEW j \in Jobs, NEW ttl \in TTLs,
         item[j].status \in {"pending", "claimed"},
         ItemHeld(item[j], clock) => item[j].owner = o,
         Grant(o, j, ttl)
  PROVE  Promise!Take(o, j) \/ UNCHANGED <<phases, holders>>
<1>1. TypeOK /\ item[j] \in Items /\ clock \in Nat /\ ttl \in Nat /\ clock + ttl > clock
  <2>1. TypeOK /\ item[j] \in Items /\ clock \in Nat
    BY FieldTypes DEF QueueInvariant
  <2>2. ttl \in Nat \ {0}
    BY WorkQueueAssumption
  <2> QED BY <2>1, <2>2
<1>2. /\ item'[j].status = "claimed" /\ item'[j].owner = o /\ item'[j].expires = clock + ttl
      /\ \A k \in Jobs : k # j => item'[k] = item[k]
      /\ clock' = clock
  BY <1>1 DEF Grant, TypeOK, Items
<1>3. phases'[j] = "held" /\ holders'[j] = o
  BY <1>1, <1>2 DEF phases, holders, PhaseOf, ItemHeld, Terminal
<1>4. /\ phases' = [phases EXCEPT ![j] = "held"]
      /\ holders' = [holders EXCEPT ![j] = o]
  BY <1>2, <1>3, MappingOfOthers
<1>5. CASE ItemHeld(item[j], clock)
  <2>1. phases[j] = "held" /\ holders[j] = o
    BY <1>5 DEF phases, holders, PhaseOf, ItemHeld, Terminal
  <2>2. phases = [k \in Jobs |-> phases[k]] /\ holders = [k \in Jobs |-> holders[k]]
    BY DEF phases, holders
  <2> QED BY <1>4, <2>1, <2>2
<1>6. CASE ~ItemHeld(item[j], clock)
  <2>1. phases[j] = "open"
    BY <1>6 DEF phases, PhaseOf, Terminal
  <2> QED BY <1>4, <2>1 DEF Promise!Take
<1> QED BY <1>5, <1>6

\* A report settles a held job.
LEMMA ResolveRefines ==
  ASSUME QueueInvariant, NEW o \in Owners, NEW j \in Jobs, NEW row \in Items,
         row.status \in {"pending", "completed", "failed"}, Resolve(o, j, row)
  PROVE  \E outcome \in {"open", "done"} : Promise!Settle(j, outcome)
<1>1. TypeOK
  BY DEF QueueInvariant
<1>2. /\ item'[j] = row /\ clock' = clock
      /\ \A k \in Jobs : k # j => item'[k] = item[k]
  BY <1>1 DEF Resolve, TypeOK
<1>3. phases[j] = "held"
  BY DEF Resolve, OwnsLiveItem, phases, PhaseOf, ItemHeld, Terminal
<1>4. phases'[j] \in {"open", "done"} /\ holders'[j] = NoOwner
  BY <1>2 DEF phases, holders, PhaseOf, ItemHeld, Terminal
<1> QED BY <1>2, <1>3, <1>4, MappingOfOthers DEF Promise!Settle

\* Every step of the queue is a step of the ledger or changes nothing there.
LEMMA StepRefines ==
  QueueInvariant /\ [Next]_vars => [Promise!Next]_<<phases, holders>>
<1> SUFFICES ASSUME QueueInvariant, [Next]_vars
             PROVE  Promise!Next \/ UNCHANGED <<phases, holders>>
  OBVIOUS
<1>0. TypeOK
  BY DEF QueueInvariant
<1>1. CASE Tick
  <2> DEFINE expired == {j \in Jobs : ItemHeld(item[j], clock) /\ ~ItemHeld(item[j], clock + 1)}
  <2>1. clock' = clock + 1 /\ item' = item /\ clock \in Nat
    BY <1>0, <1>1, WorkQueueAssumption DEF Tick, TypeOK
  <2>2. \A j \in expired : phases[j] = "held"
    BY DEF phases, PhaseOf, ItemHeld, Terminal
  <2>3. phases' = [j \in Jobs |-> IF j \in expired THEN "open" ELSE phases[j]]
    <3>1. \A j \in Jobs : item[j].expires \in Nat
      BY <1>0 DEF TypeOK, Items
    <3> QED BY <2>1, <3>1 DEF phases, PhaseOf, ItemHeld, Terminal
  <2>4. holders' = [j \in Jobs |-> IF j \in expired THEN NoOwner ELSE holders[j]]
    <3>1. \A j \in Jobs : item[j].expires \in Nat
      BY <1>0 DEF TypeOK, Items
    <3> QED BY <2>1, <3>1 DEF holders, ItemHeld
  <2>5. expired \in SUBSET Jobs
    OBVIOUS
  <2> QED BY <2>2, <2>3, <2>4, <2>5 DEF Promise!Lapse, Promise!Next
<1>2. ASSUME NEW j \in Jobs, NEW kind \in Kinds, Enqueue(j, kind) PROVE Promise!Add(j)
  <2>1. /\ item[j].status = "absent" /\ item'[j].status = "pending" /\ clock' = clock
        /\ \A k \in Jobs : k # j => item'[k] = item[k]
    BY <1>0, <1>2 DEF Enqueue, TypeOK, NoItem
  <2>2. phases[j] = "none" /\ phases'[j] = "open" /\ holders'[j] = holders[j]
    BY <2>1 DEF phases, holders, PhaseOf, ItemHeld, Terminal
  <2>3. holders = [k \in Jobs |-> holders[k]]
    BY DEF holders
  <2> QED BY <2>1, <2>2, <2>3, MappingOfOthers DEF Promise!Add
<1>3. ASSUME NEW o \in Owners, NEW j \in Jobs, NEW ttl \in TTLs,
             ClaimById(o, j, ttl) \/ \E kinds \in SUBSET Kinds : FirstAvailable(j, kinds) /\ Grant(o, j, ttl)
      PROVE  Promise!Take(o, j) \/ UNCHANGED <<phases, holders>>
  <2>1. Grant(o, j, ttl)
    BY <1>3 DEF ClaimById
  <2>2. /\ item[j].status \in {"pending", "claimed"}
        /\ ItemHeld(item[j], clock) => item[j].owner = o
    BY <1>3, ClaimSelects
  <2> QED BY <2>1, <2>2, GrantRefines
<1>4. ASSUME NEW o \in Owners, NEW j \in Jobs, NEW ttl \in TTLs, Heartbeat(o, j, ttl)
      PROVE  UNCHANGED <<phases, holders>>
  <2>1. clock \in Nat /\ clock + ttl > clock /\ item[j] \in Items
    <3>1. clock \in Nat /\ item[j] \in Items
      BY <1>0, FieldTypes
    <3>2. ttl \in Nat \ {0}
      BY WorkQueueAssumption
    <3> QED BY <3>1, <3>2
  <2>2. /\ item[j].status = "claimed" /\ ItemHeld(item[j], clock)
        /\ item'[j].status = "claimed" /\ item'[j].owner = item[j].owner
        /\ item'[j].expires = clock + ttl /\ clock' = clock
        /\ \A k \in Jobs : k # j => item'[k] = item[k]
    BY <1>0, <1>4, <2>1 DEF Heartbeat, OwnsLiveItem, ItemHeld, TypeOK, Items
  <2>3. phases'[j] = phases[j] /\ holders'[j] = holders[j]
    BY <2>1, <2>2 DEF phases, holders, PhaseOf, ItemHeld, Terminal
  <2>4. phases = [k \in Jobs |-> phases[k]] /\ holders = [k \in Jobs |-> holders[k]]
    BY DEF phases, holders
  <2> QED BY <2>2, <2>3, <2>4, MappingOfOthers
<1>5. ASSUME NEW o \in Owners, NEW j \in Jobs,
             Complete(o, j) \/ Fail(o, j) \/ \E delay \in RetryDelays : FailRetry(o, j, delay)
      PROVE  \E outcome \in {"open", "done"} : Promise!Settle(j, outcome)
  <2>1. PICK row \in Items : row.status \in {"pending", "completed", "failed"} /\ Resolve(o, j, row)
    BY <1>0, <1>5, ReportRows DEF Complete, Fail, FailRetry
  <2> QED BY <2>1, ResolveRefines
<1>6. ASSUME NEW o \in Owners, NEW j \in Jobs, Refused(o, j) PROVE UNCHANGED <<phases, holders>>
  BY <1>6 DEF Refused, phases, holders, PhaseOf, ItemHeld
<1>7. CASE UNCHANGED vars
  BY <1>7 DEF vars, phases, holders, PhaseOf, ItemHeld
<1> QED
  BY <1>1, <1>2, <1>3, <1>4, <1>5, <1>6, <1>7 DEF Next, ClaimNext, Promise!Next

\* The queue is an exclusive job ledger: a job is worked on by one owner at a
\* time, leaves "held" by that owner's report or by expiry, and ends once.
THEOREM QueueKeepsPromise == Spec => ImplementsExclusiveJobs
<1>1. Init => Promise!Init
  <2> SUFFICES ASSUME Init PROVE Promise!Init
    OBVIOUS
  <2>1. NoItem.status = "absent"
    BY DEF NoItem
  <2>2. \A j \in Jobs : item[j].status = "absent"
    BY <2>1 DEF Init
  <2>3. \A j \in Jobs : PhaseOf(item[j]) = "none" /\ ~ItemHeld(item[j], clock)
    BY <2>2 DEF PhaseOf, ItemHeld, Terminal
  <2> QED BY <2>3 DEF Promise!Init, phases, holders
<1> QED BY <1>1, StepRefines, QueueInvariantHolds, PTL DEF Spec, ImplementsExclusiveJobs, Promise!Spec

-----------------------------------------------------------------------------
(* The same operations statement by statement: WorkQueueTx *)

\* An UPDATE takes each column from the new row or leaves what is there, and so
\* keeps the row's type.
LEMMA WrittenLease ==
  ASSUME NEW c \in LeaseRows, NEW old \in LeaseRows, NEW new \in LeaseRows
  PROVE  /\ Written(c, old, new) \in LeaseRows
         /\ Written(c, old, new).status = IF new.status # old.status THEN new.status ELSE c.status
         /\ Written(c, old, new).owner = IF new.owner # old.owner THEN new.owner ELSE c.owner
         /\ Written(c, old, new).expires = IF new.expires # old.expires THEN new.expires ELSE c.expires
<1> DEFINE w == Written(c, old, new)
<1>1. DOMAIN c = {"status", "owner", "expires"}
  BY DEF LeaseRows
<1>2. w = [status |-> w.status, owner |-> w.owner, expires |-> w.expires]
  BY <1>1 DEF Written
<1>3. /\ w.status = IF new.status # old.status THEN new.status ELSE c.status
      /\ w.owner = IF new.owner # old.owner THEN new.owner ELSE c.owner
      /\ w.expires = IF new.expires # old.expires THEN new.expires ELSE c.expires
  BY <1>1 DEF Written
<1>4. w.status \in LeaseStatus /\ w.owner \in Owners \cup {NoOwner} /\ w.expires \in Nat
  BY <1>3 DEF LeaseRows
<1> HIDE DEF w
<1>5. w \in LeaseRows
  BY <1>2, <1>4 DEF LeaseRows
<1> QED BY <1>3, <1>5 DEF w

\* The same for an item.
LEMMA WrittenItem ==
  ASSUME NEW c \in Items, NEW old \in Items, NEW new \in Items
  PROVE  /\ Written(c, old, new) \in Items
         /\ Written(c, old, new).expires = IF new.expires # old.expires THEN new.expires ELSE c.expires
<1> DEFINE w == Written(c, old, new)
<1>1. DOMAIN c = {"status", "kind", "owner", "leased", "attempt", "available", "expires", "created"}
  BY DEF Items
<1>2. w = [status |-> w.status, kind |-> w.kind, owner |-> w.owner, leased |-> w.leased,
           attempt |-> w.attempt, available |-> w.available, expires |-> w.expires,
           created |-> w.created]
  BY <1>1 DEF Written
<1>3. \A f \in DOMAIN c : w[f] \in {new[f], c[f]}
  BY DEF Written
<1>4. w.expires = IF new.expires # old.expires THEN new.expires ELSE c.expires
  BY <1>1 DEF Written
<1>5. /\ w.status \in ItemStatus /\ w.kind \in Kinds \cup {""}
      /\ w.owner \in Owners \cup {NoOwner} /\ w.leased \in BOOLEAN /\ w.attempt \in Nat
      /\ w.available \in Nat /\ w.expires \in Nat /\ w.created \in Nat
  BY <1>1, <1>3 DEF Items
<1> HIDE DEF w
<1>6. w \in Items
  BY <1>2, <1>5 DEF Items
<1> QED BY <1>4, <1>6 DEF w

\* What a worker has read is in the past, is of the types of the tables, and
\* names a job; a report is written only by a worker that met a lease.
ReadingsSound ==
  \A o \in Owners :
    /\ txn[o].seen <= clock
    /\ txn[o].at <= clock
    /\ txn[o].op # "none" => txn[o].job \in Jobs
    /\ txn[o].step = "write" => txn[o].op # "none"
    /\ txn[o].step = "write" /\ txn[o].op # "claim" => txn[o].held.status # "absent"

\* A lease that was never claimed is the empty row, for its readers too, and a
\* row that somebody has read does not go away.
AbsentRows ==
  /\ \A j \in Jobs : lease[j].status = "absent" => lease[j] = NoLease
  /\ \A o \in Owners : txn[o].held.status = "absent" => txn[o].held = NoLease
  /\ \A o \in Owners : txn[o].step = "write" /\ txn[o].held.status # "absent" =>
       lease[txn[o].job].status # "absent"

\* Until the first lease of a job ends it is live, and its owner is the only
\* worker that has a claim or is about to write one over a row it has read.
FirstLeaseStands ==
  \A j \in Jobs \ lapsed :
    /\ lease[j].status # "absent" => LeaseHeld(lease[j], clock)
    /\ \A o \in Owners : hold[o][j].attempt > 0 =>
         lease[j].status # "absent" /\ lease[j].owner = o
    /\ \A o \in Owners :
         txn[o].step = "write" /\ txn[o].job = j /\ txn[o].held.status # "absent" =>
           /\ lease[j].status # "absent" /\ lease[j].owner = o
           /\ txn[o].held.status = "claimed" /\ txn[o].held.owner = o

TenancyInvariant ==
  TypeOKTx /\ ReadingsSound /\ AbsentRows /\ FirstLeaseStands /\ BlockedAtMostOneLease

\* What a step reads of a transaction.
LEMMA TransactionFields ==
  ASSUME TypeOKTx, ReadingsSound, NEW o \in Owners
  PROVE  /\ clock \in Nat
         /\ txn[o] \in Transactions
         /\ txn[o].row \in Items /\ txn[o].held \in LeaseRows
         /\ txn[o].seen \in Nat /\ txn[o].at \in Nat
         /\ txn[o].seen <= clock /\ txn[o].at <= clock
<1>1. txn[o] \in Transactions /\ clock \in Nat
  BY WorkQueueAssumption DEF TypeOKTx, TypeOK
<1>2. /\ txn[o].row \in Items /\ txn[o].held \in LeaseRows
      /\ txn[o].seen \in Nat /\ txn[o].at \in Nat
  BY <1>1 DEF Transactions
<1> QED BY <1>1, <1>2 DEF ReadingsSound

\* The idle transaction.
LEMMA IdleFields ==
  /\ Idle \in Transactions
  /\ Idle.op = "none" /\ Idle.step = "lease" /\ Idle.seen = 0 /\ Idle.at = 0
  /\ Idle.held = NoLease /\ NoLease.status = "absent"
<1>1. NoItem \in Items /\ NoLease \in LeaseRows
  BY EmptyRowTypes
<1>2. Idle \in Transactions
  BY <1>1 DEF Idle, Transactions
<1> QED BY <1>2 DEF Idle, NoLease

(***************************************************************************)
(* Each step keeps the invariant.                                          *)
(***************************************************************************)
\* The clock: leases that run out leave the first tenancy behind.
LEMMA TickKeepsTenancy ==
  ASSUME TenancyInvariant, TickTx PROVE TenancyInvariant'
<1>1. clock \in Nat /\ clock' = clock + 1
  BY WorkQueueAssumption DEF TenancyInvariant, TypeOKTx, TypeOK, TickTx, Tick
<1>2. UNCHANGED <<item, lease, hold, txn>> /\ lapsed \subseteq lapsed'
  BY DEF TickTx, Tick
<1>3. TypeOKTx'
  <2>1. TypeOK'
    BY TypeStep DEF TenancyInvariant, TypeOKTx, TickTx, Next
  <2> QED BY <2>1 DEF TenancyInvariant, TypeOKTx, TickTx
<1>4. ReadingsSound'
  <2>1. \A o \in Owners : txn[o].seen \in Nat /\ txn[o].at \in Nat
    BY TransactionFields DEF TenancyInvariant
  <2> QED BY <1>1, <1>2, <2>1 DEF TenancyInvariant, ReadingsSound
<1>5. AbsentRows'
  BY <1>2 DEF TenancyInvariant, AbsentRows
<1>6. FirstLeaseStands'
  <2>1. \A j \in Jobs \ lapsed' : lease[j].status # "absent" => LeaseHeld(lease[j], clock + 1)
    BY DEF TenancyInvariant, FirstLeaseStands, TickTx, LeaseReclaimed, LeaseHeld
  <2> QED BY <1>1, <1>2, <2>1 DEF TenancyInvariant, FirstLeaseStands
<1>7. BlockedAtMostOneLease'
  <2>1. \A j \in Jobs : item[j].expires \in Nat /\ lease[j].expires \in Nat
    BY DEF TenancyInvariant, TypeOKTx, TypeOK, Items, LeaseRows
  <2>2. TTLs \subseteq Nat
    BY WorkQueueAssumption
  <2> QED BY <1>1, <1>2, <2>1, <2>2 DEF TenancyInvariant, BlockedAtMostOneLease
<1> QED BY <1>3, <1>4, <1>5, <1>6, <1>7 DEF TenancyInvariant

\* An enqueue and a caller dropping its claim leave the leases and everyone's
\* transaction as they are.
LEMMA QueueStepKeepsTenancy ==
  ASSUME TenancyInvariant, UNCHANGED <<clock, lease, txn, lapsed>>,
         \/ \E j \in Jobs, kind \in Kinds : Enqueue(j, kind)
         \/ \E o \in Owners, j \in Jobs : Refused(o, j)
         \/ UNCHANGED vars
  PROVE  TenancyInvariant'
<1>1. clock \in Nat
  BY WorkQueueAssumption DEF TenancyInvariant, TypeOKTx, TypeOK
<1>2. TypeOKTx'
  <2>1. TypeOK'
    BY TypeStep DEF TenancyInvariant, TypeOKTx, Next
  <2> QED BY <2>1 DEF TenancyInvariant, TypeOKTx
<1>3. ReadingsSound' /\ AbsentRows'
  BY DEF TenancyInvariant, ReadingsSound, AbsentRows
<1>4. \A o \in Owners, j \in Jobs : hold'[o][j].attempt > 0 => hold[o][j].attempt > 0
  <2>1. ASSUME NEW p \in Owners, NEW k \in Jobs, Refused(p, k),
               NEW o \in Owners, NEW j \in Jobs, hold'[o][j].attempt > 0
        PROVE  hold[o][j].attempt > 0
    BY <2>1 DEF Refused, NoClaim, TenancyInvariant, TypeOKTx, TypeOK
  <2> QED BY <2>1 DEF Enqueue, vars
<1>5. FirstLeaseStands'
  BY <1>4 DEF TenancyInvariant, FirstLeaseStands
<1>6. \A j \in Jobs : item'[j].expires \in {0, item[j].expires}
  <2>1. ASSUME NEW k \in Jobs, NEW kind \in Kinds, Enqueue(k, kind), NEW j \in Jobs
        PROVE  item'[j].expires \in {0, item[j].expires}
    BY <2>1 DEF Enqueue, NoItem, TenancyInvariant, TypeOKTx, TypeOK
  <2> QED BY <2>1 DEF Refused, vars
<1>7. BlockedAtMostOneLease'
  <2> SUFFICES ASSUME NEW j \in Jobs, NEW longest \in TTLs, \A ttl \in TTLs : ttl <= longest
               PROVE  item'[j].expires <= clock + longest /\ lease[j].expires <= clock + longest
    BY DEF BlockedAtMostOneLease
  <2>1. 0 <= clock + longest
    BY <1>1, WorkQueueAssumption
  <2>2. item[j].expires <= clock + longest /\ lease[j].expires <= clock + longest
    BY DEF TenancyInvariant, BlockedAtMostOneLease
  <2> QED BY <1>6, <2>1, <2>2
<1> QED BY <1>2, <1>3, <1>5, <1>7 DEF TenancyInvariant

\* A worker at the beginning of an operation, or idle again, threatens nobody.
LEMMA FreshTransaction ==
  ASSUME TenancyInvariant, clock' = clock, NEW o \in Owners, NEW t \in Transactions,
         t.step = "lease", t.held = NoLease, t.seen <= clock, t.at <= clock,
         t.op # "none" => t.job \in Jobs,
         txn' = [txn EXCEPT ![o] = t]
  PROVE  /\ txn' \in [Owners -> Transactions]
         /\ ReadingsSound'
         /\ \A p \in Owners : txn'[p].held.status = "absent" => txn'[p].held = NoLease
         /\ \A p \in Owners : txn'[p].step = "write" => p # o /\ txn'[p] = txn[p]
<1>1. txn' \in [Owners -> Transactions]
  BY DEF TenancyInvariant, TypeOKTx
<1>2. txn'[o] = t /\ \A p \in Owners : p # o => txn'[p] = txn[p]
  BY DEF TenancyInvariant, TypeOKTx
<1>3. ReadingsSound'
  <2> SUFFICES ASSUME NEW p \in Owners
               PROVE  /\ txn'[p].seen <= clock /\ txn'[p].at <= clock
                      /\ txn'[p].op # "none" => txn'[p].job \in Jobs
                      /\ txn'[p].step = "write" => txn'[p].op # "none"
                      /\ txn'[p].step = "write" /\ txn'[p].op # "claim" =>
                           txn'[p].held.status # "absent"
    BY DEF ReadingsSound
  <2>1. CASE p = o
    BY <1>2, <2>1
  <2>2. CASE p # o
    BY <1>2, <2>2 DEF TenancyInvariant, ReadingsSound
  <2> QED BY <2>1, <2>2
<1>4. \A p \in Owners : txn'[p].held.status = "absent" => txn'[p].held = NoLease
  BY <1>2 DEF TenancyInvariant, AbsentRows
<1>5. \A p \in Owners : txn'[p].step = "write" => p # o /\ txn'[p] = txn[p]
  BY <1>2
<1> QED BY <1>1, <1>3, <1>4, <1>5

\* What the first SELECT remembers.
LEMMA FirstReading ==
  ASSUME NEW j \in Jobs, NEW op \in Reports \cup {"claim"}, item[j] \in Items, clock \in Nat
  PROVE  /\ ItemRead(op, j) \in Transactions
         /\ ItemRead(op, j).job = j /\ ItemRead(op, j).step = "lease"
         /\ ItemRead(op, j).held = NoLease
         /\ ItemRead(op, j).seen = clock /\ ItemRead(op, j).at = 0
<1>1. ItemRead(op, j) \in Transactions
  BY IdleFields DEF ItemRead, Transactions
<1> QED BY <1>1 DEF ItemRead, Idle

\* The first SELECT.
LEMMA ReadKeepsTenancy ==
  ASSUME TenancyInvariant, NEW o \in Owners, NEW kinds,
         ReadClaim(o, kinds) \/ \E j \in Jobs, op \in Reports : ReadReport(o, j, op)
  PROVE  TenancyInvariant'
<1>1. PICK j \in Jobs, op \in Reports \cup {"claim"} : txn' = [txn EXCEPT ![o] = ItemRead(op, j)]
  BY DEF ReadClaim, ReadReport
<1>2. clock \in Nat /\ item[j] \in Items
  BY WorkQueueAssumption DEF TenancyInvariant, TypeOKTx, TypeOK
<1>3. PICK t \in Transactions :
        /\ txn' = [txn EXCEPT ![o] = t]
        /\ t.job = j /\ t.step = "lease" /\ t.held = NoLease /\ t.seen = clock /\ t.at = 0
  BY <1>1, <1>2, FirstReading
<1>4. UNCHANGED <<clock, item, lease, hold, lapsed>>
  BY DEF ReadClaim, ReadReport, vars
<1>5. /\ txn' \in [Owners -> Transactions]
      /\ ReadingsSound'
      /\ \A p \in Owners : txn'[p].held.status = "absent" => txn'[p].held = NoLease
      /\ \A p \in Owners : txn'[p].step = "write" => p # o /\ txn'[p] = txn[p]
  <2>1. t.seen <= clock /\ t.at <= clock
    BY <1>2, <1>3
  <2> QED BY <1>3, <1>4, <2>1, FreshTransaction
<1>6. TypeOKTx'
  BY <1>4, <1>5 DEF TenancyInvariant, TypeOKTx, TypeOK
<1>7. AbsentRows'
  BY <1>4, <1>5 DEF TenancyInvariant, AbsentRows
<1>8. FirstLeaseStands'
  BY <1>4, <1>5 DEF TenancyInvariant, FirstLeaseStands
<1>9. BlockedAtMostOneLease'
  BY <1>4 DEF TenancyInvariant, BlockedAtMostOneLease
<1> QED BY <1>5, <1>6, <1>7, <1>8, <1>9 DEF TenancyInvariant

\* The second SELECT: a worker goes on only over a lease nobody holds, or its own.
LEMMA ReadLeaseKeepsTenancy ==
  ASSUME TenancyInvariant, NEW o \in Owners, ReadLease(o)
  PROVE  TenancyInvariant'
<1> PICK j \in Jobs : j = txn[o].job
  BY DEF TenancyInvariant, ReadingsSound, ReadLease
<1>1. clock \in Nat /\ lease[j] \in LeaseRows /\ txn[o] \in Transactions
  BY WorkQueueAssumption DEF TenancyInvariant, TypeOKTx, TypeOK
<1>2. PICK t \in Transactions :
        /\ txn' = [txn EXCEPT ![o] = t]
        /\ t.op = txn[o].op /\ t.job = j /\ t.step = "write" /\ t.held = lease[j]
        /\ t.seen = txn[o].seen /\ t.at = clock
  <2> DEFINE t == [txn[o] EXCEPT !.step = "write", !.held = lease[j], !.at = clock]
  <2>1. t \in Transactions
    BY <1>1 DEF Transactions
  <2>2. /\ t.op = txn[o].op /\ t.job = j /\ t.step = "write" /\ t.held = lease[j]
        /\ t.seen = txn[o].seen /\ t.at = clock
    BY <1>1 DEF Transactions
  <2>3. txn' = [txn EXCEPT ![o] = t]
    BY DEF ReadLease
  <2> QED BY <2>1, <2>2, <2>3
<1>4. /\ txn'[o] = t
      /\ \A p \in Owners : p # o => txn'[p] = txn[p]
  BY <1>2 DEF TenancyInvariant, TypeOKTx
<1>5. UNCHANGED <<clock, item, lease, hold, lapsed>>
  BY DEF ReadLease, vars
<1>6. TypeOKTx'
  BY <1>2, <1>5 DEF TenancyInvariant, TypeOKTx, TypeOK
<1>7. t.op # "none" /\ (t.op # "claim" => lease[j].status # "absent")
  BY <1>2 DEF ReadLease, LeasePasses, OwnsLiveLease, LeaseHeld, LeaseReleasable
<1>8. ReadingsSound'
  <2> SUFFICES ASSUME NEW p \in Owners
               PROVE  /\ txn'[p].seen <= clock /\ txn'[p].at <= clock
                      /\ txn'[p].op # "none" => txn'[p].job \in Jobs
                      /\ txn'[p].step = "write" => txn'[p].op # "none"
                      /\ txn'[p].step = "write" /\ txn'[p].op # "claim" =>
                           txn'[p].held.status # "absent"
    BY <1>5 DEF ReadingsSound
  <2>1. CASE p = o
    BY <1>1, <1>2, <1>4, <1>7, <2>1 DEF TenancyInvariant, ReadingsSound
  <2>2. CASE p # o
    BY <1>4, <2>2 DEF TenancyInvariant, ReadingsSound
  <2> QED BY <2>1, <2>2
<1>9. AbsentRows'
  BY <1>2, <1>4, <1>5 DEF TenancyInvariant, AbsentRows
<1>10. FirstLeaseStands'
  <2>1. ASSUME j \notin lapsed, lease[j].status # "absent"
        PROVE  lease[j].status = "claimed" /\ lease[j].owner = o
    <3>1. LeaseHeld(lease[j], clock)
      BY <2>1 DEF TenancyInvariant, FirstLeaseStands
    <3> QED BY <3>1 DEF LeaseHeld, ReadLease, LeasePasses, LeaseClaimable, OwnsLiveLease,
               LeaseReleasable
  <2>2. \A p \in Owners, k \in Jobs \ lapsed :
          txn'[p].step = "write" /\ txn'[p].job = k /\ txn'[p].held.status # "absent" =>
            /\ lease[k].status # "absent" /\ lease[k].owner = p
            /\ txn'[p].held.status = "claimed" /\ txn'[p].held.owner = p
    <3> SUFFICES ASSUME NEW p \in Owners, NEW k \in Jobs \ lapsed,
                        txn'[p].step = "write", txn'[p].job = k, txn'[p].held.status # "absent"
                 PROVE  /\ lease[k].status # "absent" /\ lease[k].owner = p
                        /\ txn'[p].held.status = "claimed" /\ txn'[p].held.owner = p
      OBVIOUS
    <3>1. CASE p = o
      BY <1>2, <1>4, <2>1, <3>1
    <3>2. CASE p # o
      BY <1>4, <3>2 DEF TenancyInvariant, FirstLeaseStands
    <3> QED BY <3>1, <3>2
  <2> QED BY <1>5, <2>2 DEF TenancyInvariant, FirstLeaseStands
<1>11. BlockedAtMostOneLease'
  BY <1>5 DEF TenancyInvariant, BlockedAtMostOneLease
<1> QED BY <1>6, <1>8, <1>9, <1>10, <1>11 DEF TenancyInvariant

\* An operation that gives up writes nothing; its caller may drop its claim.
LEMMA GiveUpKeepsTenancy ==
  ASSUME TenancyInvariant, NEW o \in Owners, txn[o].op # "none", GiveUp(o)
  PROVE  TenancyInvariant'
<1>1. UNCHANGED <<clock, item, lease, lapsed>> /\ txn' = [txn EXCEPT ![o] = Idle]
  BY DEF GiveUp
<1>2. /\ txn' \in [Owners -> Transactions]
      /\ ReadingsSound'
      /\ \A p \in Owners : txn'[p].held.status = "absent" => txn'[p].held = NoLease
      /\ \A p \in Owners : txn'[p].step = "write" => p # o /\ txn'[p] = txn[p]
  <2>1. clock \in Nat
    BY WorkQueueAssumption DEF TenancyInvariant, TypeOKTx, TypeOK
  <2>2. Idle.seen <= clock /\ Idle.at <= clock
    BY <2>1, IdleFields
  <2> QED BY <1>1, <2>2, IdleFields, FreshTransaction
<1>3. /\ hold' \in [Owners -> [Jobs -> Claims]]
      /\ \A p \in Owners, j \in Jobs : hold'[p][j].attempt > 0 => hold[p][j].attempt > 0
  <2>1. hold \in [Owners -> [Jobs -> Claims]] /\ NoClaim \in Claims /\ NoClaim.attempt = 0
    BY EmptyRowTypes DEF TenancyInvariant, TypeOKTx, TypeOK, NoClaim
  <2>2. CASE hold' = hold
    BY <2>1, <2>2
  <2>3. CASE hold' = [hold EXCEPT ![o][txn[o].job] = NoClaim]
    <3> PICK j \in Jobs : j = txn[o].job
      BY DEF TenancyInvariant, ReadingsSound
    <3> QED BY <2>1, <2>3
  <2> QED BY <2>2, <2>3 DEF GiveUp
<1>4. TypeOKTx'
  BY <1>1, <1>2, <1>3 DEF TenancyInvariant, TypeOKTx, TypeOK
<1>5. AbsentRows'
  BY <1>1, <1>2 DEF TenancyInvariant, AbsentRows
<1>6. FirstLeaseStands'
  BY <1>1, <1>2, <1>3 DEF TenancyInvariant, FirstLeaseStands
<1>7. BlockedAtMostOneLease'
  BY <1>1 DEF TenancyInvariant, BlockedAtMostOneLease
<1> QED BY <1>2, <1>4, <1>5, <1>6, <1>7 DEF TenancyInvariant

\* What a claim or a heartbeat writes into the lease: the writer's, and either
\* due by its expiry or as far as it was already.
LEMMA LeaseWrite ==
  ASSUME TenancyInvariant, NEW o \in Owners, NEW j \in Jobs, NEW expires \in Nat \ {0},
         txn[o].job = j, txn[o].step = "write",
         txn[o].held.status = "absent" => lease[j].status = "absent"
  PROVE  LET w == Written(lease[j], txn[o].held, LeaseClaimed(o, expires))
         IN  /\ w \in LeaseRows /\ w.status # "absent"
             /\ w.expires \in {expires, lease[j].expires}
             /\ j \notin lapsed =>
                  /\ w.status = "claimed" /\ w.owner = o
                  /\ lease[j].status # "absent" => lease[j].owner = o
             /\ j \notin lapsed /\ expires > clock => w.expires > clock
<1> DEFINE h == txn[o].held
           w == Written(lease[j], h, LeaseClaimed(o, expires))
<1>1. h \in LeaseRows /\ lease[j] \in LeaseRows /\ LeaseClaimed(o, expires) \in LeaseRows
  BY TransactionFields DEF TenancyInvariant, TypeOKTx, TypeOK, LeaseClaimed, LeaseRows, LeaseStatus
<1>2. /\ LeaseClaimed(o, expires).status = "claimed" /\ LeaseClaimed(o, expires).owner = o
      /\ LeaseClaimed(o, expires).expires = expires
  BY DEF LeaseClaimed
<1>3. /\ w \in LeaseRows
      /\ w.status = IF "claimed" # h.status THEN "claimed" ELSE lease[j].status
      /\ w.owner = IF o # h.owner THEN o ELSE lease[j].owner
      /\ w.expires = IF expires # h.expires THEN expires ELSE lease[j].expires
  BY <1>1, <1>2, WrittenLease
<1> HIDE DEF w
<1>4. w.expires \in {expires, lease[j].expires}
  BY <1>3
<1>5. CASE h.status = "absent"
  <2>1. h.owner = NoOwner /\ h.expires = 0
    BY <1>5 DEF TenancyInvariant, AbsentRows, NoLease
  <2>2. w.status = "claimed" /\ w.owner = o /\ w.expires = expires
    BY <1>3, <1>5, <2>1, NoOwnerAssumption
  <2> QED BY <1>3, <1>5, <2>2 DEF w
<1>6. CASE h.status # "absent"
  <2>1. w.status # "absent"
    <3>1. lease[j].status # "absent"
      BY <1>6 DEF TenancyInvariant, AbsentRows
    <3> QED BY <1>3, <3>1
  <2>2. ASSUME j \notin lapsed
        PROVE  /\ w.status = "claimed" /\ w.owner = o /\ lease[j].owner = o
               /\ expires > clock => w.expires > clock
    <3>1. /\ lease[j].status = "claimed" /\ lease[j].owner = o /\ lease[j].expires > clock
          /\ h.status = "claimed"
      BY <1>6, <2>2 DEF TenancyInvariant, FirstLeaseStands, LeaseHeld
    <3> QED BY <1>3, <3>1
  <2> QED BY <1>3, <1>4, <2>1, <2>2 DEF w
<1> QED BY <1>5, <1>6

\* The commit of owner o on job j: the lease row l, the item r and the claim h
\* of its caller, the lease its own or the tenancy over.
Commit(o, j, l, r, h) ==
  /\ lease' = [lease EXCEPT ![j] = l]
  /\ item' = [item EXCEPT ![j] = r]
  /\ hold' = [hold EXCEPT ![o][j] = h]
  /\ txn' = [txn EXCEPT ![o] = Idle]
  /\ clock' = clock
  /\ lapsed \subseteq lapsed' /\ lapsed' \subseteq Jobs
  /\ l.status # "absent"
  /\ j \notin lapsed' =>
       /\ l.status = "claimed" /\ l.owner = o /\ l.expires > clock
       /\ lease[j].status # "absent" => lease[j].owner = o

\* What a commit has to promise of its expiries.
BoundedRows(l, r) ==
  \A longest \in TTLs : (\A ttl \in TTLs : ttl <= longest) =>
    l.expires <= clock + longest /\ r.expires <= clock + longest

\* A commit that keeps its promises keeps the invariant.
LEMMA CommitKeepsTenancy ==
  ASSUME TenancyInvariant, NEW o \in Owners, NEW j \in Jobs, NEW l \in LeaseRows,
         NEW r \in Items, NEW h \in Claims, Commit(o, j, l, r, h), BoundedRows(l, r)
  PROVE  TenancyInvariant'
<1> USE DEF Commit
<1>1. /\ txn' \in [Owners -> Transactions]
      /\ ReadingsSound'
      /\ \A p \in Owners : txn'[p].held.status = "absent" => txn'[p].held = NoLease
      /\ \A p \in Owners : txn'[p].step = "write" => p # o /\ txn'[p] = txn[p]
  <2>1. clock \in Nat
    BY WorkQueueAssumption DEF TenancyInvariant, TypeOKTx, TypeOK
  <2>2. Idle.seen <= clock /\ Idle.at <= clock
    BY <2>1, IdleFields
  <2> QED BY <2>2, IdleFields, FreshTransaction
<1>2. /\ lease'[j] = l /\ \A k \in Jobs : k # j => lease'[k] = lease[k]
      /\ item'[j] = r /\ \A k \in Jobs : k # j => item'[k] = item[k]
  BY DEF TenancyInvariant, TypeOKTx, TypeOK
<1>3. \A p \in Owners, k \in Jobs : p # o \/ k # j => hold'[p][k] = hold[p][k]
  BY DEF TenancyInvariant, TypeOKTx, TypeOK
<1>4. TypeOKTx'
  BY <1>1 DEF TenancyInvariant, TypeOKTx, TypeOK
<1>5. AbsentRows'
  BY <1>1, <1>2 DEF TenancyInvariant, AbsentRows
<1>6. FirstLeaseStands'
  <2>1. ASSUME NEW k \in Jobs \ lapsed', k # j
        PROVE  /\ lease'[k].status # "absent" => LeaseHeld(lease'[k], clock)
               /\ \A p \in Owners : hold'[p][k].attempt > 0 =>
                    lease'[k].status # "absent" /\ lease'[k].owner = p
               /\ \A p \in Owners :
                    txn'[p].step = "write" /\ txn'[p].job = k /\ txn'[p].held.status # "absent" =>
                      /\ lease'[k].status # "absent" /\ lease'[k].owner = p
                      /\ txn'[p].held.status = "claimed" /\ txn'[p].held.owner = p
    BY <1>1, <1>2, <1>3, <2>1 DEF TenancyInvariant, FirstLeaseStands
  <2>2. ASSUME j \notin lapsed'
        PROVE  /\ LeaseHeld(lease'[j], clock)
               /\ \A p \in Owners : hold'[p][j].attempt > 0 => lease'[j].owner = p
               /\ \A p \in Owners :
                    ~ (txn'[p].step = "write" /\ txn'[p].job = j /\ txn'[p].held.status # "absent")
    <3>1. LeaseHeld(lease'[j], clock) /\ lease'[j].owner = o
      BY <1>2, <2>2 DEF LeaseHeld
    <3>2. \A p \in Owners \ {o} : ~ (hold[p][j].attempt > 0)
      BY <2>2 DEF TenancyInvariant, FirstLeaseStands
    <3>3. \A p \in Owners \ {o} :
            ~ (txn[p].step = "write" /\ txn[p].job = j /\ txn[p].held.status # "absent")
      BY <2>2 DEF TenancyInvariant, FirstLeaseStands
    <3> QED BY <1>1, <1>3, <3>1, <3>2, <3>3
  <2> QED BY <1>2, <2>1, <2>2 DEF FirstLeaseStands
<1>7. BlockedAtMostOneLease'
  BY <1>2 DEF TenancyInvariant, BlockedAtMostOneLease, BoundedRows
<1> QED BY <1>1, <1>4, <1>5, <1>6, <1>7 DEF TenancyInvariant

\* A claim or heartbeat due at a reading of the clock plus a lease time.
LEMMA ExpiresInTime ==
  ASSUME TenancyInvariant, NEW at \in Nat, at <= clock, NEW ttl \in TTLs
  PROVE  /\ at + ttl \in Nat \ {0}
         /\ \A longest \in TTLs : (\A t \in TTLs : t <= longest) => at + ttl <= clock + longest
<1>1. clock \in Nat /\ TTLs \subseteq Nat \ {0}
  BY WorkQueueAssumption DEF TenancyInvariant, TypeOKTx, TypeOK
<1>2. ttl \in Nat \ {0} /\ at + ttl \in Nat \ {0}
  BY <1>1
<1>3. ASSUME NEW longest \in TTLs, \A t \in TTLs : t <= longest PROVE at + ttl <= clock + longest
  <2>1. longest \in Nat /\ ttl <= longest
    BY <1>1, <1>3
  <2> QED BY <1>1, <1>2, <2>1
<1> QED BY <1>2, <1>3

\* The row a claim computes.
LEMMA ClaimedRow ==
  ASSUME NEW t \in Transactions, NEW o \in Owners, NEW expires \in Nat
  PROVE  /\ RowClaimed(t, o, expires) \in Items
         /\ RowClaimed(t, o, expires).expires = expires
<1>1. t.row \in Items /\ t.held \in LeaseRows /\ t.at \in Nat
  BY DEF Transactions
<1>2. ClaimedAttempt(t.row, t.held, t.at) \in Nat
  <2>1. t.row.attempt \in Nat
    BY <1>1 DEF Items
  <2>2. ClaimedAttempt(t.row, t.held, t.at) \in {t.row.attempt, t.row.attempt + 1}
    BY ZenonT(20) DEF ClaimedAttempt
  <2> QED BY <2>1, <2>2
<1> QED BY <1>1, <1>2 DEF RowClaimed, Items, ItemStatus

\* The row a heartbeat computes.
LEMMA ExtendedRow ==
  ASSUME NEW t \in Transactions, NEW expires \in Nat
  PROVE  RowExtended(t, expires) \in Items /\ RowExtended(t, expires).expires = expires
<1>1. t.row \in Items
  BY DEF Transactions
<1> QED BY <1>1 DEF RowExtended, Items

\* The write of a claim.
LEMMA WriteClaimKeepsTenancy ==
  ASSUME TenancyInvariant, NEW o \in Owners, NEW ttl \in TTLs, WriteClaim(o, ttl)
  PROVE  TenancyInvariant'
<1> PICK t \in Transactions : t = txn[o]
  BY TransactionFields DEF TenancyInvariant
<1> PICK j \in Jobs : j = t.job
  BY DEF TenancyInvariant, ReadingsSound, WriteClaim
<1> PICK expires : expires = t.at + ttl
  OBVIOUS
<1> PICK attempt : attempt = ClaimedAttempt(t.row, t.held, t.at)
  OBVIOUS
<1> PICK row : row = RowClaimed(t, o, expires)
  OBVIOUS
<1>1. /\ t.row \in Items /\ t.held \in LeaseRows /\ t.at \in Nat /\ t.at <= clock
      /\ item[j] \in Items /\ lease[j] \in LeaseRows /\ clock \in Nat
  BY TransactionFields DEF TenancyInvariant, TypeOKTx, TypeOK
<1>2. /\ expires \in Nat \ {0}
      /\ \A longest \in TTLs : (\A ttl_ \in TTLs : ttl_ <= longest) => expires <= clock + longest
  BY <1>1, ExpiresInTime
<1>3. attempt \in Nat
  BY <1>1, RowTypes
<1>4. row \in Items /\ row.expires = expires
  BY <1>2, ClaimedRow
<1>5. PICK r \in Items : /\ r = Written(item[j], t.row, row)
                         /\ r.expires \in {expires, item[j].expires}
  BY <1>1, <1>4, WrittenItem
<1>6. PICK l \in LeaseRows :
        /\ l = Written(lease[j], t.held, LeaseClaimed(o, expires))
        /\ l.status # "absent" /\ l.expires \in {expires, lease[j].expires}
        /\ j \notin lapsed =>
             /\ l.status = "claimed" /\ l.owner = o
             /\ lease[j].status # "absent" => lease[j].owner = o
        /\ j \notin lapsed /\ expires > clock => l.expires > clock
  <2>1. t.step = "write" /\ (t.held.status = "absent" => lease[j].status = "absent")
    BY DEF WriteClaim, MayWriteLease
  <2> QED BY <1>1, <1>2, <2>1, LeaseWrite
<1>7. /\ lease' = [lease EXCEPT ![j] = l]
      /\ item' = [item EXCEPT ![j] = r]
      /\ hold' = [hold EXCEPT ![o][j] = [attempt |-> attempt, expires |-> expires]]
      /\ txn' = [txn EXCEPT ![o] = Idle]
      /\ lapsed' = lapsed \cup LapsedNow(j, expires) /\ clock' = clock
  BY <1>1, <1>5, <1>6 DEF WriteClaim, TenancyInvariant, TypeOKTx, TypeOK
<1>8. /\ lapsed \subseteq lapsed' /\ lapsed' \subseteq Jobs
      /\ j \notin lapsed' => j \notin lapsed /\ expires > clock
  BY <1>1, <1>2, <1>7 DEF LapsedNow, TenancyInvariant, TypeOKTx
<1>9. \A longest \in TTLs : (\A ttl_ \in TTLs : ttl_ <= longest) =>
        l.expires <= clock + longest /\ r.expires <= clock + longest
  BY <1>2, <1>5, <1>6 DEF TenancyInvariant, BlockedAtMostOneLease
<1>10. PICK h \in Claims : h = [attempt |-> attempt, expires |-> expires]
  BY <1>2, <1>3 DEF Claims
<1>11. hold' = [hold EXCEPT ![o][j] = h]
  BY <1>7, <1>10
<1>12. j \notin lapsed' =>
         /\ l.status = "claimed" /\ l.owner = o /\ l.expires > clock
         /\ lease[j].status # "absent" => lease[j].owner = o
  BY <1>6, <1>8
<1>13. Commit(o, j, l, r, h)
  BY <1>6, <1>7, <1>8, <1>11, <1>12 DEF Commit
<1>14. BoundedRows(l, r)
  BY <1>9 DEF BoundedRows
<1> QED BY <1>13, <1>14, CommitKeepsTenancy

\* The write of a heartbeat.
LEMMA WriteHeartbeatKeepsTenancy ==
  ASSUME TenancyInvariant, NEW o \in Owners, NEW ttl \in TTLs, WriteHeartbeat(o, ttl)
  PROVE  TenancyInvariant'
<1> PICK t \in Transactions : t = txn[o]
  BY TransactionFields DEF TenancyInvariant
<1> PICK j \in Jobs : j = t.job
  BY DEF TenancyInvariant, ReadingsSound, WriteHeartbeat
<1> PICK expires : expires = t.at + ttl
  OBVIOUS
<1>1. /\ t.row \in Items /\ t.held \in LeaseRows /\ t.at \in Nat /\ t.at <= clock
      /\ item[j] \in Items /\ lease[j] \in LeaseRows /\ clock \in Nat
  BY TransactionFields DEF TenancyInvariant, TypeOKTx, TypeOK
<1>2. /\ expires \in Nat \ {0}
      /\ \A longest \in TTLs : (\A ttl_ \in TTLs : ttl_ <= longest) => expires <= clock + longest
  BY <1>1, ExpiresInTime
<1>3. PICK row \in Items : row = RowExtended(t, expires) /\ row.expires = expires
  BY <1>2, ExtendedRow
<1>4. PICK r \in Items : /\ r = Written(item[j], t.row, row)
                         /\ r.expires \in {expires, item[j].expires}
  BY <1>1, <1>3, WrittenItem
<1>5. PICK l \in LeaseRows :
        /\ l = Written(lease[j], t.held, LeaseClaimed(o, expires))
        /\ l.status # "absent" /\ l.expires \in {expires, lease[j].expires}
        /\ j \notin lapsed =>
             /\ l.status = "claimed" /\ l.owner = o
             /\ lease[j].status # "absent" => lease[j].owner = o
        /\ j \notin lapsed /\ expires > clock => l.expires > clock
  <2>1. t.step = "write" /\ t.held.status # "absent"
    BY DEF WriteHeartbeat, TenancyInvariant, ReadingsSound
  <2> QED BY <1>1, <1>2, <2>1, LeaseWrite
<1>6. /\ lease' = [lease EXCEPT ![j] = l]
      /\ item' = [item EXCEPT ![j] = r]
      /\ hold' = [hold EXCEPT ![o][j] = [attempt |-> t.row.attempt, expires |-> expires]]
      /\ txn' = [txn EXCEPT ![o] = Idle]
      /\ lapsed' = lapsed \cup LapsedNow(j, expires) /\ clock' = clock
  BY <1>1, <1>3, <1>4, <1>5 DEF WriteHeartbeat, Extended, TenancyInvariant, TypeOKTx, TypeOK
<1>7. /\ lapsed \subseteq lapsed' /\ lapsed' \subseteq Jobs
      /\ j \notin lapsed' => j \notin lapsed /\ expires > clock
  BY <1>1, <1>2, <1>6 DEF LapsedNow, TenancyInvariant, TypeOKTx
<1>8. \A longest \in TTLs : (\A ttl_ \in TTLs : ttl_ <= longest) =>
        l.expires <= clock + longest /\ r.expires <= clock + longest
  BY <1>2, <1>4, <1>5 DEF TenancyInvariant, BlockedAtMostOneLease
<1>9. PICK h \in Claims : h = [attempt |-> t.row.attempt, expires |-> expires]
  BY <1>1, <1>2 DEF Claims, Items
<1>10. hold' = [hold EXCEPT ![o][j] = h]
  BY <1>6, <1>9
<1>11. j \notin lapsed' =>
         /\ l.status = "claimed" /\ l.owner = o /\ l.expires > clock
         /\ lease[j].status # "absent" => lease[j].owner = o
  BY <1>5, <1>7
<1>12. Commit(o, j, l, r, h)
  BY <1>5, <1>6, <1>7, <1>10, <1>11 DEF Commit
<1>13. BoundedRows(l, r)
  BY <1>8 DEF BoundedRows
<1> QED BY <1>12, <1>13, CommitKeepsTenancy

\* The row a report computes: any expiry it sets has passed.
LEMMA ReportedRow ==
  ASSUME NEW t \in Transactions, t.op \in {"complete", "fail", "retry"}, NEW delay \in RetryDelays
  PROVE  RowReported(t, delay) \in Items /\ RowReported(t, delay).expires \in {0, t.seen}
<1>1. t.row \in Items /\ t.seen \in Nat /\ t.seen + delay \in Nat
  BY WorkQueueAssumption DEF Transactions
<1>2. /\ \A s \in ItemStatus : /\ Resolved(t.row, s, t.seen) \in Items
                                /\ Resolved(t.row, s, t.seen).expires = t.seen
  BY <1>1 DEF Resolved, Items
<1>3. /\ Rescheduled(t.row, t.seen + delay) \in Items
      /\ Rescheduled(t.row, t.seen + delay).expires = 0
  BY <1>1 DEF Rescheduled, Items, ItemStatus
<1>4. "completed" \in ItemStatus /\ "failed" \in ItemStatus
  BY DEF ItemStatus
<1> HIDE DEF Resolved, Rescheduled
<1>5. CASE t.op = "complete"
  BY <1>2, <1>4, <1>5 DEF RowReported
<1>6. CASE t.op = "fail"
  BY <1>2, <1>4, <1>6 DEF RowReported
<1>7. CASE t.op = "retry"
  BY <1>3, <1>7 DEF RowReported
<1> QED BY <1>5, <1>6, <1>7

\* The write of a report.
LEMMA WriteReportKeepsTenancy ==
  ASSUME TenancyInvariant, NEW o \in Owners, NEW delay \in RetryDelays, WriteReport(o, delay)
  PROVE  TenancyInvariant'
<1> PICK t \in Transactions : t = txn[o]
  BY TransactionFields DEF TenancyInvariant
<1> PICK j \in Jobs : j = t.job
  BY DEF TenancyInvariant, ReadingsSound, WriteReport
<1>1. /\ t.row \in Items /\ t.held \in LeaseRows /\ t.at \in Nat /\ t.at <= clock
      /\ t.seen \in Nat /\ t.seen <= clock
      /\ item[j] \in Items /\ lease[j] \in LeaseRows /\ clock \in Nat
  BY TransactionFields DEF TenancyInvariant, TypeOKTx, TypeOK
<1>2. PICK row \in Items : row = RowReported(t, delay) /\ row.expires \in {0, t.seen}
  BY ReportedRow DEF WriteReport
<1>3. PICK r \in Items : /\ r = Written(item[j], t.row, row)
                         /\ r.expires \in {0, t.seen, item[j].expires}
  BY <1>1, <1>2, WrittenItem
<1>4. PICK released \in LeaseRows :
        /\ released = LeaseReleased(t.held, t.at)
        /\ released.status = "released" /\ released.expires = t.at
  <2> DEFINE released == LeaseReleased(t.held, t.at)
  <2>1. released \in LeaseRows
    BY <1>1 DEF LeaseReleased, LeaseRows, LeaseStatus
  <2>2. released.status = "released" /\ released.expires = t.at
    BY <1>1 DEF LeaseReleased, LeaseRows
  <2> QED BY <2>1, <2>2
<1>5. PICK l \in LeaseRows :
        /\ l = Written(lease[j], t.held, released)
        /\ l.status \in {"released", lease[j].status} /\ l.expires \in {t.at, lease[j].expires}
  BY <1>1, <1>4, WrittenLease
<1>6. lease[j].status # "absent"
  BY DEF WriteReport, TenancyInvariant, ReadingsSound, AbsentRows
<1>7. /\ lease' = [lease EXCEPT ![j] = l]
      /\ item' = [item EXCEPT ![j] = r]
      /\ hold' = [hold EXCEPT ![o][j] = NoClaim]
      /\ txn' = [txn EXCEPT ![o] = Idle]
      /\ lapsed' = lapsed \cup {j} /\ clock' = clock
  BY <1>1, <1>2, <1>3, <1>4, <1>5 DEF WriteReport, TenancyInvariant, TypeOKTx, TypeOK
<1>8. lapsed \subseteq lapsed' /\ lapsed' \subseteq Jobs /\ j \in lapsed'
  BY <1>7 DEF TenancyInvariant, TypeOKTx
<1>9. \A longest \in TTLs : (\A ttl \in TTLs : ttl <= longest) =>
        l.expires <= clock + longest /\ r.expires <= clock + longest
  <2> SUFFICES ASSUME NEW longest \in TTLs, \A ttl \in TTLs : ttl <= longest
               PROVE  l.expires <= clock + longest /\ r.expires <= clock + longest
    OBVIOUS
  <2>1. t.at <= clock + longest /\ t.seen <= clock + longest /\ 0 <= clock + longest
    BY <1>1, WorkQueueAssumption
  <2>2. item[j].expires <= clock + longest /\ lease[j].expires <= clock + longest
    BY DEF TenancyInvariant, BlockedAtMostOneLease
  <2> QED BY <1>3, <1>5, <2>1, <2>2
<1>10. NoClaim \in Claims /\ l.status # "absent"
  BY <1>5, <1>6, EmptyRowTypes
<1>11. Commit(o, j, l, r, NoClaim) /\ BoundedRows(l, r)
  BY <1>7, <1>8, <1>9, <1>10 DEF Commit, BoundedRows
<1> QED BY <1>10, <1>11, CommitKeepsTenancy

\* The invariant holds at the start and every step keeps it.
LEMMA TenancyInvariantHolds == SpecTx => []TenancyInvariant
<1>1. InitTx => TenancyInvariant
  <2> SUFFICES ASSUME InitTx PROVE TenancyInvariant
    OBVIOUS
  <2>1. TypeOKTx
    BY TypeInit, IdleFields DEF InitTx, TypeOKTx
  <2>2. ReadingsSound
    <3>1. clock = 0 /\ \A o \in Owners : txn[o] = Idle
      BY DEF InitTx, Init
    <3>2. \A o \in Owners : /\ txn[o].seen = 0 /\ txn[o].at = 0
                            /\ txn[o].op = "none" /\ txn[o].step = "lease"
      BY <3>1, IdleFields
    <3>3. 0 <= 0
      OBVIOUS
    <3> QED BY <3>1, <3>2, <3>3 DEF ReadingsSound
  <2>3. /\ \A j \in Jobs : lease[j] = NoLease
        /\ \A o \in Owners : txn[o] = Idle
        /\ \A o \in Owners, j \in Jobs : hold[o][j] = NoClaim
    BY DEF InitTx, Init
  <2>4. AbsentRows
    BY <2>3, IdleFields DEF AbsentRows
  <2>5. FirstLeaseStands
    <3>1. NoClaim.attempt = 0
      BY DEF NoClaim
    <3> QED BY <2>3, <3>1, IdleFields DEF FirstLeaseStands
  <2>6. BlockedAtMostOneLease
    <3>1. clock = 0 /\ \A j \in Jobs : item[j].expires = 0 /\ lease[j].expires = 0
      BY DEF InitTx, Init, NoItem, NoLease
    <3> QED BY <3>1, WorkQueueAssumption DEF BlockedAtMostOneLease
  <2> QED BY <2>1, <2>2, <2>4, <2>5, <2>6 DEF TenancyInvariant
<1>2. TenancyInvariant /\ [NextTx]_varsTx => TenancyInvariant'
  <2> SUFFICES ASSUME TenancyInvariant, [NextTx]_varsTx PROVE TenancyInvariant'
    OBVIOUS
  <2>1. CASE TickTx
    BY <2>1, TickKeepsTenancy
  <2>2. CASE \/ \E j \in Jobs, kind \in Kinds : EnqueueTx(j, kind)
             \/ \E o \in Owners, j \in Jobs : RefusedTx(o, j)
             \/ UNCHANGED varsTx
    <3>1. UNCHANGED <<clock, lease, txn, lapsed>>
      BY <2>2 DEF EnqueueTx, Enqueue, RefusedTx, Refused, varsTx, vars
    <3> QED BY <2>2, <3>1, QueueStepKeepsTenancy DEF EnqueueTx, RefusedTx, varsTx
  <2>3. ASSUME NEW o \in Owners, NEW kinds,
               ReadClaim(o, kinds) \/ \E j \in Jobs, op \in Reports : ReadReport(o, j, op)
        PROVE  TenancyInvariant'
    BY <2>3, ReadKeepsTenancy
  <2>4. ASSUME NEW o \in Owners, ReadLease(o) PROVE TenancyInvariant'
    BY <2>4, ReadLeaseKeepsTenancy
  <2>5. ASSUME NEW o \in Owners, LeaseConflict(o) \/ DatabaseLocked(o) \/ InsertConflict(o)
        PROVE  TenancyInvariant'
    <3>1. GiveUp(o) /\ txn[o].op # "none"
      BY <2>5 DEF LeaseConflict, DatabaseLocked, InsertConflict, TenancyInvariant, ReadingsSound
    <3> QED BY <3>1, GiveUpKeepsTenancy
  <2>6. ASSUME NEW o \in Owners, NEW ttl \in TTLs, WriteClaim(o, ttl) \/ WriteHeartbeat(o, ttl)
        PROVE  TenancyInvariant'
    BY <2>6, WriteClaimKeepsTenancy, WriteHeartbeatKeepsTenancy
  <2>7. ASSUME NEW o \in Owners, NEW delay \in RetryDelays, WriteReport(o, delay)
        PROVE  TenancyInvariant'
    BY <2>7, WriteReportKeepsTenancy
  <2> QED BY <2>1, <2>2, <2>3, <2>4, <2>5, <2>6, <2>7 DEF NextTx
<1> QED BY <1>1, <1>2, PTL DEF SpecTx

\* Until a lease of the job has run out or been released, one worker at most
\* has a claim on it, however the statements of the workers interleave.
THEOREM FirstTenancyIsExclusive == SpecTx => []FirstTenancyExclusive
<1>1. TenancyInvariant => FirstTenancyExclusive
  BY DEF TenancyInvariant, FirstLeaseStands, FirstTenancyExclusive
<1> QED BY <1>1, TenancyInvariantHolds, PTL

\* However the statements interleave, neither table promises a job to anybody
\* for longer than one lease from now.
THEOREM StaleWritesBlockBriefly == SpecTx => []BlockedAtMostOneLease
<1>1. TenancyInvariant => BlockedAtMostOneLease
  BY DEF TenancyInvariant
<1> QED BY <1>1, TenancyInvariantHolds, PTL

=============================================================================
