----------------------------- MODULE WorkQueueTx -----------------------------
(***************************************************************************)
(* The queue operations as separate worker processes run them on one       *)
(* SQLite file.  The engine of app/store.py uses the driver's default      *)
(* transactions: BEGIN is sent before the first INSERT or UPDATE, so the   *)
(* SELECTs of an operation are statements of their own, and only its       *)
(* writes are atomic.  The ORM's UPDATE names the row by primary key and   *)
(* sets the columns that differ from what was read: it does not check that *)
(* the row is still what was read.                                         *)
(*                                                                         *)
(* Each operation is three steps: read the item, read its lease, write     *)
(* both.  txn[o] is what o has read so far.  A worker that stops between   *)
(* steps has crashed: nothing it has not committed is seen by others.      *)
(***************************************************************************)
EXTENDS WorkQueue

VARIABLES txn,      \* the operation each worker is in
          lapsed    \* history: jobs some lease of which has run out or been released

varsTx == <<vars, txn, lapsed>>

Reports == {"heartbeat", "complete", "fail", "retry"}

\* seen and at are the readings of utcnow() that go with row and with held.
Transactions == [op : Reports \cup {"none", "claim"}, step : {"lease", "write"},
                 job : Jobs \cup {0}, row : Items, held : LeaseRows,
                 seen : Nat, at : Nat]

Idle == [op |-> "none", step |-> "lease", job |-> 0, row |-> NoItem, held |-> NoLease,
         seen |-> 0, at |-> 0]

\* An UPDATE of the columns in which new differs from old.
Written(current, old, new) ==
  [f \in DOMAIN current |-> IF new[f] # old[f] THEN new[f] ELSE current[f]]

\* A write that comes so late that the expiry it sets has passed.
LapsedNow(j, expires) == IF expires <= clock THEN {j} ELSE {}

------------------------------------------------------------------------------

InitTx ==
  /\ Init
  /\ txn = [o \in Owners |-> Idle]
  /\ lapsed = {}

TickTx ==
  /\ Tick
  /\ lapsed' = lapsed \cup {j \in Jobs : LeaseReclaimed(lease[j], clock + 1)}
  /\ UNCHANGED txn

EnqueueTx(j, kind) == Enqueue(j, kind) /\ UNCHANGED <<txn, lapsed>>

\* An operation that has read the item and the time, and nothing else.
ItemRead(op, j) == [Idle EXCEPT !.op = op, !.job = j, !.row = item[j], !.seen = clock]

\* claim() up to the row _select_row picks.
ReadClaim(o, kinds) ==
  \E j \in Jobs :
    /\ txn[o].op = "none"
    /\ FirstAvailable(j, kinds)
    /\ txn' = [txn EXCEPT ![o] = ItemRead("claim", j)]
    /\ UNCHANGED <<vars, lapsed>>

\* heartbeat(), complete() and fail() up to the guards on the item.
ReadReport(o, j, op) ==
  /\ txn[o].op = "none"
  /\ hold[o][j].attempt > 0
  /\ OwnsLiveItem(item[j], o, clock)
  /\ txn' = [txn EXCEPT ![o] = ItemRead(op, j)]
  /\ UNCHANGED <<vars, lapsed>>

\* The second SELECT and the checks that follow it.
LeasePasses(o) ==
  LET l == lease[txn[o].job]
  IN  CASE txn[o].op = "claim"     -> LeaseClaimable(l, o, clock)
        [] txn[o].op = "heartbeat" -> OwnsLiveLease(l, o, clock)
        [] OTHER                   -> LeaseReleasable(l, o)

ReadLease(o) ==
  /\ txn[o].op # "none" /\ txn[o].step = "lease"
  /\ LeasePasses(o)
  /\ txn' = [txn EXCEPT ![o].step = "write", ![o].held = lease[txn[o].job], ![o].at = clock]
  /\ UNCHANGED <<vars, lapsed>>

\* Giving up: the caller of a report drops its claim, a claimer just polls again.
GiveUp(o) ==
  /\ hold' = IF txn[o].op = "claim" THEN hold ELSE [hold EXCEPT ![o][txn[o].job] = NoClaim]
  /\ txn' = [txn EXCEPT ![o] = Idle]
  /\ UNCHANGED <<clock, item, lease, lapsed>>

LeaseConflict(o) ==
  /\ txn[o].op # "none" /\ txn[o].step = "lease"
  /\ ~LeasePasses(o)
  /\ GiveUp(o)

\* OperationalError: the write lock was not free within the busy timeout.
DatabaseLocked(o) == txn[o].step = "write" /\ GiveUp(o)

\* Faulty: a first claim that overwrites the row another worker inserted.
MayInsertOver(j, t) == TRUE

\* The INSERT of a first claim fails on uq_worker_lease_scope if somebody else
\* inserted the row since; an UPDATE never fails.
MayWriteLease(j, t) == t.held.status = "absent" => lease[j].status = "absent"

RowClaimed(t, o, expires) ==
  [t.row EXCEPT !.status = "claimed", !.owner = o, !.leased = TRUE, !.expires = expires,
                !.attempt = ClaimedAttempt(t.row, t.held, t.at)]

WriteClaim(o, ttl) ==
  LET t == txn[o]
      j == t.job
      expires == t.at + ttl
      attempt == ClaimedAttempt(t.row, t.held, t.at)
  IN  /\ t.op = "claim" /\ t.step = "write"
      /\ MayWriteLease(j, t)
      /\ attempt <= MaxAttempt
      /\ lease' = [lease EXCEPT ![j] = Written(@, t.held, LeaseClaimed(o, expires))]
      /\ item' = [item EXCEPT ![j] = Written(@, t.row, RowClaimed(t, o, expires))]
      /\ hold' = [hold EXCEPT ![o][j] = [attempt |-> attempt, expires |-> expires]]
      /\ txn' = [txn EXCEPT ![o] = Idle]
      /\ lapsed' = lapsed \cup LapsedNow(j, expires)
      /\ UNCHANGED clock

InsertConflict(o) ==
  /\ txn[o].op = "claim" /\ txn[o].step = "write"
  /\ ~MayWriteLease(txn[o].job, txn[o])
  /\ GiveUp(o)

\* Faulty: a heartbeat that adds to the expiry it read.
ExtendedFromRow(t, ttl) == t.row.expires + ttl

Extended(t, ttl) == t.at + ttl

RowExtended(t, expires) == [t.row EXCEPT !.expires = expires]

WriteHeartbeat(o, ttl) ==
  LET t == txn[o]
      j == t.job
      expires == Extended(t, ttl)
  IN  /\ t.op = "heartbeat" /\ t.step = "write"
      /\ lease' = [lease EXCEPT ![j] = Written(@, t.held, LeaseClaimed(o, expires))]
      /\ item' = [item EXCEPT ![j] = Written(@, t.row, RowExtended(t, expires))]
      /\ hold' = [hold EXCEPT ![o][j] = [attempt |-> t.row.attempt, expires |-> expires]]
      /\ txn' = [txn EXCEPT ![o] = Idle]
      /\ lapsed' = lapsed \cup LapsedNow(j, expires)
      /\ UNCHANGED clock

RowReported(t, delay) ==
  CASE t.op = "complete" -> Resolved(t.row, "completed", t.seen)
    [] t.op = "fail"     -> Resolved(t.row, "failed", t.seen)
    [] OTHER             -> Rescheduled(t.row, t.seen + delay)

WriteReport(o, delay) ==
  LET t == txn[o]
      j == t.job
  IN  /\ t.op \in {"complete", "fail", "retry"} /\ t.step = "write"
      /\ lease' = [lease EXCEPT ![j] = Written(@, t.held, LeaseReleased(t.held, t.at))]
      /\ item' = [item EXCEPT ![j] = Written(@, t.row, RowReported(t, delay))]
      /\ hold' = [hold EXCEPT ![o][j] = NoClaim]
      /\ txn' = [txn EXCEPT ![o] = Idle]
      /\ lapsed' = lapsed \cup {j}
      /\ UNCHANGED clock

RefusedTx(o, j) == txn[o].op = "none" /\ Refused(o, j) /\ UNCHANGED <<txn, lapsed>>

NextTx ==
  \/ TickTx
  \/ \E j \in Jobs, kind \in Kinds : EnqueueTx(j, kind)
  \/ \E o \in Owners :
       \/ \E kinds \in SUBSET Kinds \ {{}} : ReadClaim(o, kinds)
       \/ \E j \in Jobs : RefusedTx(o, j) \/ \E op \in Reports : ReadReport(o, j, op)
       \/ ReadLease(o) \/ LeaseConflict(o) \/ DatabaseLocked(o) \/ InsertConflict(o)
       \/ \E ttl \in TTLs : WriteClaim(o, ttl) \/ WriteHeartbeat(o, ttl)
       \/ \E delay \in RetryDelays : WriteReport(o, delay)

SpecTx == InitTx /\ [][NextTx]_varsTx

------------------------------------------------------------------------------
(* Properties *)

\* Types of the tables and of what the workers have read.
TypeOKTx ==
  /\ TypeOK
  /\ txn \in [Owners -> Transactions]
  /\ lapsed \in SUBSET Jobs

\* What the unique constraint on worker_leases does buy: until a lease of the
\* job has run out or been released once, at most one worker has a claim on it,
\* whatever the interleaving of reads and writes.
FirstTenancyExclusive ==
  \A j \in Jobs \ lapsed : \A o, p \in Owners :
    hold[o][j].attempt > 0 /\ hold[p][j].attempt > 0 => o = p

\* No mixture of stale writes can lock a job away: neither table ever promises
\* it to somebody for longer than one lease from now, so a job whose workers
\* are gone can be claimed again after that.
BlockedAtMostOneLease ==
  \A j \in Jobs : \A longest \in TTLs : (\A ttl \in TTLs : ttl <= longest) =>
    item[j].expires <= clock + longest /\ lease[j].expires <= clock + longest

\* "Foreign, expired, ... and already-terminal writes fail closed": TerminalStays,
\* for the steps of this module.
TerminalStaysTx ==
  [][\A j \in Jobs : item[j].status \in Terminal => item'[j].status = item[j].status]_varsTx

==============================================================================
