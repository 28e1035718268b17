----------------------------- MODULE WorkerPool -----------------------------
(***************************************************************************)
(* The worker processes of app/workers.py consuming the durable queue: the *)
(* poll loop of _worker_main, the heartbeat loop of _execute_claimed with  *)
(* the handler on its own thread, and start() and stop() of                *)
(* ProcessWorkerPool.                                                      *)
(*                                                                         *)
(* The processes share one SQLite file, and a queue operation is the three *)
(* steps WorkQueueTx explains: read the item, read its lease, write both.  *)
(* A claim writes the columns that differ from what it has read; nothing   *)
(* checks that they are still what was read.                               *)
(*                                                                         *)
(* Time is counted down, not up, so that no bound on a clock cuts a        *)
(* behaviour short.  The expiry columns of an item and of its lease are    *)
(* always written together and with one value, so one number stands for    *)
(* both.                                                                   *)
(***************************************************************************)
EXTENDS Integers, FiniteSets

CONSTANTS Workers,     \* slots of the pool; a slot has a new uuid4 each start
          Jobs,        \* numbered in the order of created_at
          Nobody,
          LeaseTTL,    \* lease_ttl_seconds
          Interval,    \* heartbeat_interval_seconds
          Outcomes,    \* how a handler may end
          MaxFaults,   \* bound on stalls and busy database errors together
          MaxStarts    \* bound on starts of the pool

\* What ProcessWorkerPool.__init__ insists on.
ASSUME PoolAssumption ==
  /\ Jobs \subseteq Nat \ {0}
  /\ Nobody \notin Workers
  /\ LeaseTTL \in Nat /\ Interval \in Nat \ {0} /\ Interval < LeaseTTL
  /\ Outcomes \subseteq {"ok", "error", "TimeoutError"}
  /\ MaxFaults \in Nat /\ MaxStarts \in Nat

VARIABLES item,     \* the work_items: status and owner
          lease,    \* their rows in worker_leases: status and owner
          left,     \* what remains until the expiry both rows carry
          worker,   \* each process: where its main thread is, its handler, what it has read
          stop,     \* stop_event
          starts,   \* how often the pool was started
          faults,   \* stalls and busy errors so far
          over      \* history: jobs reported once, or at work on which a process died

tables == <<item, lease, left, over>>

vars == <<tables, worker, stop, starts, faults>>

Owner == Workers \cup {Nobody}

Items == [status : {"absent", "pending", "claimed", "completed", "failed"}, owner : Owner]

Leases == [status : {"absent", "claimed", "released"}, owner : Owner]

NoRow == [status |-> "absent", owner |-> Nobody]

Terminal == {"completed", "failed"}

\* A process at work on a job: it has claimed it and not yet let go of it.
Working == {"running", "beating", "extending", "reporting", "closing", "lost"}

\* due is what remains of future.result(timeout), or of the expiry that a claim
\* or a heartbeat is about to write; handler is the future; row and held are the
\* item and the lease as a claim or a report has read them.
Processes == [pc : {"down", "polling", "claiming", "leasing", "granting"} \cup Working,
              job : Jobs \cup {0}, due : 0 .. LeaseTTL,
              handler : {"none", "executing"} \cup Outcomes,
              row : Items, held : Leases]

At(pc) == [pc |-> pc, job |-> 0, due |-> 0, handler |-> "none", row |-> NoRow, held |-> NoRow]

Up(w) == worker[w].pc # "down"

Held(j) == item[j].status = "claimed" /\ left[j] > 0

\* Faulty: only an item nobody has claimed yet is available.
AvailableIfPending(j) == item[j].status = "pending"

Available(j) == item[j].status \in {"pending", "claimed"} /\ ~Held(j)

\* The guards of heartbeat(), complete() and fail() on the item.
Owns(w, j) == Held(j) /\ item[j].owner = w

\* A handler thread is at work on j; "lost" is the executor's exit waiting for it.
Executes(w, j) == worker[w].job = j /\ worker[w].handler = "executing"

------------------------------------------------------------------------------

Init ==
  /\ item = [j \in Jobs |-> NoRow]
  /\ lease = [j \in Jobs |-> NoRow]
  /\ left = [j \in Jobs |-> 0]
  /\ worker = [w \in Workers |-> At("down")]
  /\ stop = TRUE
  /\ starts = 0
  /\ faults = 0
  /\ over = {}

\* One more timer that is late, or call that raises OperationalError.
Fault == faults < MaxFaults /\ faults' = faults + 1

\* A heartbeat that is due, or an operation that a claim or its holder is in.
Late == \E w \in Workers :
  \/ worker[w].pc = "running" /\ worker[w].due = 0
  \/ worker[w].pc \in {"granting", "beating", "extending", "reporting", "closing"}

Less(n) == IF n = 0 THEN 0 ELSE n - 1

\* Without a fault a heartbeat or a report that is due is not overtaken by time.
Tick ==
  /\ IF Late THEN Fault ELSE UNCHANGED faults
  /\ left' = [j \in Jobs |-> Less(left[j])]
  /\ worker' = [w \in Workers |-> [worker[w] EXCEPT !.due = Less(@)]]
  /\ UNCHANGED <<item, lease, stop, starts, over>>

Enqueue(j) ==
  /\ item[j].status = "absent"
  /\ \A k \in Jobs : k < j => item[k].status # "absent"
  /\ item' = [item EXCEPT ![j].status = "pending"]
  /\ UNCHANGED <<lease, left, worker, stop, starts, faults, over>>

(* ProcessWorkerPool *)

Start ==
  /\ \A w \in Workers : ~Up(w)
  /\ stop /\ starts < MaxStarts
  /\ stop' = FALSE
  /\ starts' = starts + 1
  /\ worker' = [w \in Workers |-> At("polling")]
  /\ UNCHANGED <<tables, faults>>

\* Also how a start() that fails ends.
Stop ==
  /\ ~stop
  /\ stop' = TRUE
  /\ UNCHANGED <<tables, worker, starts, faults>>

\* The uuid4 in the rows of a dead process is nobody's from then on.
Orphaned(rows, w) == [j \in Jobs |-> IF rows[j].owner = w THEN [rows[j] EXCEPT !.owner = Nobody]
                                                          ELSE rows[j]]

\* What a process has not committed dies with it; its claim stays.
Dies(w) ==
  /\ worker' = [worker EXCEPT ![w] = At("down")]
  /\ item' = Orphaned(item, w)
  /\ lease' = Orphaned(lease, w)
  /\ over' = IF worker[w].pc \in Working THEN over \cup {worker[w].job} ELSE over
  /\ UNCHANGED <<left, stop, starts, faults>>

\* Faulty: a stop that leaves the processes with work alone.
TerminateIdle(w) == stop /\ worker[w].pc = "polling" /\ Dies(w)

\* process.terminate() once the shutdown timeout is over, whatever it is doing.
Terminate(w) == stop /\ Up(w) /\ Dies(w)

\* Nothing watches the processes after start(): a dead one is not replaced.
Crash(w) == ~stop /\ Up(w) /\ Dies(w)

(* _worker_main *)

Goes(w, process) ==
  /\ worker' = [worker EXCEPT ![w] = process]
  /\ UNCHANGED <<stop, starts>>

Poll(w) ==
  /\ worker[w].pc = "polling"
  /\ IF stop THEN Dies(w) ELSE Goes(w, At("claiming")) /\ UNCHANGED <<tables, faults>>

\* claim() up to the row _select_row picks.
SelectItem(w, j) ==
  /\ worker[w].pc = "claiming"
  /\ Available(j)
  /\ \A k \in Jobs : Available(k) => j <= k
  /\ Goes(w, [At("leasing") EXCEPT !.job = j, !.row = item[j]])
  /\ UNCHANGED <<tables, faults>>

\* The second SELECT, of claim_in_session(): nobody else may hold the lease.
LeaseClaimable(w, j) == lease[j].status = "claimed" /\ left[j] > 0 => lease[j].owner = w

ReadLease(w) ==
  LET j == worker[w].job
  IN  /\ worker[w].pc = "leasing"
      /\ LeaseClaimable(w, j)
      /\ Goes(w, [worker[w] EXCEPT !.pc = "granting", !.due = LeaseTTL, !.held = lease[j]])
      /\ UNCHANGED <<tables, faults>>

\* Faulty: a first claim that overwrites the row another process inserted.
MayInsertOver(w, j) == TRUE

\* The INSERT of a first claim fails on uq_worker_lease_scope if somebody else
\* inserted the row since; an UPDATE never fails.
MayWriteLease(w, j) == worker[w].held.status = "absent" => lease[j].status = "absent"

\* An UPDATE of the columns in which the claim of w differs from what w has read.
Claimed(current, old, w) ==
  [status |-> IF old.status # "claimed" THEN "claimed" ELSE current.status,
   owner  |-> IF old.owner # w THEN w ELSE current.owner]

WriteClaim(w) ==
  LET j == worker[w].job
  IN  /\ worker[w].pc = "granting"
      /\ MayWriteLease(w, j)
      /\ item' = [item EXCEPT ![j] = Claimed(@, worker[w].row, w)]
      /\ lease' = [lease EXCEPT ![j] = Claimed(@, worker[w].held, w)]
      /\ left' = [left EXCEPT ![j] = worker[w].due]
      /\ Goes(w, [At("running") EXCEPT !.job = j, !.due = Interval, !.handler = "executing"])
      /\ UNCHANGED <<faults, over>>

\* Nothing to do, LeaseConflict, or a busy database: wait and poll again.
ClaimFails(w) ==
  /\ \/ /\ worker[w].pc = "claiming" /\ \A j \in Jobs : ~Available(j)
        /\ UNCHANGED faults
     \/ /\ worker[w].pc = "leasing" /\ ~LeaseClaimable(w, worker[w].job)
        /\ UNCHANGED faults
     \/ /\ worker[w].pc = "granting" /\ ~MayWriteLease(w, worker[w].job)
        /\ UNCHANGED faults
     \/ worker[w].pc \in {"claiming", "leasing", "granting"} /\ Fault
  /\ Goes(w, At("polling"))
  /\ UNCHANGED tables

(* _execute_claimed *)

HandlerEnds(w, outcome) ==
  /\ worker[w].handler = "executing"
  /\ Goes(w, [worker[w] EXCEPT !.handler = outcome])
  /\ UNCHANGED <<tables, faults>>

\* The clause "except FutureTimeout" around future.result(): the wait ran out,
\* or the handler itself raised TimeoutError, which is the same class.
WaitTimedOut(w) ==
  /\ worker[w].pc = "running"
  /\ \/ worker[w].due = 0 /\ worker[w].handler = "executing"
     \/ worker[w].handler = "TimeoutError"

StartHeartbeat(w) ==
  /\ WaitTimedOut(w)
  /\ Owns(w, worker[w].job)
  /\ Goes(w, [worker[w] EXCEPT !.pc = "beating", !.due = 0])
  /\ UNCHANGED <<tables, faults>>

\* The checks of heartbeat() on the lease.
LeaseIsMine(w, j) ==
  lease[j].status = "claimed" /\ lease[j].owner = w /\ left[j] > 0

CheckLease(w) ==
  /\ worker[w].pc = "beating"
  /\ LeaseIsMine(w, worker[w].job)
  /\ Goes(w, [worker[w] EXCEPT !.pc = "extending", !.due = LeaseTTL])
  /\ UNCHANGED <<tables, faults>>

\* Faulty: heartbeats that write nothing.
BeatUnwritten(w, j) == left

\* Only the expiries differ from what the heartbeat has read.
Beat(w, j) == [left EXCEPT ![j] = worker[w].due]

WriteHeartbeat(w) ==
  /\ worker[w].pc = "extending"
  /\ left' = Beat(w, worker[w].job)
  /\ Goes(w, [worker[w] EXCEPT !.pc = "running", !.due = Interval])
  /\ UNCHANGED <<item, lease, over, faults>>

\* Faulty: a heartbeat that is refused changes nothing.
RefusalIgnored(w) == [worker[w] EXCEPT !.pc = "running", !.due = Interval]

\* lease_live = False: leaving the executor still waits for the handler.
Refusal(w) == [worker[w] EXCEPT !.pc = "lost", !.due = 0]

LoseLease(w) ==
  /\ \/ WaitTimedOut(w) /\ ~Owns(w, worker[w].job) /\ UNCHANGED faults
     \/ worker[w].pc = "beating" /\ ~LeaseIsMine(w, worker[w].job) /\ UNCHANGED faults
     \/ (WaitTimedOut(w) \/ worker[w].pc \in {"beating", "extending"}) /\ Fault
  /\ Goes(w, Refusal(w))
  /\ UNCHANGED tables

Abandon(w) ==
  /\ worker[w].pc = "lost" /\ worker[w].handler # "executing"
  /\ Goes(w, At("polling"))
  /\ UNCHANGED <<tables, faults>>

StatusOf(outcome) == IF outcome = "ok" THEN "completed" ELSE "failed"

HandlerEnded(w) == worker[w].pc = "running" /\ worker[w].handler \in {"ok", "error"}

\* queue.complete(), or queue.fail() in _report_failure().
StartReport(w) ==
  /\ HandlerEnded(w)
  /\ Owns(w, worker[w].job)
  /\ Goes(w, [worker[w] EXCEPT !.pc = "reporting", !.due = 0])
  /\ UNCHANGED <<tables, faults>>

\* release_in_session() asks for the owner only.
LeaseReleasable(w, j) == lease[j].owner = w

ReadReleased(w) ==
  LET j == worker[w].job
  IN  /\ worker[w].pc = "reporting"
      /\ LeaseReleasable(w, j)
      /\ Goes(w, [worker[w] EXCEPT !.pc = "closing", !.held = lease[j]])
      /\ UNCHANGED <<tables, faults>>

WriteReport(w) ==
  LET j == worker[w].job
  IN  /\ worker[w].pc = "closing"
      /\ item' = [item EXCEPT ![j].status = StatusOf(worker[w].handler)]
      /\ lease' = [lease EXCEPT ![j].status =
                     IF worker[w].held.status # "released" THEN "released" ELSE @]
      /\ left' = [left EXCEPT ![j] = 0]
      /\ over' = over \cup {j}
      /\ Goes(w, At("polling"))
      /\ UNCHANGED faults

\* A refusal or a busy database is swallowed, and the job left to its next claim.
ReportFails(w) ==
  /\ \/ HandlerEnded(w) /\ ~Owns(w, worker[w].job) /\ UNCHANGED faults
     \/ worker[w].pc = "reporting" /\ ~LeaseReleasable(w, worker[w].job) /\ UNCHANGED faults
     \/ (HandlerEnded(w) \/ worker[w].pc \in {"reporting", "closing"}) /\ Fault
  /\ Goes(w, At("polling"))
  /\ UNCHANGED tables

WorkerStep(w) ==
  \/ Poll(w)
  \/ \E j \in Jobs : SelectItem(w, j)
  \/ ReadLease(w) \/ WriteClaim(w) \/ ClaimFails(w)
  \/ StartHeartbeat(w) \/ CheckLease(w) \/ WriteHeartbeat(w)
  \/ LoseLease(w) \/ Abandon(w)
  \/ StartReport(w) \/ ReadReleased(w) \/ WriteReport(w) \/ ReportFails(w)

Next ==
  \/ Tick
  \/ \E j \in Jobs : Enqueue(j)
  \/ Start
  \/ Stop
  \/ \E w \in Workers :
       \/ WorkerStep(w)
       \/ Terminate(w)
       \/ Crash(w)
       \/ \E outcome \in Outcomes : HandlerEnds(w, outcome)

\* Time passes, the main thread of a live process runs, and the join in stop()
\* is followed by terminate().  Enqueuing, starting, stopping and crashing are up
\* to the environment, and nothing makes a handler end.
Fairness ==
  /\ WF_vars(Tick)
  /\ \A w \in Workers :
       /\ WF_vars(WorkerStep(w))
       /\ WF_vars(Terminate(w))

Spec == Init /\ [][Next]_vars

FairSpec == Spec /\ Fairness

------------------------------------------------------------------------------
(* Properties *)

\* Every row, process and counter has its type; in particular no claim is ever
\* good for more than one lease.
TypeOK ==
  /\ item \in [Jobs -> Items]
  /\ lease \in [Jobs -> Leases]
  /\ left \in [Jobs -> 0 .. LeaseTTL]
  /\ worker \in [Workers -> Processes]
  /\ stop \in BOOLEAN
  /\ starts \in 0 .. MaxStarts
  /\ faults \in 0 .. MaxFaults
  /\ over \in SUBSET Jobs

\* Until its first execution has been reported or its process has died, nobody
\* else ever executes a job: the unique lease row decides between claims that
\* race, and as long as no worker stalls and no call finds the database busy the
\* heartbeats, statement by statement, keep the claim ahead of its expiry.
FirstExecutionExclusive ==
  faults = 0 => \A j \in Jobs \ over : \A v, w \in Workers :
    Executes(v, j) /\ Executes(w, j) => v = w

\* "A lost/unknown lease must never be converted into a terminal result": for
\* that first execution the item ends by the report of the process whose live
\* claim it still is when the report is written, and as its handler ended.
FirstOutcomeFromHolder ==
  [][faults = 0 => \A j \in Jobs \ over :
       item[j].status # item'[j].status /\ item'[j].status \in Terminal =>
         \E w \in Workers :
           /\ worker[w].job = j /\ worker[w].pc = "closing"
           /\ Owns(w, j) /\ LeaseIsMine(w, j)
           /\ item'[j].status = StatusOf(worker[w].handler)]_vars

\* A later claim may be written twice over, and a stalled process is overtaken:
\* whichever of the two the rows do not name learns it from its heartbeat, so
\* two processes never go on for ever in the belief that a job is theirs.
OverlapIsNoticed ==
  \A j \in Jobs : \A v, w \in Workers : v # w =>
    LET Both == /\ worker[v].job = j /\ worker[v].pc \in Working \ {"lost"}
                /\ worker[w].job = j /\ worker[w].pc \in Working \ {"lost"}
    IN  Both ~> ~Both

\* Two claims of one job, both past the SELECT of its lease.
Racing(v, w) ==
  v # w /\ worker[v].pc = "granting" /\ worker[w].pc = "granting" /\ worker[v].job = worker[w].job

Serving == ~stop /\ \E w \in Workers : Up(w)

HandlersEnd == \A w \in Workers : []<>(worker[w].handler # "executing")

RacesEnd == <>[](\A v, w \in Workers : ~Racing(v, w))

JobsEnd == \A j \in Jobs : (item[j].status # "absent") ~> (item[j].status \in Terminal)

\* A pool that keeps a serving process finishes every job it is given, however
\* many processes die on the way and whatever owners the overlaps left in the two
\* rows, provided that no handler runs for ever and that the processes do not,
\* for ever, read an expired claim at the same moment.
EveryJobEnds == <>[]Serving /\ HandlersEnd /\ RacesEnd => JobsEnd

\* EveryJobEnds for any timing of the claims.
JobsEndDespiteRaces == <>[]Serving /\ HandlersEnd => JobsEnd

\* stop() leaves no process behind, not even one whose handler never ends.
StopEndsProcesses == stop ~> (~stop \/ \A w \in Workers : ~Up(w))

\* "handler errors are durable job failures": an exception of the handler ends
\* as the failure of the job, unless its process dies or a fault intervenes.
HandlerErrorsDurable ==
  \A w \in Workers, j \in Jobs :
    (worker[w].job = j /\ worker[w].handler \in Outcomes \ {"ok"})
      ~> (item[j].status = "failed" \/ ~Up(w) \/ faults > 0)

==============================================================================
