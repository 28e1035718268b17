------------------------- MODULE WorkerPool_proofs -------------------------
(***************************************************************************)
(* Proofs about WorkerPool, for any pool, any jobs, any lease time and     *)
(* heartbeat interval the constructor accepts, and any number of faults    *)
(* and restarts.                                                           *)
(***************************************************************************)
EXTENDS WorkerPool, TLAPS

Claiming == {"leasing", "granting"}

\* A process that works on something works on a job; only such a process has a
\* handler.
CoherentAt(w) ==
  /\ worker[w].pc \in Working \cup Claiming => worker[w].job \in Jobs
  /\ worker[w].pc \notin Working => worker[w].handler = "none"

Coherent == \A w \in Workers : CoherentAt(w)

Typed == TypeOK /\ Coherent

\* What a report writes is a status of an item.
LEMMA StatusTypes == \A outcome : StatusOf(outcome) \in Terminal
  BY DEF StatusOf, Terminal

\* The fresh process states are well typed.
LEMMA FreshProcess ==
  \A pc \in {"down", "polling", "claiming"} :
    /\ At(pc) \in Processes
    /\ At(pc).pc = pc /\ At(pc).handler = "none"
<1>1. 0 \in 0 .. LeaseTTL /\ NoRow \in Items /\ NoRow \in Leases
  BY PoolAssumption DEF NoRow, Items, Leases, Owner
<1> QED BY <1>1 DEF At, Processes

\* A new state for one process leaves the others alone.
LEMMA Moved ==
  ASSUME TypeOK, NEW w \in Workers, NEW p, worker' = [worker EXCEPT ![w] = p]
  PROVE  /\ worker'[w] = p
         /\ \A v \in Workers \ {w} : worker'[v] = worker[v]
         /\ p \in Processes => worker' \in [Workers -> Processes]
  BY DEF TypeOK

\* The pool starts well typed.
LEMMA TypedInit == Init => Typed
<1> SUFFICES ASSUME Init PROVE Typed
  OBVIOUS
<1>1. 0 \in 0 .. LeaseTTL /\ 0 \in 0 .. MaxStarts /\ 0 \in 0 .. MaxFaults
  BY PoolAssumption
<1>2. NoRow \in Items /\ NoRow \in Leases
  BY DEF NoRow, Items, Leases, Owner
<1>3. /\ item \in [Jobs -> Items] /\ lease \in [Jobs -> Leases]
      /\ left \in [Jobs -> 0 .. LeaseTTL]
  BY <1>1, <1>2 DEF Init
<1>4. \A w \in Workers : worker[w] = At("down")
  BY DEF Init
<1>5. worker \in [Workers -> Processes]
  BY FreshProcess DEF Init
<1>6. Coherent
  BY <1>4, FreshProcess DEF Coherent, CoherentAt, Working, Claiming
<1> QED BY <1>1, <1>3, <1>5, <1>6 DEF Init, Typed, TypeOK

\* A step of one process to a well typed and coherent state.
LEMMA MovedTyped ==
  ASSUME Typed, NEW w \in Workers, NEW p \in Processes,
         worker' = [worker EXCEPT ![w] = p],
         p.pc \in Working \cup Claiming => p.job \in Jobs,
         p.pc \notin Working => p.handler = "none"
  PROVE  worker' \in [Workers -> Processes] /\ Coherent'
<1>1. /\ worker'[w] = p
      /\ \A v \in Workers \ {w} : worker'[v] = worker[v]
      /\ worker' \in [Workers -> Processes]
  BY Moved DEF Typed
<1>2. \A v \in Workers : CoherentAt(v)'
  BY <1>1 DEF Typed, Coherent, CoherentAt
<1> QED BY <1>1, <1>2 DEF Coherent

\* The remaining life of rows and timers stays in its range.
LEMMA LessTypes ==
  \A n \in Nat : \A m \in 0 .. n : Less(m) \in 0 .. n /\ (m > 0 => Less(m) = m - 1)
  BY DEF Less

LEMMA FaultTypes == TypeOK /\ Fault => faults' \in 0 .. MaxFaults /\ faults' # 0
  BY PoolAssumption DEF TypeOK, Fault

\* The rows of a process that dies.
LEMMA OrphanedRows ==
  ASSUME NEW w \in Workers, NEW rows, NEW j \in Jobs,
         rows[j] \in Items \/ rows[j] \in Leases
  PROVE  /\ Orphaned(rows, w)[j].status = rows[j].status
         /\ Orphaned(rows, w)[j].owner = IF rows[j].owner = w THEN Nobody ELSE rows[j].owner
         /\ rows[j] \in Items => Orphaned(rows, w)[j] \in Items
         /\ rows[j] \in Leases => Orphaned(rows, w)[j] \in Leases
<1>1. Orphaned(rows, w)[j] =
        IF rows[j].owner = w THEN [rows[j] EXCEPT !.owner = Nobody] ELSE rows[j]
  BY DEF Orphaned
<1>2. Nobody \in Owner
  BY DEF Owner
<1>3. CASE rows[j] \in Items
  BY <1>1, <1>2, <1>3 DEF Items, Leases
<1>4. CASE rows[j] \in Leases
  BY <1>1, <1>2, <1>4 DEF Items, Leases
<1> QED BY <1>3, <1>4

LEMMA DiesTyped ==
  ASSUME Typed, NEW w \in Workers, Dies(w)
  PROVE  TypeOK' /\ Coherent'
<1>1. worker' \in [Workers -> Processes] /\ Coherent'
  BY FreshProcess, MovedTyped DEF Dies, Working, Claiming
<1>2. item' \in [Jobs -> Items]
  BY OrphanedRows DEF Dies, Typed, TypeOK, Orphaned
<1>3. lease' \in [Jobs -> Leases]
  BY OrphanedRows DEF Dies, Typed, TypeOK, Orphaned
<1>4. over' \in SUBSET Jobs
  BY DEF Dies, Typed, TypeOK, Coherent, CoherentAt
<1> QED BY <1>1, <1>2, <1>3, <1>4 DEF Dies, Typed, TypeOK

\* An idle process holds nothing.
LEMMA IdleTyped ==
  ASSUME Typed, NEW w \in Workers, NEW pc \in {"down", "polling", "claiming"}, Goes(w, At(pc))
  PROVE  worker' \in [Workers -> Processes] /\ Coherent'
  BY FreshProcess, MovedTyped DEF Goes, Working, Claiming

\* What a claim writes into a row of its kind.
LEMMA ClaimedTypes ==
  ASSUME NEW w \in Workers, NEW current, NEW old
  PROVE  /\ current \in Items => Claimed(current, old, w) \in Items
         /\ current \in Leases => Claimed(current, old, w) \in Leases
  BY DEF Claimed, Items, Leases, Owner

\* No step leaves the types.
LEMMA TypedStep == Typed /\ [Next]_vars => Typed'
<1> SUFFICES ASSUME Typed, [Next]_vars PROVE TypeOK' /\ Coherent'
  BY DEF Typed
<1>0. TypeOK /\ Coherent
  BY DEF Typed
<1>a. ASSUME NEW w \in Workers PROVE worker[w] \in Processes
  BY <1>0, <1>a DEF TypeOK
<1>1. CASE Tick
  <2>1. faults' \in 0 .. MaxFaults
    BY <1>0, <1>1, FaultTypes DEF Tick, TypeOK
  <2>2. left' \in [Jobs -> 0 .. LeaseTTL]
    BY <1>0, <1>1, LessTypes, PoolAssumption DEF Tick, TypeOK
  <2>3. ASSUME NEW w \in Workers
        PROVE  /\ worker'[w] \in Processes
               /\ worker'[w].pc = worker[w].pc /\ worker'[w].job = worker[w].job
               /\ worker'[w].handler = worker[w].handler
    <3>1. worker'[w] = [worker[w] EXCEPT !.due = Less(worker[w].due)]
      BY <1>1 DEF Tick
    <3>2. worker[w] \in Processes
      BY <1>a
    <3>3. Less(worker[w].due) \in 0 .. LeaseTTL
      BY <3>2, LessTypes, PoolAssumption DEF Processes
    <3> QED BY <3>1, <3>2, <3>3 DEF Processes
  <2>4. worker' \in [Workers -> Processes]
    BY <1>1, <2>3 DEF Tick
  <2>5. Coherent'
    BY <1>0, <2>3 DEF Coherent, CoherentAt
  <2> QED BY <1>0, <1>1, <2>1, <2>2, <2>4, <2>5 DEF Tick, TypeOK
<1>2. ASSUME NEW j \in Jobs, Enqueue(j) PROVE TypeOK' /\ Coherent'
  <2>1. [item[j] EXCEPT !.status = "pending"] \in Items
    BY <1>0 DEF TypeOK, Items
  <2>2. item' \in [Jobs -> Items]
    BY <1>0, <1>2, <2>1 DEF Enqueue, TypeOK
  <2> QED BY <1>0, <1>2, <2>2 DEF Enqueue, TypeOK, Coherent, CoherentAt
<1>3. CASE Start
  <2>1. starts' \in 0 .. MaxStarts
    BY <1>0, <1>3, PoolAssumption DEF Start, TypeOK
  <2>2. \A w \in Workers : worker'[w] = At("polling")
    BY <1>3 DEF Start
  <2>3. worker' \in [Workers -> Processes]
    BY <1>3, FreshProcess DEF Start
  <2>4. Coherent'
    BY <2>2, FreshProcess DEF Coherent, CoherentAt, Working, Claiming
  <2> QED BY <1>0, <1>3, <2>1, <2>3, <2>4 DEF Start, TypeOK, tables
<1>4. CASE Stop
  BY <1>0, <1>4 DEF Stop, TypeOK, Coherent, CoherentAt, tables
<1>5. ASSUME NEW w \in Workers, Terminate(w) \/ Crash(w) \/ Poll(w) PROVE TypeOK' /\ Coherent'
  <2>1. CASE Dies(w)
    BY <2>1, DiesTyped
  <2>2. CASE Goes(w, At("claiming")) /\ UNCHANGED <<tables, faults>>
    <3>1. worker' \in [Workers -> Processes] /\ Coherent'
      BY <2>2, IdleTyped
    <3> QED BY <1>0, <2>2, <3>1 DEF TypeOK, Goes, tables
  <2> QED BY <1>5, <2>1, <2>2 DEF Terminate, Crash, Poll
<1>6. ASSUME NEW w \in Workers, NEW j \in Jobs, SelectItem(w, j) PROVE TypeOK' /\ Coherent'
  <2> DEFINE p == [At("leasing") EXCEPT !.job = j, !.row = item[j]]
  <2>1. item[j] \in Items /\ NoRow \in Leases /\ 0 \in 0 .. LeaseTTL
    BY <1>0, PoolAssumption DEF TypeOK, NoRow, Leases, Owner
  <2>2. p \in Processes /\ p.pc = "leasing" /\ p.job = j /\ p.handler = "none"
    BY <2>1 DEF At, Processes
  <2>3. worker' = [worker EXCEPT ![w] = p] /\ UNCHANGED <<tables, faults, stop, starts>>
    BY <1>6 DEF SelectItem, Goes
  <2>4. worker' \in [Workers -> Processes] /\ Coherent'
    BY <2>2, <2>3, MovedTyped DEF Working, Claiming
  <2> QED BY <1>0, <2>3, <2>4 DEF TypeOK, tables
<1>7. ASSUME NEW w \in Workers, ReadLease(w) PROVE TypeOK' /\ Coherent'
  <2> DEFINE j == worker[w].job
             p == [worker[w] EXCEPT !.pc = "granting", !.due = LeaseTTL, !.held = lease[j]]
  <2>1. j \in Jobs /\ worker[w].handler = "none" /\ worker[w].pc = "leasing"
    BY <1>0, <1>7 DEF ReadLease, Coherent, CoherentAt, Working, Claiming
  <2>2. lease[j] \in Leases /\ LeaseTTL \in 0 .. LeaseTTL /\ worker[w] \in Processes
    <3>1. LeaseTTL \in 0 .. LeaseTTL
      BY PoolAssumption
    <3> QED BY <1>0, <1>a, <2>1, <3>1 DEF TypeOK
  <2>3. p \in Processes /\ p.pc = "granting" /\ p.job = j /\ p.handler = "none"
    <3>1. ASSUME NEW l \in Leases, NEW r \in Processes
          PROVE  LET q == [r EXCEPT !.pc = "granting", !.due = LeaseTTL, !.held = l]
                 IN  q \in Processes /\ q.pc = "granting" /\ q.job = r.job
                       /\ q.handler = r.handler
      BY <2>2 DEF Processes
    <3> QED BY <2>1, <2>2, <3>1
  <2>4. worker' = [worker EXCEPT ![w] = p] /\ UNCHANGED <<tables, faults, stop, starts>>
    BY <1>7 DEF ReadLease, Goes
  <2>5. worker' \in [Workers -> Processes] /\ Coherent'
    BY <2>1, <2>3, <2>4, MovedTyped DEF Working, Claiming
  <2> QED BY <1>0, <2>4, <2>5 DEF TypeOK, tables
<1>8. ASSUME NEW w \in Workers, WriteClaim(w) PROVE TypeOK' /\ Coherent'
  <2> DEFINE j == worker[w].job
             p == [At("running") EXCEPT !.job = j, !.due = Interval, !.handler = "executing"]
  <2>1. j \in Jobs
    BY <1>0, <1>8 DEF WriteClaim, Coherent, CoherentAt, Working, Claiming
  <2>2. NoRow \in Items /\ NoRow \in Leases /\ Interval \in 0 .. LeaseTTL
    BY PoolAssumption DEF NoRow, Items, Leases, Owner
  <2>3. p \in Processes /\ p.pc = "running" /\ p.job = j
    BY <2>1, <2>2 DEF At, Processes, Working
  <2>4. worker' = [worker EXCEPT ![w] = p] /\ UNCHANGED <<faults, stop, starts, over>>
    BY <1>8 DEF WriteClaim, Goes
  <2>5. worker' \in [Workers -> Processes] /\ Coherent'
    BY <2>1, <2>3, <2>4, MovedTyped DEF Working, Claiming
  <2>6. item' \in [Jobs -> Items] /\ lease' \in [Jobs -> Leases]
    BY <1>0, <1>8, <2>1, ClaimedTypes DEF WriteClaim, TypeOK
  <2>7. worker[w].due \in 0 .. LeaseTTL
    BY <1>a DEF Processes
  <2>8. left' \in [Jobs -> 0 .. LeaseTTL]
    BY <1>0, <1>8, <2>7 DEF WriteClaim, TypeOK
  <2> QED BY <1>0, <2>4, <2>5, <2>6, <2>8 DEF TypeOK
<1>9. ASSUME NEW w \in Workers, ClaimFails(w) \/ Abandon(w) \/ ReportFails(w)
      PROVE  TypeOK' /\ Coherent'
  <2>1. Goes(w, At("polling")) /\ UNCHANGED tables
    BY <1>9 DEF ClaimFails, Abandon, ReportFails
  <2>2. worker' \in [Workers -> Processes] /\ Coherent'
    BY <2>1, IdleTyped
  <2>3. faults' \in 0 .. MaxFaults
    BY <1>0, <1>9, FaultTypes DEF ClaimFails, Abandon, ReportFails, TypeOK
  <2> QED BY <1>0, <2>1, <2>2, <2>3 DEF Goes, TypeOK, tables
<1>10. ASSUME NEW w \in Workers, NEW outcome \in Outcomes, HandlerEnds(w, outcome)
       PROVE  TypeOK' /\ Coherent'
  <2> DEFINE p == [worker[w] EXCEPT !.handler = outcome]
  <2>1. worker[w] \in Processes
    BY <1>a
  <2>2. p \in Processes /\ p.pc = worker[w].pc /\ p.job = worker[w].job
    BY <2>1 DEF Processes
  <2>3. worker[w].pc \in Working
    BY <1>0, <1>10 DEF HandlerEnds, Coherent, CoherentAt
  <2>4. worker' = [worker EXCEPT ![w] = p] /\ UNCHANGED <<tables, faults, stop, starts>>
    BY <1>10 DEF HandlerEnds, Goes
  <2>5. worker[w].job \in Jobs
    BY <1>0, <2>3 DEF Coherent, CoherentAt
  <2>6. worker' \in [Workers -> Processes] /\ Coherent'
    BY <2>2, <2>3, <2>4, <2>5, MovedTyped
  <2> QED BY <1>0, <2>4, <2>6 DEF TypeOK, tables
<1>11. ASSUME NEW w \in Workers, NEW p \in Processes, NEW pc \in Working,
              p.pc = pc, p.job = worker[w].job, worker[w].pc \in Working,
              worker' = [worker EXCEPT ![w] = p]
       PROVE  worker' \in [Workers -> Processes] /\ Coherent'
  <2>1. p.job \in Jobs
    BY <1>0, <1>11 DEF Coherent, CoherentAt
  <2> QED BY <1>11, <2>1, MovedTyped
<1>12. ASSUME NEW w \in Workers, StartHeartbeat(w) \/ StartReport(w) PROVE TypeOK' /\ Coherent'
  <2>1. PICK pc \in {"beating", "reporting"} : Goes(w, [worker[w] EXCEPT !.pc = pc, !.due = 0])
    BY <1>12 DEF StartHeartbeat, StartReport
  <2> DEFINE p == [worker[w] EXCEPT !.pc = pc, !.due = 0]
  <2>2. worker[w] \in Processes /\ 0 \in 0 .. LeaseTTL
    BY <1>a, PoolAssumption
  <2>3. p \in Processes /\ p.pc = pc /\ p.job = worker[w].job /\ pc \in Working
    BY <2>2 DEF Processes, Working
  <2>4. worker[w].pc \in Working
    BY <1>12 DEF StartHeartbeat, StartReport, WaitTimedOut, HandlerEnded, Working
  <2>5. worker' = [worker EXCEPT ![w] = p]
    BY <2>1 DEF Goes
  <2>6. worker' \in [Workers -> Processes] /\ Coherent'
    BY <1>11, <2>3, <2>4, <2>5
  <2> QED BY <1>0, <1>12, <2>6 DEF StartHeartbeat, StartReport, Goes, TypeOK, tables
<1>13. ASSUME NEW w \in Workers, CheckLease(w) PROVE TypeOK' /\ Coherent'
  <2> DEFINE p == [worker[w] EXCEPT !.pc = "extending", !.due = LeaseTTL]
  <2>1. worker[w] \in Processes /\ LeaseTTL \in 0 .. LeaseTTL
    BY <1>a, PoolAssumption
  <2>2. p \in Processes /\ p.pc = "extending" /\ p.job = worker[w].job
    BY <2>1 DEF Processes, Working
  <2>3. worker[w].pc \in Working /\ worker' = [worker EXCEPT ![w] = p]
    BY <1>13 DEF CheckLease, Working, Goes
  <2>4. worker' \in [Workers -> Processes] /\ Coherent'
    BY <1>11, <2>2, <2>3 DEF Working
  <2> QED BY <1>0, <1>13, <2>4 DEF CheckLease, Goes, TypeOK, tables
<1>14. ASSUME NEW w \in Workers, WriteHeartbeat(w) PROVE TypeOK' /\ Coherent'
  <2> DEFINE p == [worker[w] EXCEPT !.pc = "running", !.due = Interval]
  <2>1. worker[w] \in Processes /\ Interval \in 0 .. LeaseTTL
    BY <1>a, PoolAssumption
  <2>2. p \in Processes /\ p.pc = "running" /\ p.job = worker[w].job
    BY <2>1 DEF Processes, Working
  <2>3. worker[w].pc \in Working /\ worker' = [worker EXCEPT ![w] = p]
    BY <1>14 DEF WriteHeartbeat, Working, Goes
  <2>4. worker' \in [Workers -> Processes] /\ Coherent'
    BY <1>11, <2>2, <2>3 DEF Working
  <2>5. left' \in [Jobs -> 0 .. LeaseTTL]
    BY <1>0, <1>14, <2>1 DEF WriteHeartbeat, Beat, TypeOK, Processes
  <2> QED BY <1>0, <1>14, <2>4, <2>5 DEF WriteHeartbeat, Goes, TypeOK
<1>15. ASSUME NEW w \in Workers, LoseLease(w) PROVE TypeOK' /\ Coherent'
  <2> DEFINE p == [worker[w] EXCEPT !.pc = "lost", !.due = 0]
  <2>1. worker[w] \in Processes /\ 0 \in 0 .. LeaseTTL
    BY <1>a, PoolAssumption
  <2>2. p \in Processes /\ p.pc = "lost" /\ p.job = worker[w].job
    BY <2>1 DEF Processes, Working
  <2>3. worker[w].pc \in Working /\ worker' = [worker EXCEPT ![w] = p]
    BY <1>15 DEF LoseLease, WaitTimedOut, Working, Goes, Refusal
  <2>4. worker' \in [Workers -> Processes] /\ Coherent'
    BY <1>11, <2>2, <2>3 DEF Working
  <2>5. faults' \in 0 .. MaxFaults
    BY <1>0, <1>15, FaultTypes DEF LoseLease, TypeOK
  <2> QED BY <1>0, <1>15, <2>4, <2>5 DEF LoseLease, Goes, TypeOK, tables
<1>16. ASSUME NEW w \in Workers, ReadReleased(w) PROVE TypeOK' /\ Coherent'
  <2> DEFINE j == worker[w].job
             p == [worker[w] EXCEPT !.pc = "closing", !.held = lease[j]]
  <2>1. worker[w].pc \in Working /\ j \in Jobs
    BY <1>0, <1>16 DEF ReadReleased, Working, Coherent, CoherentAt
  <2>2. worker[w] \in Processes /\ lease[j] \in Leases
    BY <1>0, <1>a, <2>1 DEF TypeOK
  <2>3. p \in Processes /\ p.pc = "closing" /\ p.job = worker[w].job
    BY <2>2 DEF Processes, Working
  <2>4. worker' = [worker EXCEPT ![w] = p]
    BY <1>16 DEF ReadReleased, Goes
  <2>5. worker' \in [Workers -> Processes] /\ Coherent'
    BY <1>11, <2>1, <2>3, <2>4 DEF Working
  <2> QED BY <1>0, <1>16, <2>5 DEF ReadReleased, Goes, TypeOK, tables
<1>17. ASSUME NEW w \in Workers, WriteReport(w) PROVE TypeOK' /\ Coherent'
  <2> DEFINE j == worker[w].job
  <2>1. j \in Jobs
    BY <1>0, <1>17 DEF WriteReport, Working, Coherent, CoherentAt
  <2>2. worker' \in [Workers -> Processes] /\ Coherent'
    BY <1>17, IdleTyped DEF WriteReport
  <2>3. [item[j] EXCEPT !.status = StatusOf(worker[w].handler)] \in Items
    BY <1>0, <2>1, StatusTypes DEF TypeOK, Items, Terminal
  <2>4. \A s \in {"released", lease[j].status} : [lease[j] EXCEPT !.status = s] \in Leases
    BY <1>0, <2>1 DEF TypeOK, Leases
  <2>5. item' \in [Jobs -> Items]
    BY <1>0, <1>17, <2>1, <2>3 DEF WriteReport, TypeOK
  <2>6. lease' \in [Jobs -> Leases]
    <3>1. PICK s \in {"released", lease[j].status} : lease' = [lease EXCEPT ![j].status = s]
      BY <1>17 DEF WriteReport
    <3>2. [lease[j] EXCEPT !.status = s] \in Leases
      BY <2>4
    <3>3. lease \in [Jobs -> Leases]
      BY <1>0 DEF TypeOK
    <3> QED BY <2>1, <3>1, <3>2, <3>3
  <2>7. left' \in [Jobs -> 0 .. LeaseTTL]
    <3>1. 0 \in 0 .. LeaseTTL
      BY PoolAssumption
    <3>2. left' = [left EXCEPT ![j] = 0] /\ left \in [Jobs -> 0 .. LeaseTTL]
      BY <1>0, <1>17 DEF WriteReport, TypeOK
    <3> QED BY <2>1, <3>1, <3>2
  <2>8. over' \in SUBSET Jobs
    BY <1>0, <1>17, <2>1 DEF WriteReport, TypeOK
  <2> QED BY <1>0, <1>17, <2>2, <2>5, <2>6, <2>7, <2>8 DEF WriteReport, Goes, TypeOK
<1>18. CASE UNCHANGED vars
  BY <1>0, <1>18 DEF vars, tables, TypeOK, Coherent, CoherentAt
<1> QED
  BY <1>1, <1>2, <1>3, <1>4, <1>5, <1>6, <1>7, <1>8, <1>9, <1>10, <1>12, <1>13, <1>14, <1>15,
     <1>16, <1>17, <1>18
  DEF Next, WorkerStep

\* Type correctness of the rows, the processes and the counters.
THEOREM TypeCorrect == Spec => []TypeOK
<1>1. Typed => TypeOK
  BY DEF Typed
<1> QED BY <1>1, TypedInit, TypedStep, PTL DEF Spec

-----------------------------------------------------------------------------
(* The first execution of a job *)

\* While a job has no lease row nobody works on it, and whoever is about to claim
\* it has read the untouched item and, if it has read that far, no lease.
FreshAt(j) ==
  lease[j].status = "absent" =>
    /\ lease[j].owner = Nobody
    /\ item[j].status \in {"absent", "pending"} /\ item[j].owner = Nobody
    /\ \A w \in Workers :
         /\ worker[w].pc \in Working => worker[w].job # j
         /\ worker[w].pc \in Claiming /\ worker[w].job = j =>
              worker[w].row.status = "pending" /\ worker[w].row.owner = Nobody
         /\ worker[w].pc = "granting" /\ worker[w].job = j =>
              worker[w].held.status = "absent" /\ worker[w].held.owner = Nobody

Fresh == \A j \in Jobs : FreshAt(j)

\* A process in the first execution of its job is named by both rows, and its
\* claim outlasts its heartbeat timer.
CoveredAt(w) ==
  worker[w].pc \in Working /\ worker[w].job \notin over =>
    /\ worker[w].pc # "lost"
    /\ Owns(w, worker[w].job) /\ LeaseIsMine(w, worker[w].job)
    /\ worker[w].pc = "running" => left[worker[w].job] > worker[w].due
    /\ worker[w].pc = "extending" => worker[w].due = LeaseTTL

\* A claim is about to write a whole lease time, and into a row that has not
\* been there if this is the first execution.
GrantingAt(w) ==
  worker[w].pc = "granting" =>
    /\ worker[w].due = LeaseTTL
    /\ worker[w].job \notin over => worker[w].held.status = "absent"

\* A lease that is there belongs to somebody who is at work.
SecuredAt(j) ==
  j \notin over /\ lease[j].status # "absent" =>
    \E w \in Workers : worker[w].pc \in Working /\ worker[w].job = j

Timely ==
  faults = 0 =>
    /\ \A w \in Workers : CoveredAt(w) /\ GrantingAt(w)
    /\ \A j \in Jobs : SecuredAt(j)

\* FirstExecutionExclusive says what cannot happen; this is why: the owner
\* columns name one process, and every process at work is named by them.
PoolInvariant == Typed /\ Fresh /\ Timely

\* The empty pool satisfies the invariant.
LEMMA InvariantInit == Init => PoolInvariant
<1> SUFFICES ASSUME Init PROVE Fresh /\ Timely
  BY TypedInit DEF PoolInvariant
<1>1. \A w \in Workers : worker[w] = At("down")
  BY DEF Init
<1>2. \A w \in Workers : worker[w].pc = "down"
  BY <1>1, FreshProcess
<1>3. \A j \in Jobs : /\ lease[j].status = "absent" /\ lease[j].owner = Nobody
                      /\ item[j].status = "absent" /\ item[j].owner = Nobody
  BY DEF Init, NoRow
<1>4. Fresh
  BY <1>2, <1>3 DEF Fresh, FreshAt, Working, Claiming
<1>5. Timely
  BY <1>2, <1>3 DEF Timely, CoveredAt, GrantingAt, SecuredAt, Working
<1> QED BY <1>4, <1>5

\* A step of one process that writes no row.
LEMMA ProcessStep ==
  ASSUME PoolInvariant, NEW w \in Workers, UNCHANGED tables,
         \A v \in Workers \ {w} : worker'[v] = worker[v],
         worker'[w].pc \in Working =>
           worker[w].pc \in Working /\ worker'[w].job = worker[w].job,
         worker'[w].pc \in Claiming /\ lease[worker'[w].job].status = "absent" =>
           worker'[w].row.status = "pending" /\ worker'[w].row.owner = Nobody,
         worker'[w].pc = "granting" /\ lease[worker'[w].job].status = "absent" =>
           worker'[w].held.status = "absent" /\ worker'[w].held.owner = Nobody,
         faults' = 0 =>
           /\ faults = 0 /\ CoveredAt(w)' /\ GrantingAt(w)'
           /\ worker[w].pc \in Working /\ worker[w].job \notin over =>
                worker'[w].pc \in Working /\ worker'[w].job = worker[w].job
  PROVE  Fresh' /\ Timely'
<1>1. item' = item /\ lease' = lease /\ left' = left /\ over' = over
  BY DEF tables
<1>2. ASSUME NEW j \in Jobs PROVE FreshAt(j)'
  <2> SUFFICES ASSUME lease[j].status = "absent"
               PROVE  \A v \in Workers :
                        /\ worker'[v].pc \in Working => worker'[v].job # j
                        /\ worker'[v].pc \in Claiming /\ worker'[v].job = j =>
                             worker'[v].row.status = "pending" /\ worker'[v].row.owner = Nobody
                        /\ worker'[v].pc = "granting" /\ worker'[v].job = j =>
                             worker'[v].held.status = "absent" /\ worker'[v].held.owner = Nobody
    BY <1>1 DEF PoolInvariant, Fresh, FreshAt
  <2>1. FreshAt(j)
    BY DEF PoolInvariant, Fresh
  <2> TAKE v \in Workers
  <2>2. CASE v = w
    BY <2>1, <2>2 DEF FreshAt
  <2>3. CASE v # w
    BY <2>1, <2>3 DEF FreshAt
  <2> QED BY <2>2, <2>3
<1>3. ASSUME faults' = 0 PROVE (\A v \in Workers : CoveredAt(v)' /\ GrantingAt(v)')
                              /\ (\A j \in Jobs : SecuredAt(j)')
  <2>0. faults = 0
    BY <1>3
  <2>1. ASSUME NEW v \in Workers \ {w} PROVE CoveredAt(v)' /\ GrantingAt(v)'
    <3>1. CoveredAt(v) /\ GrantingAt(v) /\ worker'[v] = worker[v]
      BY <2>0 DEF PoolInvariant, Timely
    <3>2. Owns(v, worker[v].job) => Owns(v, worker[v].job)'
      BY <1>1, <3>1 DEF Owns, Held
    <3>3. LeaseIsMine(v, worker[v].job) => LeaseIsMine(v, worker[v].job)'
      BY <1>1, <3>1 DEF LeaseIsMine
    <3> QED BY <1>1, <3>1, <3>2, <3>3 DEF CoveredAt, GrantingAt
  <2>2. CoveredAt(w)' /\ GrantingAt(w)'
    BY <1>3
  <2>3. ASSUME NEW j \in Jobs PROVE SecuredAt(j)'
    <3> SUFFICES ASSUME j \notin over, lease[j].status # "absent"
                 PROVE  \E v \in Workers : worker'[v].pc \in Working /\ worker'[v].job = j
      BY <1>1 DEF SecuredAt
    <3>1. PICK v \in Workers : worker[v].pc \in Working /\ worker[v].job = j
      BY <2>0 DEF PoolInvariant, Timely, SecuredAt
    <3>2. worker'[v].pc \in Working /\ worker'[v].job = j
      BY <1>3, <3>1
    <3> QED BY <3>2
  <2> QED BY <2>1, <2>2, <2>3
<1> QED BY <1>2, <1>3 DEF Fresh, Timely

\* A process that goes idle from where it had no first execution.
LEMMA IdleStep ==
  ASSUME PoolInvariant, NEW w \in Workers, NEW pc \in {"down", "polling", "claiming"},
         Goes(w, At(pc)), UNCHANGED tables,
         faults' = 0 => /\ faults = 0
                        /\ ~(worker[w].pc \in Working /\ worker[w].job \notin over)
  PROVE  Fresh' /\ Timely'
<1>1. worker'[w] = At(pc) /\ \A v \in Workers \ {w} : worker'[v] = worker[v]
  BY Moved DEF Goes, PoolInvariant, Typed
<1>2. worker'[w].pc = pc
  BY <1>1, FreshProcess
<1>3. worker'[w].pc \notin Working \cup Claiming
  BY <1>2 DEF Working, Claiming
<1>4. CoveredAt(w)' /\ GrantingAt(w)'
  BY <1>3 DEF CoveredAt, GrantingAt, Claiming
<1>5. worker'[w].pc # "granting"
  BY <1>3 DEF Claiming
<1> QED BY <1>1, <1>3, <1>4, <1>5, ProcessStep

\* Time without a fault leaves every claim ahead of its heartbeat timer.
LEMMA TickKeeps == PoolInvariant /\ Tick => Fresh' /\ Timely'
<1> SUFFICES ASSUME PoolInvariant, Tick PROVE Fresh' /\ Timely'
  OBVIOUS
<1>1. ASSUME NEW w \in Workers
      PROVE  /\ worker'[w].pc = worker[w].pc /\ worker'[w].job = worker[w].job
             /\ worker'[w].row = worker[w].row /\ worker'[w].held = worker[w].held
             /\ worker'[w].due = Less(worker[w].due)
  <2>1. worker[w] \in Processes /\ worker'[w] = [worker[w] EXCEPT !.due = Less(worker[w].due)]
    BY DEF PoolInvariant, Typed, TypeOK, Tick
  <2> QED BY <2>1 DEF Processes
<1>2. /\ item' = item /\ lease' = lease /\ over' = over
      /\ \A j \in Jobs : left'[j] = Less(left[j])
  BY DEF Tick
<1>3. Fresh'
  BY <1>1, <1>2 DEF PoolInvariant, Fresh, FreshAt
<1>4. ASSUME faults' = 0 PROVE faults = 0 /\ ~Late
  BY <1>4, FaultTypes DEF Tick, PoolInvariant, Typed
<1>5. ASSUME faults' = 0, NEW w \in Workers PROVE CoveredAt(w)' /\ GrantingAt(w)'
  <2>1. /\ ~(worker[w].pc = "running" /\ worker[w].due = 0)
        /\ worker[w].pc \notin {"granting", "beating", "extending", "reporting", "closing"}
    BY <1>4, <1>5 DEF Late
  <2>2. GrantingAt(w)'
    BY <1>1, <2>1 DEF GrantingAt
  <2>3. ASSUME worker[w].pc \in Working, worker[w].job \notin over PROVE CoveredAt(w)'
    <3> DEFINE j == worker[w].job
    <3>1. CoveredAt(w)
      BY <1>4, <1>5 DEF PoolInvariant, Timely
    <3>2. worker[w].pc = "running" /\ worker[w].due # 0 /\ left[j] > worker[w].due
      BY <2>1, <2>3, <3>1 DEF CoveredAt, Working
    <3>3. j \in Jobs /\ worker[w] \in Processes
      BY <2>3 DEF PoolInvariant, Typed, TypeOK, Coherent, CoherentAt
    <3>4. worker[w].due \in Nat /\ left[j] \in Nat
      <4>1. worker[w].due \in 0 .. LeaseTTL
        BY <3>3 DEF Processes
      <4>2. left[j] \in 0 .. LeaseTTL
        BY <3>3 DEF PoolInvariant, Typed, TypeOK
      <4> QED BY <4>1, <4>2, PoolAssumption
    <3>5. left'[j] = left[j] - 1 /\ worker'[w].due = worker[w].due - 1
      BY <1>1, <1>2, <3>2, <3>3, <3>4 DEF Less
    <3>6. left'[j] > 0 /\ left'[j] > worker'[w].due
      BY <3>2, <3>4, <3>5
    <3>7. item'[j].status = "claimed" /\ item'[j].owner = w
      BY <1>2, <2>3, <3>1 DEF CoveredAt, Owns, Held
    <3>8. lease'[j].status = "claimed" /\ lease'[j].owner = w
      BY <1>2, <2>3, <3>1 DEF CoveredAt, LeaseIsMine
    <3> QED BY <1>1, <3>2, <3>6, <3>7, <3>8 DEF CoveredAt, Owns, Held, LeaseIsMine
  <2> QED BY <1>1, <1>2, <2>2, <2>3 DEF CoveredAt
<1>6. ASSUME faults' = 0, NEW j \in Jobs PROVE SecuredAt(j)'
  <2>1. SecuredAt(j)
    BY <1>4, <1>6 DEF PoolInvariant, Timely
  <2> QED BY <1>1, <1>2, <2>1 DEF SecuredAt
<1> QED BY <1>3, <1>5, <1>6 DEF Timely

\* Enqueuing adds a row nobody has claimed.
LEMMA EnqueueKeeps ==
  ASSUME PoolInvariant, NEW j \in Jobs, Enqueue(j)
  PROVE  Fresh' /\ Timely'
<1>1. /\ item[j].status = "absent"
      /\ item'[j].status = "pending" /\ item'[j].owner = item[j].owner
      /\ \A k \in Jobs \ {j} : item'[k] = item[k]
  BY DEF Enqueue, PoolInvariant, Typed, TypeOK, Items
<1>2. UNCHANGED <<lease, left, worker, faults, over>>
  BY DEF Enqueue
<1>3. ASSUME NEW k \in Jobs PROVE FreshAt(k)'
  BY <1>1, <1>2, <1>3 DEF PoolInvariant, Fresh, FreshAt
<1>4. ASSUME faults = 0, NEW w \in Workers PROVE CoveredAt(w)' /\ GrantingAt(w)'
  <2>1. CoveredAt(w) /\ GrantingAt(w)
    BY <1>4 DEF PoolInvariant, Timely
  <2>2. ASSUME worker[w].pc \in Working, worker[w].job \notin over
        PROVE  Owns(w, worker[w].job)' /\ LeaseIsMine(w, worker[w].job)'
    <3>1. Owns(w, worker[w].job) /\ LeaseIsMine(w, worker[w].job) /\ worker[w].job \in Jobs
      BY <2>1, <2>2 DEF CoveredAt, PoolInvariant, Typed, Coherent, CoherentAt
    <3>2. worker[w].job # j
      BY <1>1, <3>1 DEF Owns, Held
    <3> QED BY <1>1, <1>2, <3>1, <3>2 DEF Owns, Held, LeaseIsMine
  <2> QED BY <1>2, <2>1, <2>2 DEF CoveredAt, GrantingAt
<1>5. ASSUME faults = 0, NEW k \in Jobs PROVE SecuredAt(k)'
  BY <1>2, <1>5 DEF PoolInvariant, Timely, SecuredAt
<1> QED BY <1>2, <1>3, <1>4, <1>5 DEF Fresh, Timely

\* A death frees the rows of the dead and nobody else's.
LEMMA DiesKeeps ==
  ASSUME PoolInvariant, NEW w \in Workers, Dies(w)
  PROVE  Fresh' /\ Timely'
<1>1. worker'[w] = At("down") /\ \A v \in Workers \ {w} : worker'[v] = worker[v]
  BY Moved DEF Dies, PoolInvariant, Typed
<1>2. worker'[w].pc \notin Working \cup Claiming
  BY <1>1, FreshProcess DEF Working, Claiming
<1>3. \A j \in Jobs :
        /\ item'[j].status = item[j].status
        /\ item'[j].owner = IF item[j].owner = w THEN Nobody ELSE item[j].owner
        /\ lease'[j].status = lease[j].status
        /\ lease'[j].owner = IF lease[j].owner = w THEN Nobody ELSE lease[j].owner
  BY OrphanedRows DEF Dies, PoolInvariant, Typed, TypeOK
<1>4. left' = left /\ faults' = faults /\ over \subseteq over'
  BY DEF Dies
<1>5. ASSUME NEW j \in Jobs PROVE FreshAt(j)'
  <2>1. FreshAt(j)
    BY <1>5 DEF PoolInvariant, Fresh
  <2>2. ASSUME lease[j].status = "absent", NEW v \in Workers
        PROVE  /\ worker'[v].pc \in Working => worker'[v].job # j
               /\ worker'[v].pc \in Claiming /\ worker'[v].job = j =>
                    worker'[v].row.status = "pending" /\ worker'[v].row.owner = Nobody
               /\ worker'[v].pc = "granting" /\ worker'[v].job = j =>
                    worker'[v].held.status = "absent" /\ worker'[v].held.owner = Nobody
    <3>1. CASE v = w
      BY <1>2, <3>1 DEF Claiming
    <3>2. CASE v # w
      BY <1>1, <2>1, <2>2, <3>2 DEF FreshAt
    <3> QED BY <3>1, <3>2
  <2> QED BY <1>3, <2>1, <2>2 DEF FreshAt
<1>6. ASSUME faults = 0, NEW v \in Workers PROVE CoveredAt(v)' /\ GrantingAt(v)'
  <2>1. CASE v = w
    BY <1>2, <2>1 DEF CoveredAt, GrantingAt, Claiming
  <2>2. CASE v # w
    <3>1. CoveredAt(v) /\ GrantingAt(v) /\ worker'[v] = worker[v]
      BY <1>1, <1>6, <2>2 DEF PoolInvariant, Timely
    <3>2. ASSUME worker[v].pc \in Working, worker[v].job \notin over
          PROVE  Owns(v, worker[v].job)' /\ LeaseIsMine(v, worker[v].job)'
      <4>1. Owns(v, worker[v].job) /\ LeaseIsMine(v, worker[v].job) /\ worker[v].job \in Jobs
        BY <3>1, <3>2 DEF CoveredAt, PoolInvariant, Typed, Coherent, CoherentAt
      <4> QED BY <1>3, <1>4, <2>2, <3>1, <4>1 DEF Owns, Held, LeaseIsMine
    <3> QED BY <1>4, <3>1, <3>2 DEF CoveredAt, GrantingAt
  <2> QED BY <2>1, <2>2
<1>7. ASSUME faults = 0, NEW j \in Jobs PROVE SecuredAt(j)'
  <2> SUFFICES ASSUME j \notin over', lease'[j].status # "absent"
               PROVE  \E v \in Workers : worker'[v].pc \in Working /\ worker'[v].job = j
    BY DEF SecuredAt
  <2>1. j \notin over /\ lease[j].status # "absent"
    BY <1>3, <1>4
  <2>2. PICK v \in Workers : worker[v].pc \in Working /\ worker[v].job = j
    BY <1>7, <2>1 DEF PoolInvariant, Timely, SecuredAt
  <2>3. v # w
    BY <2>2 DEF Dies
  <2> QED BY <1>1, <2>2, <2>3
<1> QED BY <1>4, <1>5, <1>6, <1>7 DEF Fresh, Timely

\* The fields a claim writes.
LEMMA ClaimedFields ==
  ASSUME NEW w \in Workers, NEW current, NEW old
  PROVE  /\ Claimed(current, old, w).status \in {"claimed", current.status}
         /\ old.status # "claimed" => Claimed(current, old, w).status = "claimed"
         /\ old.owner # w => Claimed(current, old, w).owner = w
  BY DEF Claimed

\* claim() hands out what nobody works on, or a job that has had its first execution.
LEMMA WriteClaimKeeps ==
  ASSUME PoolInvariant, NEW w \in Workers, WriteClaim(w)
  PROVE  Fresh' /\ Timely'
<1> DEFINE j == worker[w].job
           p == [At("running") EXCEPT !.job = j, !.due = Interval, !.handler = "executing"]
<1>1. j \in Jobs /\ worker[w].pc = "granting"
  BY DEF WriteClaim, PoolInvariant, Typed, Coherent, CoherentAt, Working, Claiming
<1>2. worker'[w] = p /\ \A v \in Workers \ {w} : worker'[v] = worker[v]
  BY Moved DEF WriteClaim, Goes, PoolInvariant, Typed
<1>3. worker'[w].pc = "running" /\ worker'[w].job = j /\ worker'[w].due = Interval
  BY <1>2 DEF At
<1>4. /\ \A k \in Jobs \ {j} : item'[k] = item[k] /\ lease'[k] = lease[k] /\ left'[k] = left[k]
      /\ item'[j] = Claimed(item[j], worker[w].row, w)
      /\ lease'[j] = Claimed(lease[j], worker[w].held, w)
      /\ left'[j] = worker[w].due
      /\ faults' = faults /\ over' = over
  BY <1>1 DEF WriteClaim, PoolInvariant, Typed, TypeOK
<1>5. worker[w].held.status = "absent" => lease[j].status = "absent"
  BY DEF WriteClaim, MayWriteLease
<1>6. lease'[j].status # "absent"
  <2>1. CASE lease[j].status = "absent"
    <3>1. worker[w].held.status = "absent"
      BY <1>1, <2>1 DEF PoolInvariant, Fresh, FreshAt
    <3> QED BY <1>4, <3>1, ClaimedFields
  <2>2. CASE lease[j].status # "absent"
    BY <1>4, <2>2, ClaimedFields
  <2> QED BY <2>1, <2>2
<1>7. ASSUME NEW k \in Jobs PROVE FreshAt(k)'
  <2>1. CASE k = j
    BY <1>6, <2>1 DEF FreshAt
  <2>2. CASE k # j
    <3>1. FreshAt(k)
      BY DEF PoolInvariant, Fresh
    <3>2. ASSUME lease[k].status = "absent", NEW v \in Workers
          PROVE  /\ worker'[v].pc \in Working => worker'[v].job # k
                 /\ worker'[v].pc \in Claiming /\ worker'[v].job = k =>
                      worker'[v].row.status = "pending" /\ worker'[v].row.owner = Nobody
                 /\ worker'[v].pc = "granting" /\ worker'[v].job = k =>
                      worker'[v].held.status = "absent" /\ worker'[v].held.owner = Nobody
      <4>1. CASE v = w
        BY <1>3, <2>2, <4>1 DEF Claiming
      <4>2. CASE v # w
        BY <1>2, <3>1, <3>2, <4>2 DEF FreshAt
      <4> QED BY <4>1, <4>2
    <3> QED BY <1>4, <2>2, <3>1, <3>2 DEF FreshAt
  <2> QED BY <2>1, <2>2
<1>8. ASSUME faults = 0, j \notin over
      PROVE  /\ item'[j].status = "claimed" /\ item'[j].owner = w
             /\ lease'[j].status = "claimed" /\ lease'[j].owner = w
             /\ left'[j] = LeaseTTL
             /\ \A v \in Workers : worker[v].pc \in Working => worker[v].job # j
  <2>1. GrantingAt(w)
    BY <1>8 DEF PoolInvariant, Timely
  <2>2. worker[w].due = LeaseTTL /\ worker[w].held.status = "absent"
    BY <1>1, <1>8, <2>1 DEF GrantingAt
  <2>3. lease[j].status = "absent" /\ FreshAt(j)
    BY <1>1, <1>5, <2>2 DEF PoolInvariant, Fresh
  <2>4. /\ worker[w].row.status = "pending" /\ worker[w].row.owner = Nobody
        /\ worker[w].held.owner = Nobody
        /\ \A v \in Workers : worker[v].pc \in Working => worker[v].job # j
    BY <1>1, <2>3 DEF FreshAt, Claiming
  <2>5. Nobody # w
    BY PoolAssumption
  <2>6. item'[j].status = "claimed" /\ item'[j].owner = w
    BY <1>4, <2>4, <2>5, ClaimedFields
  <2>7. lease'[j].status = "claimed" /\ lease'[j].owner = w
    BY <1>4, <2>2, <2>4, <2>5, ClaimedFields
  <2> QED BY <1>4, <2>2, <2>4, <2>6, <2>7
<1>9. ASSUME faults = 0, NEW v \in Workers PROVE CoveredAt(v)' /\ GrantingAt(v)'
  <2>1. CASE v = w
    <3>1. LeaseTTL > 0 /\ LeaseTTL > Interval
      BY PoolAssumption
    <3> QED BY <1>3, <1>4, <1>8, <1>9, <2>1, <3>1
        DEF CoveredAt, GrantingAt, Owns, Held, LeaseIsMine
  <2>2. CASE v # w
    <3>1. CoveredAt(v) /\ GrantingAt(v) /\ worker'[v] = worker[v]
      BY <1>2, <1>9, <2>2 DEF PoolInvariant, Timely
    <3>2. ASSUME worker[v].pc \in Working, worker[v].job \notin over
          PROVE  worker[v].job \in Jobs \ {j}
      BY <1>8, <1>9, <3>2 DEF PoolInvariant, Typed, Coherent, CoherentAt
    <3>3. ASSUME worker[v].pc \in Working, worker[v].job \notin over
          PROVE  /\ Owns(v, worker[v].job)' /\ LeaseIsMine(v, worker[v].job)'
                 /\ left'[worker[v].job] = left[worker[v].job]
      BY <1>4, <3>1, <3>2, <3>3 DEF CoveredAt, Owns, Held, LeaseIsMine
    <3> QED BY <1>4, <3>1, <3>3 DEF CoveredAt, GrantingAt
  <2> QED BY <2>1, <2>2
<1>10. ASSUME faults = 0, NEW k \in Jobs PROVE SecuredAt(k)'
  <2>1. CASE k = j
    BY <1>3, <2>1 DEF SecuredAt, Working
  <2>2. CASE k # j
    <3> SUFFICES ASSUME k \notin over, lease[k].status # "absent"
                 PROVE  \E v \in Workers : worker'[v].pc \in Working /\ worker'[v].job = k
      BY <1>4, <2>2 DEF SecuredAt
    <3>1. PICK v \in Workers : worker[v].pc \in Working /\ worker[v].job = k
      BY <1>10 DEF PoolInvariant, Timely, SecuredAt
    <3>2. v # w
      BY <1>1, <3>1 DEF Working
    <3> QED BY <1>2, <3>1, <3>2
  <2> QED BY <2>1, <2>2
<1> QED BY <1>4, <1>7, <1>9, <1>10 DEF Fresh, Timely

\* A heartbeat renews the claim of the first execution by a whole lease.
LEMMA WriteHeartbeatKeeps ==
  ASSUME PoolInvariant, NEW w \in Workers, WriteHeartbeat(w)
  PROVE  Fresh' /\ Timely'
<1> DEFINE j == worker[w].job
<1>1. j \in Jobs /\ worker[w].pc = "extending"
  BY DEF WriteHeartbeat, PoolInvariant, Typed, Coherent, CoherentAt, Working
<1>2. /\ worker'[w].pc = "running" /\ worker'[w].job = j /\ worker'[w].due = Interval
      /\ \A v \in Workers \ {w} : worker'[v] = worker[v]
  <2>1. worker[w] \in Processes
    BY DEF PoolInvariant, Typed, TypeOK
  <2>2. /\ worker'[w] = [worker[w] EXCEPT !.pc = "running", !.due = Interval]
        /\ \A v \in Workers \ {w} : worker'[v] = worker[v]
    BY Moved DEF WriteHeartbeat, Goes, PoolInvariant, Typed
  <2> QED BY <2>1, <2>2 DEF Processes
<1>3. /\ item' = item /\ lease' = lease /\ over' = over /\ faults' = faults
      /\ left'[j] = worker[w].due /\ \A k \in Jobs \ {j} : left'[k] = left[k]
  BY <1>1 DEF WriteHeartbeat, Beat, PoolInvariant, Typed, TypeOK
<1>4. ASSUME NEW k \in Jobs PROVE FreshAt(k)'
  <2>1. FreshAt(k)
    BY DEF PoolInvariant, Fresh
  <2>2. ASSUME lease[k].status = "absent", NEW v \in Workers
        PROVE  /\ worker'[v].pc \in Working => worker'[v].job # k
               /\ worker'[v].pc \in Claiming /\ worker'[v].job = k =>
                    worker'[v].row.status = "pending" /\ worker'[v].row.owner = Nobody
               /\ worker'[v].pc = "granting" /\ worker'[v].job = k =>
                    worker'[v].held.status = "absent" /\ worker'[v].held.owner = Nobody
    <3>1. CASE v = w
      <4>1. worker[w].job # k
        BY <1>1, <2>1, <2>2 DEF FreshAt, Working
      <4> QED BY <1>2, <3>1, <4>1 DEF Claiming
    <3>2. CASE v # w
      BY <1>2, <2>1, <2>2, <3>2 DEF FreshAt
    <3> QED BY <3>1, <3>2
  <2> QED BY <1>3, <2>1, <2>2 DEF FreshAt
<1>5. ASSUME faults = 0, j \notin over, NEW v \in Workers \ {w}, worker[v].pc \in Working
      PROVE  worker[v].job # j
  <2>1. CoveredAt(w) /\ CoveredAt(v)
    BY <1>5 DEF PoolInvariant, Timely
  <2>2. item[j].owner = w
    BY <1>1, <1>5, <2>1 DEF CoveredAt, Owns, Working
  <2> QED BY <1>5, <2>1, <2>2 DEF CoveredAt, Owns
<1>6. ASSUME faults = 0, NEW v \in Workers PROVE CoveredAt(v)' /\ GrantingAt(v)'
  <2>0. CoveredAt(v) /\ GrantingAt(v)
    BY <1>6 DEF PoolInvariant, Timely
  <2>1. CASE v = w
    <3>1. LeaseTTL > 0 /\ LeaseTTL > Interval
      BY PoolAssumption
    <3>2. ASSUME j \notin over PROVE CoveredAt(v)'
      <4>1. Owns(w, j) /\ LeaseIsMine(w, j) /\ worker[w].due = LeaseTTL
        BY <1>1, <2>0, <2>1, <3>2 DEF CoveredAt, Working
      <4> QED BY <1>2, <1>3, <2>1, <3>1, <4>1 DEF CoveredAt, Owns, Held, LeaseIsMine
    <3> QED BY <1>2, <1>3, <2>1, <3>2 DEF CoveredAt, GrantingAt
  <2>2. CASE v # w
    <3>1. worker'[v] = worker[v]
      BY <1>2, <2>2
    <3>2. ASSUME worker[v].pc \in Working, worker[v].job \notin over
          PROVE  worker[v].job \in Jobs \ {j}
      BY <1>5, <1>6, <2>2, <3>2 DEF PoolInvariant, Typed, Coherent, CoherentAt
    <3>3. ASSUME worker[v].pc \in Working, worker[v].job \notin over
          PROVE  /\ Owns(v, worker[v].job)' /\ LeaseIsMine(v, worker[v].job)'
                 /\ left'[worker[v].job] = left[worker[v].job]
      BY <1>3, <2>0, <3>1, <3>2, <3>3 DEF CoveredAt, Owns, Held, LeaseIsMine
    <3> QED BY <1>3, <2>0, <3>1, <3>3 DEF CoveredAt, GrantingAt
  <2> QED BY <2>1, <2>2
<1>7. ASSUME faults = 0, NEW k \in Jobs PROVE SecuredAt(k)'
  <2> SUFFICES ASSUME k \notin over, lease[k].status # "absent"
               PROVE  \E v \in Workers : worker'[v].pc \in Working /\ worker'[v].job = k
    BY <1>3 DEF SecuredAt
  <2>1. PICK v \in Workers : worker[v].pc \in Working /\ worker[v].job = k
    BY <1>7 DEF PoolInvariant, Timely, SecuredAt
  <2> QED BY <1>2, <2>1 DEF Working
<1> QED BY <1>3, <1>4, <1>6, <1>7 DEF Fresh, Timely

\* A report ends the first execution of its job and touches no other job.
LEMMA WriteReportKeeps ==
  ASSUME PoolInvariant, NEW w \in Workers, WriteReport(w)
  PROVE  Fresh' /\ Timely'
<1> DEFINE j == worker[w].job
<1>1. j \in Jobs /\ worker[w].pc = "closing"
  BY DEF WriteReport, PoolInvariant, Typed, Coherent, CoherentAt, Working
<1>2. worker'[w] = At("polling") /\ \A v \in Workers \ {w} : worker'[v] = worker[v]
  BY Moved DEF WriteReport, Goes, PoolInvariant, Typed
<1>3. worker'[w].pc \notin Working \cup Claiming
  BY <1>2, FreshProcess DEF Working, Claiming
<1>4. /\ \A k \in Jobs \ {j} : item'[k] = item[k] /\ lease'[k] = lease[k] /\ left'[k] = left[k]
      /\ lease'[j].status \in {"released", lease[j].status}
      /\ over' = over \cup {j} /\ faults' = faults
  <2>1. lease[j] \in Leases
    BY <1>1 DEF PoolInvariant, Typed, TypeOK
  <2> QED BY <1>1, <2>1 DEF WriteReport, PoolInvariant, Typed, TypeOK, Leases
<1>5. lease[j].status # "absent"
  BY <1>1 DEF PoolInvariant, Fresh, FreshAt, Working
<1>6. ASSUME NEW k \in Jobs PROVE FreshAt(k)'
  <2>1. CASE k = j
    BY <1>4, <1>5, <2>1 DEF FreshAt
  <2>2. CASE k # j
    <3>1. FreshAt(k)
      BY DEF PoolInvariant, Fresh
    <3>2. ASSUME lease[k].status = "absent", NEW v \in Workers
          PROVE  /\ worker'[v].pc \in Working => worker'[v].job # k
                 /\ worker'[v].pc \in Claiming /\ worker'[v].job = k =>
                      worker'[v].row.status = "pending" /\ worker'[v].row.owner = Nobody
                 /\ worker'[v].pc = "granting" /\ worker'[v].job = k =>
                      worker'[v].held.status = "absent" /\ worker'[v].held.owner = Nobody
      <4>1. CASE v = w
        BY <1>3, <4>1 DEF Claiming
      <4>2. CASE v # w
        BY <1>2, <3>1, <3>2, <4>2 DEF FreshAt
      <4> QED BY <4>1, <4>2
    <3> QED BY <1>4, <2>2, <3>1, <3>2 DEF FreshAt
  <2> QED BY <2>1, <2>2
<1>7. ASSUME faults = 0, NEW v \in Workers PROVE CoveredAt(v)' /\ GrantingAt(v)'
  <2>1. CASE v = w
    BY <1>3, <2>1 DEF CoveredAt, GrantingAt, Claiming
  <2>2. CASE v # w
    <3>1. CoveredAt(v) /\ GrantingAt(v) /\ worker'[v] = worker[v]
      BY <1>2, <1>7, <2>2 DEF PoolInvariant, Timely
    <3>2. ASSUME worker[v].pc \in Working, worker[v].job \notin over'
          PROVE  /\ Owns(v, worker[v].job)' /\ LeaseIsMine(v, worker[v].job)'
                 /\ left'[worker[v].job] = left[worker[v].job]
      <4>1. worker[v].job \in Jobs \ {j} /\ worker[v].job \notin over
        BY <1>4, <3>2 DEF PoolInvariant, Typed, Coherent, CoherentAt
      <4> QED BY <1>4, <3>1, <3>2, <4>1 DEF CoveredAt, Owns, Held, LeaseIsMine
    <3> QED BY <1>4, <3>1, <3>2 DEF CoveredAt, GrantingAt
  <2> QED BY <2>1, <2>2
<1>8. ASSUME faults = 0, NEW k \in Jobs PROVE SecuredAt(k)'
  <2> SUFFICES ASSUME k \notin over', lease'[k].status # "absent"
               PROVE  \E v \in Workers : worker'[v].pc \in Working /\ worker'[v].job = k
    BY DEF SecuredAt
  <2>1. k # j /\ k \notin over /\ lease[k].status # "absent"
    BY <1>4
  <2>2. PICK v \in Workers : worker[v].pc \in Working /\ worker[v].job = k
    BY <1>8, <2>1 DEF PoolInvariant, Timely, SecuredAt
  <2>3. v # w
    BY <2>1, <2>2
  <2> QED BY <1>2, <2>2, <2>3
<1> QED BY <1>4, <1>6, <1>7, <1>8 DEF Fresh, Timely

\* claim() up to its write: what it has read is what is there, as long as nobody
\* has had the job.
LEMMA ClaimReadsKeep ==
  ASSUME PoolInvariant, NEW w \in Workers,
         (\E j \in Jobs : SelectItem(w, j)) \/ ReadLease(w)
  PROVE  Fresh' /\ Timely'
<1>1. CASE \E j \in Jobs : SelectItem(w, j)
  <2>1. PICK j \in Jobs : SelectItem(w, j)
    BY <1>1
  <2> DEFINE p == [At("leasing") EXCEPT !.job = j, !.row = item[j]]
  <2>2. worker'[w] = p /\ \A v \in Workers \ {w} : worker'[v] = worker[v]
    BY <2>1, Moved DEF SelectItem, Goes, PoolInvariant, Typed
  <2>3. worker'[w].pc = "leasing" /\ worker'[w].job = j /\ worker'[w].row = item[j]
    BY <2>2 DEF At
  <2>4. lease[j].status = "absent" => item[j].status = "pending" /\ item[j].owner = Nobody
    BY <2>1 DEF SelectItem, Available, PoolInvariant, Fresh, FreshAt
  <2>5. worker[w].pc \notin Working /\ UNCHANGED <<tables, faults>>
    BY <2>1 DEF SelectItem, Working
  <2>6. worker'[w].pc \notin Working /\ worker'[w].pc # "granting"
    BY <2>3 DEF Working
  <2>7. CoveredAt(w)' /\ GrantingAt(w)'
    BY <2>6 DEF CoveredAt, GrantingAt
  <2> QED BY <2>2, <2>3, <2>4, <2>5, <2>6, <2>7, ProcessStep
<1>2. CASE ReadLease(w)
  <2> DEFINE j == worker[w].job
  <2>1. j \in Jobs /\ worker[w].pc = "leasing" /\ UNCHANGED <<tables, faults>>
    BY <1>2 DEF ReadLease, PoolInvariant, Typed, Coherent, CoherentAt, Working, Claiming
  <2>2. \A v \in Workers \ {w} : worker'[v] = worker[v]
    BY <1>2, Moved DEF ReadLease, Goes, PoolInvariant, Typed
  <2>3. /\ worker'[w].pc = "granting" /\ worker'[w].job = j /\ worker'[w].row = worker[w].row
        /\ worker'[w].held = lease[j] /\ worker'[w].due = LeaseTTL
    <3>1. worker[w] \in Processes
      BY DEF PoolInvariant, Typed, TypeOK
    <3>2. worker'[w] = [worker[w] EXCEPT !.pc = "granting", !.due = LeaseTTL, !.held = lease[j]]
      BY <1>2, Moved DEF ReadLease, Goes, PoolInvariant, Typed
    <3> QED BY <3>1, <3>2 DEF Processes
  <2>4. FreshAt(j)
    BY <2>1 DEF PoolInvariant, Fresh
  <2>5. lease[j].status = "absent" =>
          /\ worker[w].row.status = "pending" /\ worker[w].row.owner = Nobody
          /\ lease[j].owner = Nobody
    BY <2>1, <2>4 DEF FreshAt, Claiming
  <2>6. ASSUME faults = 0, j \notin over PROVE lease[j].status = "absent"
    <3> SUFFICES ASSUME lease[j].status # "absent" PROVE FALSE
      OBVIOUS
    <3>1. PICK v \in Workers : worker[v].pc \in Working /\ worker[v].job = j
      BY <2>1, <2>6 DEF PoolInvariant, Timely, SecuredAt
    <3>2. LeaseIsMine(v, j)
      BY <2>6, <3>1 DEF PoolInvariant, Timely, CoveredAt
    <3>3. v # w
      BY <2>1, <3>1 DEF Working
    <3> QED BY <1>2, <3>2, <3>3 DEF ReadLease, LeaseClaimable, LeaseIsMine
  <2>7. over' = over /\ faults' = faults
    BY <2>1 DEF tables
  <2>8. worker[w].pc \notin Working /\ worker'[w].pc \notin Working
    BY <2>1, <2>3 DEF Working
  <2>9. worker'[w].pc \in Claiming /\ lease[worker'[w].job].status = "absent" =>
          worker'[w].row.status = "pending" /\ worker'[w].row.owner = Nobody
    BY <2>3, <2>5
  <2>10. worker'[w].pc = "granting" /\ lease[worker'[w].job].status = "absent" =>
           worker'[w].held.status = "absent" /\ worker'[w].held.owner = Nobody
    BY <2>3, <2>5
  <2>11. CoveredAt(w)'
    BY <2>8 DEF CoveredAt
  <2>12. faults' = 0 => GrantingAt(w)'
    BY <2>3, <2>6, <2>7 DEF GrantingAt
  <2>13. UNCHANGED tables /\ faults' = faults
    BY <2>1
  <2> QED BY <2>2, <2>8, <2>9, <2>10, <2>11, <2>12, <2>13, ProcessStep
<1> QED BY <1>1, <1>2

\* The steps of a process at work that write no row and do not let go of the job.
LEMMA WorkStep ==
  ASSUME PoolInvariant, NEW w \in Workers, UNCHANGED tables,
         \A v \in Workers \ {w} : worker'[v] = worker[v],
         worker[w].pc \in Working, worker'[w].pc \in Working, worker'[w].job = worker[w].job,
         faults' = 0 => faults = 0,
         faults' = 0 /\ worker[w].job \notin over =>
           /\ worker'[w].pc # "lost"
           /\ worker'[w].pc = "running" => left[worker[w].job] > worker'[w].due
           /\ worker'[w].pc = "extending" => worker'[w].due = LeaseTTL
  PROVE  Fresh' /\ Timely'
<1>1. worker'[w].pc \notin Claiming
  BY DEF Working, Claiming
<1>2. item' = item /\ lease' = lease /\ left' = left /\ over' = over
  BY DEF tables
<1>3. ASSUME faults' = 0 PROVE CoveredAt(w)' /\ GrantingAt(w)'
  <2>1. CoveredAt(w)
    BY <1>3 DEF PoolInvariant, Timely
  <2>2. ASSUME worker[w].job \notin over
        PROVE  Owns(w, worker[w].job)' /\ LeaseIsMine(w, worker[w].job)'
    BY <1>2, <2>1, <2>2 DEF CoveredAt, Owns, Held, LeaseIsMine
  <2> QED BY <1>1, <1>2, <1>3, <2>2 DEF CoveredAt, GrantingAt, Claiming
<1>4. worker'[w].pc # "granting"
  BY <1>1 DEF Claiming
<1> QED BY <1>1, <1>3, <1>4, ProcessStep

\* Heartbeats and reports up to their writes, and the end of a handler.
LEMMA WorkReadsKeep ==
  ASSUME PoolInvariant, NEW w \in Workers,
         \/ StartHeartbeat(w) \/ CheckLease(w) \/ StartReport(w) \/ ReadReleased(w)
         \/ \E outcome \in Outcomes : HandlerEnds(w, outcome)
  PROVE  Fresh' /\ Timely'
<1>1. PICK q : Goes(w, q) /\ UNCHANGED <<tables, faults>>
  BY DEF StartHeartbeat, CheckLease, StartReport, ReadReleased, HandlerEnds
<1>2. worker'[w] = q /\ \A v \in Workers \ {w} : worker'[v] = worker[v]
  BY <1>1, Moved DEF Goes, PoolInvariant, Typed
<1>3. worker[w] \in Processes /\ worker \in [Workers -> Processes]
  BY DEF PoolInvariant, Typed, TypeOK
<1>4. worker[w].pc \in Working
  BY DEF StartHeartbeat, CheckLease, StartReport, ReadReleased, HandlerEnds, WaitTimedOut,
         HandlerEnded, Working, PoolInvariant, Typed, Coherent, CoherentAt
<1>5. /\ worker'[w].pc \in Working /\ worker'[w].job = worker[w].job
      /\ worker'[w].pc = "lost" => worker[w].pc = "lost"
      /\ worker'[w].pc = "running" => worker[w].pc = "running" /\ worker'[w].due = worker[w].due
      /\ worker'[w].pc = "extending" =>
           \/ worker'[w].due = LeaseTTL
           \/ worker[w].pc = "extending" /\ worker'[w].due = worker[w].due
  <2>1. ASSUME NEW pc \in {"beating", "reporting"}, worker'[w] = [worker[w] EXCEPT !.pc = pc, !.due = 0]
        PROVE  worker'[w].pc = pc /\ worker'[w].job = worker[w].job
    BY <1>3, <2>1 DEF Processes
  <2>2. CASE StartHeartbeat(w) \/ StartReport(w)
    <3>1. PICK pc \in {"beating", "reporting"} : worker'[w] = [worker[w] EXCEPT !.pc = pc, !.due = 0]
      BY <1>3, <2>2 DEF StartHeartbeat, StartReport, Goes
    <3> QED BY <2>1, <3>1 DEF Working
  <2>3. CASE CheckLease(w)
    <3>1. worker'[w] = [worker[w] EXCEPT !.pc = "extending", !.due = LeaseTTL]
      BY <1>3, <2>3 DEF CheckLease, Goes
    <3> QED BY <1>3, <3>1 DEF Processes, Working
  <2>4. CASE ReadReleased(w)
    <3>1. PICK l : worker'[w] = [worker[w] EXCEPT !.pc = "closing", !.held = l]
      BY <1>3, <2>4 DEF ReadReleased, Goes
    <3>2. ASSUME NEW r \in Processes
          PROVE  LET p == [r EXCEPT !.pc = "closing", !.held = l]
                 IN  p.pc = "closing" /\ p.job = r.job
      BY DEF Processes
    <3> QED BY <1>3, <3>1, <3>2 DEF Working
  <2>5. ASSUME NEW outcome \in Outcomes, HandlerEnds(w, outcome)
        PROVE  /\ worker'[w].pc = worker[w].pc /\ worker'[w].job = worker[w].job
               /\ worker'[w].due = worker[w].due
    <3>1. worker'[w] = [worker[w] EXCEPT !.handler = outcome]
      BY <1>3, <2>5 DEF HandlerEnds, Goes
    <3> QED BY <1>3, <3>1 DEF Processes
  <2> QED BY <1>4, <2>2, <2>3, <2>4, <2>5
<1>6. ASSUME faults' = 0, worker[w].job \notin over
      PROVE  /\ worker'[w].pc # "lost"
             /\ worker'[w].pc = "running" => left[worker[w].job] > worker'[w].due
             /\ worker'[w].pc = "extending" => worker'[w].due = LeaseTTL
  <2>1. CoveredAt(w)
    BY <1>1, <1>6 DEF PoolInvariant, Timely
  <2> QED BY <1>4, <1>5, <1>6, <2>1 DEF CoveredAt
<1> QED BY <1>1, <1>2, <1>4, <1>5, <1>6, WorkStep

\* Losing the lease of a first execution takes a fault.
LEMMA LoseLeaseKeeps ==
  ASSUME PoolInvariant, NEW w \in Workers, LoseLease(w)
  PROVE  Fresh' /\ Timely'
<1>1. worker[w].pc \in {"running", "beating", "extending"} /\ worker[w].pc \in Working
  BY DEF LoseLease, WaitTimedOut, Working
<1>2. /\ worker'[w].pc = "lost" /\ worker'[w].job = worker[w].job
      /\ \A v \in Workers \ {w} : worker'[v] = worker[v]
  <2>1. worker[w] \in Processes
    BY DEF PoolInvariant, Typed, TypeOK
  <2>2. /\ worker'[w] = [worker[w] EXCEPT !.pc = "lost", !.due = 0]
        /\ \A v \in Workers \ {w} : worker'[v] = worker[v]
    BY Moved DEF LoseLease, Refusal, Goes, PoolInvariant, Typed
  <2> QED BY <2>1, <2>2 DEF Processes
<1>3. faults' = 0 => faults = 0 /\ worker[w].job \in over
  <2> SUFFICES ASSUME faults' = 0 PROVE faults = 0 /\ worker[w].job \in over
    OBVIOUS
  <2>1. ~Fault
    BY FaultTypes DEF PoolInvariant, Typed
  <2>2. faults = 0 /\ (~Owns(w, worker[w].job) \/ ~LeaseIsMine(w, worker[w].job))
    BY <2>1 DEF LoseLease
  <2> QED BY <1>1, <2>2 DEF PoolInvariant, Timely, CoveredAt
<1> QED BY <1>1, <1>2, <1>3, WorkStep DEF LoseLease, Working

\* Letting go of a job without a report: refused, or after a fault.
LEMMA LetGoKeeps ==
  ASSUME PoolInvariant, NEW w \in Workers, ClaimFails(w) \/ Abandon(w) \/ ReportFails(w)
  PROVE  Fresh' /\ Timely'
<1>1. Goes(w, At("polling")) /\ UNCHANGED tables
  BY DEF ClaimFails, Abandon, ReportFails
<1>2. faults' = 0 => faults = 0 /\ ~Fault
  BY FaultTypes DEF ClaimFails, Abandon, ReportFails, PoolInvariant, Typed
<1>3. ASSUME faults' = 0, worker[w].pc \in Working, worker[w].job \notin over PROVE FALSE
  <2>1. CoveredAt(w)
    BY <1>2, <1>3 DEF PoolInvariant, Timely
  <2>2. CASE ClaimFails(w)
    BY <1>3, <2>2 DEF ClaimFails, Working
  <2>3. CASE Abandon(w)
    BY <1>3, <2>1, <2>3 DEF Abandon, CoveredAt
  <2>4. CASE ReportFails(w)
    <3>1. Owns(w, worker[w].job) /\ LeaseIsMine(w, worker[w].job)
      BY <1>3, <2>1 DEF CoveredAt
    <3> QED BY <1>2, <1>3, <2>4, <3>1 DEF ReportFails, LeaseReleasable, LeaseIsMine
  <2> QED BY <2>2, <2>3, <2>4
<1> QED BY <1>1, <1>2, <1>3, IdleStep

\* The steps of the environment that touch no row.
LEMMA StartStopKeep ==
  ASSUME PoolInvariant, Start \/ Stop \/ UNCHANGED vars
  PROVE  Fresh' /\ Timely'
<1>1. UNCHANGED <<item, lease, left, over, faults>>
  BY DEF Start, Stop, tables, vars
<1>2. CASE UNCHANGED worker
  <2>1. \A j \in Jobs : FreshAt(j)' = FreshAt(j)
    BY <1>1, <1>2 DEF FreshAt
  <2>2. \A w \in Workers : CoveredAt(w)' = CoveredAt(w) /\ GrantingAt(w)' = GrantingAt(w)
    BY <1>1, <1>2 DEF CoveredAt, GrantingAt, Owns, Held, LeaseIsMine
  <2>3. \A j \in Jobs : SecuredAt(j)' = SecuredAt(j)
    BY <1>1, <1>2 DEF SecuredAt
  <2> QED BY <1>1, <2>1, <2>2, <2>3 DEF PoolInvariant, Fresh, Timely
<1>3. CASE Start
  <2>1. \A w \in Workers : worker'[w] = At("polling") /\ worker[w].pc = "down"
    BY <1>3 DEF Start, Up
  <2>2. \A w \in Workers : worker'[w].pc = "polling"
    BY <2>1, FreshProcess
  <2>3. Fresh'
    BY <1>1, <2>2 DEF PoolInvariant, Fresh, FreshAt, Working, Claiming
  <2>4. \A w \in Workers : CoveredAt(w)' /\ GrantingAt(w)'
    BY <2>2 DEF CoveredAt, GrantingAt, Working
  <2>5. faults = 0 => \A j \in Jobs : j \in over \/ lease[j].status = "absent"
    BY <2>1 DEF PoolInvariant, Timely, SecuredAt, Working
  <2>6. faults = 0 => \A j \in Jobs : SecuredAt(j)'
    BY <1>1, <2>5 DEF SecuredAt
  <2> QED BY <1>1, <2>3, <2>4, <2>6 DEF Timely
<1> QED BY <1>2, <1>3 DEF Stop, vars

\* Every step of the pool preserves the invariant.
LEMMA InvariantStep == PoolInvariant /\ [Next]_vars => PoolInvariant'
<1> SUFFICES ASSUME PoolInvariant, [Next]_vars PROVE Fresh' /\ Timely'
  BY TypedStep DEF PoolInvariant
<1>1. CASE Tick
  BY <1>1, TickKeeps
<1>2. ASSUME NEW j \in Jobs, Enqueue(j) PROVE Fresh' /\ Timely'
  BY <1>2, EnqueueKeeps
<1>3. CASE Start \/ Stop \/ UNCHANGED vars
  BY <1>3, StartStopKeep
<1>4. ASSUME NEW w \in Workers, Terminate(w) \/ Crash(w) PROVE Fresh' /\ Timely'
  BY <1>4, DiesKeeps DEF Terminate, Crash
<1>5. ASSUME NEW w \in Workers, Poll(w) PROVE Fresh' /\ Timely'
  <2>1. CASE Dies(w)
    BY <2>1, DiesKeeps
  <2>2. CASE Goes(w, At("claiming")) /\ UNCHANGED <<tables, faults>>
    <3>1. worker[w].pc \notin Working
      BY <1>5 DEF Poll, Working
    <3> QED BY <2>2, <3>1, IdleStep
  <2> QED BY <1>5, <2>1, <2>2 DEF Poll
<1>6. ASSUME NEW w \in Workers, (\E j \in Jobs : SelectItem(w, j)) \/ ReadLease(w)
      PROVE  Fresh' /\ Timely'
  BY <1>6, ClaimReadsKeep
<1>7. ASSUME NEW w \in Workers, WriteClaim(w) PROVE Fresh' /\ Timely'
  BY <1>7, WriteClaimKeeps
<1>8. ASSUME NEW w \in Workers, ClaimFails(w) \/ Abandon(w) \/ ReportFails(w)
      PROVE  Fresh' /\ Timely'
  BY <1>8, LetGoKeeps
<1>9. ASSUME NEW w \in Workers,
             \/ StartHeartbeat(w) \/ CheckLease(w) \/ StartReport(w) \/ ReadReleased(w)
             \/ \E outcome \in Outcomes : HandlerEnds(w, outcome)
      PROVE  Fresh' /\ Timely'
  BY <1>9, WorkReadsKeep
<1>10. ASSUME NEW w \in Workers, WriteHeartbeat(w) PROVE Fresh' /\ Timely'
  BY <1>10, WriteHeartbeatKeeps
<1>11. ASSUME NEW w \in Workers, LoseLease(w) PROVE Fresh' /\ Timely'
  BY <1>11, LoseLeaseKeeps
<1>12. ASSUME NEW w \in Workers, WriteReport(w) PROVE Fresh' /\ Timely'
  BY <1>12, WriteReportKeeps
<1> QED
  BY <1>1, <1>2, <1>3, <1>4, <1>5, <1>6, <1>7, <1>8, <1>9, <1>10, <1>11, <1>12
  DEF Next, WorkerStep

\* The strengthened invariant of the pool.
THEOREM PoolInvariantHolds == Spec => []PoolInvariant
<1>1. Init => PoolInvariant
  BY InvariantInit
<1> QED BY <1>1, InvariantStep, PTL DEF Spec

\* Whatever the interleaving of the statements of claims, heartbeats and reports,
\* and for any heartbeat interval below the lease time: while every timer and
\* every database call is in time, nobody else executes a job before its first
\* execution has been reported or its process has died.
THEOREM OneFirstExecution == Spec => []FirstExecutionExclusive
<1>1. PoolInvariant => FirstExecutionExclusive
  <2> SUFFICES ASSUME PoolInvariant, faults = 0, NEW j \in Jobs \ over,
                      NEW v \in Workers, NEW w \in Workers, Executes(v, j), Executes(w, j)
               PROVE  v = w
    BY DEF FirstExecutionExclusive
  <2>1. ASSUME NEW u \in Workers, Executes(u, j) PROVE item[j].owner = u
    <3>1. worker[u].pc \in Working /\ worker[u].job = j
      BY <2>1 DEF Executes, PoolInvariant, Typed, Coherent, CoherentAt
    <3>2. Owns(u, worker[u].job)
      BY <3>1 DEF PoolInvariant, Timely, CoveredAt
    <3> QED BY <3>1, <3>2 DEF Owns
  <2> QED BY <2>1
<1> QED BY <1>1, PoolInvariantHolds, PTL

\* What a step that ends an item looks like.
LEMMA OutcomeStep ==
  ASSUME PoolInvariant, [Next]_vars, faults = 0, NEW j \in Jobs \ over,
         item[j].status # item'[j].status, item'[j].status \in Terminal
  PROVE  \E w \in Workers :
           /\ worker[w].job = j /\ worker[w].pc = "closing"
           /\ Owns(w, j) /\ LeaseIsMine(w, j)
           /\ item'[j].status = StatusOf(worker[w].handler)
<1>0. item \in [Jobs -> Items] /\ lease \in [Jobs -> Leases] /\ item[j] \in Items
  BY DEF PoolInvariant, Typed, TypeOK
<1>1. ~UNCHANGED item
  OBVIOUS
<1>2. ASSUME NEW k \in Jobs, Enqueue(k) PROVE FALSE
  <2>1. item'[j].status \in {item[j].status, "pending"}
    BY <1>0, <1>2 DEF Enqueue, Items
  <2> QED BY <2>1 DEF Terminal
<1>3. ASSUME NEW w \in Workers, Dies(w) PROVE FALSE
  <2>1. item'[j].status = item[j].status
    BY <1>0, <1>3, OrphanedRows DEF Dies
  <2> QED BY <2>1
<1>4. ASSUME NEW w \in Workers, WriteClaim(w) PROVE FALSE
  <2>1. item'[j].status \in {item[j].status, "claimed"}
    BY <1>0, <1>4, ClaimedFields DEF WriteClaim
  <2> QED BY <2>1 DEF Terminal
<1>5. ASSUME NEW w \in Workers, WriteReport(w)
      PROVE  /\ worker[w].job = j /\ worker[w].pc = "closing"
             /\ Owns(w, j) /\ LeaseIsMine(w, j)
             /\ item'[j].status = StatusOf(worker[w].handler)
  <2> DEFINE k == worker[w].job
  <2>1. /\ worker[w].pc = "closing"
        /\ item' = [item EXCEPT ![k].status = StatusOf(worker[w].handler)]
    BY <1>5 DEF WriteReport
  <2>2. k = j
    BY <1>0, <2>1
  <2>3. item'[j].status = StatusOf(worker[w].handler)
    BY <1>0, <2>1, <2>2 DEF Items
  <2>4. CoveredAt(w)
    BY DEF PoolInvariant, Timely
  <2> QED BY <2>1, <2>2, <2>3, <2>4 DEF CoveredAt, Working
<1> QED
  BY <1>1, <1>2, <1>3, <1>4, <1>5
  DEF Next, WorkerStep, Tick, Start, Stop, Terminate, Crash, Poll, SelectItem, ReadLease, ClaimFails,
      StartHeartbeat, CheckLease, WriteHeartbeat, LoseLease, Abandon, StartReport, ReadReleased,
      ReportFails, HandlerEnds, tables, vars

\* The terminal result of a first execution comes from the process that holds the
\* live claim at the moment of the write, and says what its handler did.
THEOREM FirstOutcomeIsHolders == Spec => FirstOutcomeFromHolder
<1>1. PoolInvariant /\ [Next]_vars =>
        [faults = 0 => \A j \in Jobs \ over :
           item[j].status # item'[j].status /\ item'[j].status \in Terminal =>
             \E w \in Workers :
               /\ worker[w].job = j /\ worker[w].pc = "closing"
               /\ Owns(w, j) /\ LeaseIsMine(w, j)
               /\ item'[j].status = StatusOf(worker[w].handler)]_vars
  BY OutcomeStep
<1> QED BY <1>1, PoolInvariantHolds, PTL DEF Spec, FirstOutcomeFromHolder

=============================================================================
