------------------------ MODULE MissionRuntime_proofs ------------------------
(***************************************************************************)
(* Proofs about MissionRuntime: its types and who stops a mission, for any *)
(* number of servers, up at once or one after the other, any number of     *)
(* questions, and whether or not other coroutines run while a request uses *)
(* its copy of the row; that terminal missions stay terminal, paused ones  *)
(* paused, and where an answer can be undone, for one server after the     *)
(* other and requests that use at once the row they have read (OneAtATime). *)
(***************************************************************************)
EXTENDS MissionRuntime, FiniteSetTheorems, TLAPS

Statuses == {"absent", "paused"} \cup Resumable \cup Terminal

Pcs == {"idle", "created", "claimed", "closing", "leaving"} \cup Trying

\* What the operators on a mission make of it is a mission.
LEMMA MissionTypes ==
  /\ NoMission \in Missions
  /\ \A m \in Missions : /\ \A s \in Statuses : With(m, s) \in Missions
                         /\ ParkRow(m) \in Missions
                         /\ \A q \in Questions : Accepted(m, q) \in Missions
BY DEF NoMission, Missions, With, ParkRow, Accepted, Statuses, Resumable

\* The same for the operators that read the row.
LEMMA RowTypes ==
  ASSUME row \in Missions, NEW m \in Missions
  PROVE  /\ Synced(m) \in Missions
         /\ \A s \in Statuses : With(Synced(m), s) \in Missions
         /\ SuspendedStatus(m) \in Statuses
<1>1. Synced(m) \in Missions
  BY DEF Synced, Missions
<1> QED BY <1>1, MissionTypes DEF SuspendedStatus, Statuses, Resumable

\* Tasks that do not run, or only begin.
LEMMA FreshRuns ==
  /\ NoRun \in Runs
  /\ \A m \in Missions, why \in {"create", "boot", "resume", "answer"} : Started(m, why) \in Runs
BY MissionTypes DEF NoRun, Started, Runs, Trying

\* A task may be given any program counter and any mission.
LEMMA RunTypes ==
  ASSUME NEW R \in Runs, NEW pc \in Pcs, NEW m \in Missions, NEW b \in BOOLEAN,
         NEW t \in {"none", "recovery", "wait"}
  PROVE  /\ [R EXCEPT !.pc = pc] \in Runs
         /\ [R EXCEPT !.pc = pc, !.mem = m] \in Runs
         /\ [R EXCEPT !.pc = pc, !.mem = m, !.cancelled = b] \in Runs
         /\ [R EXCEPT !.pc = pc, !.task = t] \in Runs
         /\ [R EXCEPT !.pc = pc, !.task = t, !.mem = m] \in Runs
         /\ [R EXCEPT !.pc = pc, !.killed = b] \in Runs
         /\ [R EXCEPT !.cancelled = b] \in Runs
         /\ [R EXCEPT !.killed = b] \in Runs
<1>1. /\ [R EXCEPT !.pc = pc] \in Runs
      /\ [R EXCEPT !.pc = pc, !.mem = m] \in Runs
      /\ [R EXCEPT !.pc = pc, !.mem = m, !.cancelled = b] \in Runs
  BY DEF Runs, Pcs
<1>2. /\ [R EXCEPT !.pc = pc, !.task = t] \in Runs
      /\ [R EXCEPT !.pc = pc, !.task = t, !.mem = m] \in Runs
  BY DEF Runs, Pcs
<1>3. /\ [R EXCEPT !.pc = pc, !.killed = b] \in Runs
      /\ [R EXCEPT !.cancelled = b] \in Runs
      /\ [R EXCEPT !.killed = b] \in Runs
  BY DEF Runs, Pcs
<1> QED BY <1>1, <1>2, <1>3

\* The system starts well typed.
LEMMA TypeInit == Init => TypeOK
<1> SUFFICES ASSUME Init PROVE TypeOK
  OBVIOUS
<1>1. NoRequest \in Requests
  BY MissionTypes DEF NoRequest, Requests
<1>2. lease \in Leases
  BY DEF Init, Leases
<1>3. row \in Missions /\ run \in [Runtimes -> Runs]
  BY MissionTypes, FreshRuns DEF Init
<1> QED BY <1>1, <1>2, <1>3 DEF Init, TypeOK

\* A step of run() that gives its task a well typed value.
LEMMA MovesType ==
  ASSUME TypeOK, NEW r \in Runtimes, NEW new \in Runs, Moves(r, new),
         row' \in Missions, lease' \in Leases, asked' \in Questions \cup {0}
  PROVE  TypeOK'
BY DEF Moves, requests, TypeOK

\* The end of a task, whoever waits for it.
LEMMA ReturnsType ==
  ASSUME TypeOK, NEW r \in Runtimes, Returns(r), row' \in Missions, lease' \in Leases,
         asked' \in Questions \cup {0},
         flags' \in [Runtimes -> SUBSET {"stopped", "pausing", "suspending", "killed"}]
  PROVE  TypeOK'
<1>1. run' \in [Runtimes -> Runs]
  BY FreshRuns DEF Returns, TypeOK
<1>2. pauser' \in [Runtimes -> Requests]
  <2>1. \A p \in Requests : [p EXCEPT !.pc = IF @ = "joining" THEN "joined" ELSE @] \in Requests
    BY DEF Requests
  <2> QED BY <2>1 DEF Returns, TypeOK
<1> QED BY <1>1, <1>2 DEF Returns, TypeOK

\* The consumption of an answer.
LEMMA ConsumeType ==
  ASSUME TypeOK, NEW r \in Runtimes, NEW q \in Questions, NEW pc \in Pcs, Consume(r, q, pc)
  PROVE  TypeOK'
<1> DEFINE answers == [row.answers EXCEPT ![q] = "consumed"]
           m == [[run[r].mem EXCEPT !.question = row.question] EXCEPT !.answers = answers]
<1>1. run[r] \in Runs /\ run[r].mem \in Missions /\ row \in Missions
  BY DEF TypeOK, Runs
<1>2. m \in Missions /\ [row EXCEPT !.answers = answers] \in Missions
  BY <1>1 DEF Missions
<1>3. [run[r] EXCEPT !.pc = pc, !.mem.question = row.question, !.mem.answers = answers] \in Runs
  BY <1>1, <1>2 DEF Runs, Pcs
<1> QED BY <1>2, <1>3, MovesType DEF Consume, TypeOK

\* Waiting for an answer.
LEMMA ParkType ==
  ASSUME TypeOK, NEW r \in Runtimes, NEW m \in Missions, Park(r, m), asked' \in Questions \cup {0}
  PROVE  TypeOK'
<1>1. With(m, "waiting") \in Missions /\ ParkRow(m) \in Missions
  BY MissionTypes DEF Statuses, Resumable
<1>2. run[r] \in Runs /\ "parked" \in Pcs
  BY DEF TypeOK, Pcs, Trying
<1>3. [run[r] EXCEPT !.pc = "parked", !.mem = With(m, "waiting")] \in Runs
  BY <1>1, <1>2, RunTypes
<1> QED BY <1>1, <1>3, MovesType DEF Park, Save, TypeOK

\* What run() does up to its first decision keeps the types.
LEMMA StartTypeStep ==
  ASSUME TypeOK, NEW r \in Runtimes,
         \/ LeaseConflict(r) \/ ClaimLease(r) \/ Hydrate(r) \/ Begin(r)
         \/ \E q \in Questions : ConsumeEarlier(r, q)
         \/ ParkAgain(r) \/ RecoverTasks(r)
  PROVE  TypeOK'
<1> DEFINE R == run[r]
           m == R.mem
<1>0. /\ R \in Runs /\ m \in Missions /\ row \in Missions /\ lease \in Leases
      /\ asked \in Questions \cup {0}
      /\ {"claimed", "discovering", "resuming", "parked", "between"} \subseteq Pcs
  BY DEF TypeOK, Runs, Pcs, Trying
<1>1. CASE LeaseConflict(r)
  BY <1>1, ReturnsType DEF LeaseConflict, TypeOK
<1>2. CASE ClaimLease(r)
  <2>1. lease' \in Leases
    BY <1>2 DEF ClaimLease, Leases
  <2> QED BY <1>0, <1>2, <2>1, RunTypes, MovesType DEF ClaimLease, Goes
<1>3. CASE Hydrate(r)
  <2>1. [R EXCEPT !.pc = "discovering", !.mem = Synced(m)] \in Runs
    BY <1>0, RowTypes, RunTypes
  <2> QED BY <1>0, <1>3, <2>1, MovesType DEF Hydrate
<1>4. CASE Begin(r)
  <2>1. With(m, "running") \in Missions
    BY <1>0, MissionTypes DEF Statuses, Resumable
  <2>2. [R EXCEPT !.pc = "resuming", !.mem = With(m, "running")] \in Runs
    BY <1>0, <2>1, RunTypes
  <2> QED BY <1>0, <1>4, <2>1, <2>2, MovesType DEF Begin, Save
<1>5. ASSUME NEW q \in Questions, ConsumeEarlier(r, q) PROVE TypeOK'
  BY <1>0, <1>5, ConsumeType DEF ConsumeEarlier
<1>6. CASE ParkAgain(r)
  BY <1>0, <1>6, ParkType DEF ParkAgain
<1>7. CASE RecoverTasks(r)
  <2>1. [R EXCEPT !.pc = "between", !.task = "recovery"] \in Runs
    BY <1>0, RunTypes
  <2> QED BY <1>0, <1>7, <2>1, MovesType DEF RecoverTasks
<1> QED BY <1>1, <1>2, <1>3, <1>4, <1>5, <1>6, <1>7

\* What run() does from decision to decision keeps the types.
LEMMA WorkTypeStep ==
  ASSUME TypeOK, NEW r \in Runtimes,
         \/ Call(r) \/ Respond(r) \/ Ask(r) \/ HearAnswer(r) \/ Continue(r)
         \/ Delegate(r) \/ Dispatch(r) \/ BeginTask(r) \/ EndTask(r) \/ TasksDone(r)
         \/ \E status \in {"completed", "blocked"} : Conclude(r, status)
  PROVE  TypeOK'
<1> DEFINE R == run[r]
           m == R.mem
<1>0. /\ R \in Runs /\ m \in Missions /\ row \in Missions /\ lease \in Leases
      /\ asked \in Questions \cup {0}
      /\ {"calling", "deciding", "parked", "answered", "dispatching", "between", "concluding"}
           \subseteq Pcs
  BY DEF TypeOK, Runs, Pcs, Trying
<1>r. With(m, "running") \in Missions /\ With(m, "waiting") \in Missions
  BY <1>0, MissionTypes DEF Statuses, Resumable
<1>1. CASE Call(r) \/ Respond(r) \/ Dispatch(r) \/ BeginTask(r) \/ EndTask(r)
  <2>1. /\ [R EXCEPT !.pc = "calling"] \in Runs
        /\ [R EXCEPT !.pc = "deciding"] \in Runs
        /\ [R EXCEPT !.pc = "dispatching"] \in Runs
        /\ [R EXCEPT !.pc = "between"] \in Runs
    BY <1>0, RunTypes
  <2>2. row' \in Missions /\ lease' = lease /\ asked' = asked
    BY <1>0, <1>1 DEF Call, Respond, Dispatch, BeginTask, EndTask, Save
  <2>3. \E new \in Runs : Moves(r, new)
    BY <1>1, <2>1 DEF Call, Respond, Dispatch, BeginTask, EndTask, Goes
  <2> QED BY <1>0, <2>2, <2>3, MovesType
<1>2. CASE Ask(r)
  <2>1. PICK q \in Questions : asked' = q /\ Park(r, [m EXCEPT !.question = q])
    BY <1>2 DEF Ask
  <2>2. [m EXCEPT !.question = q] \in Missions
    BY <1>0 DEF Missions
  <2> QED BY <2>1, <2>2, ParkType
<1>3. CASE HearAnswer(r)
  <2>1. m.question \in Questions
    BY <1>0, <1>3 DEF HearAnswer, Missions
  <2> QED BY <1>0, <1>3, <2>1, ConsumeType DEF HearAnswer
<1>4. CASE Continue(r)
  <2>1. [R EXCEPT !.pc = "calling", !.mem = With(m, "running")] \in Runs
    BY <1>0, <1>r, RunTypes
  <2> QED BY <1>0, <1>r, <1>4, <2>1, MovesType DEF Continue, Save
<1>5. CASE Delegate(r)
  <2>1. [R EXCEPT !.pc = "between", !.task = "wait", !.mem = With(m, "waiting")] \in Runs
    BY <1>0, <1>r, RunTypes
  <2> QED BY <1>0, <1>r, <1>5, <2>1, MovesType DEF Delegate, Save
<1>6. CASE TasksDone(r)
  <2> DEFINE n == IF R.task = "wait" THEN With(m, "running") ELSE m
             done == [R EXCEPT !.task = "none", !.mem = n]
  <2>1. n \in Missions /\ With(n, "waiting") \in Missions /\ ParkRow(n) \in Missions
    BY <1>0, <1>r, MissionTypes DEF Statuses, Resumable
  <2>2. done \in Runs
    BY <1>0, <2>1 DEF Runs
  <2>3. /\ [done EXCEPT !.pc = "parked", !.mem = With(n, "waiting")] \in Runs
        /\ [done EXCEPT !.pc = "calling"] \in Runs
    BY <1>0, <2>1, <2>2, RunTypes
  <2>4. row' \in Missions /\ lease' = lease /\ asked' = asked
    BY <1>0, <1>6, <2>1 DEF TasksDone, Save
  <2>5. \E new \in Runs : Moves(r, new)
    BY <1>6, <2>3 DEF TasksDone
  <2> QED BY <1>0, <2>4, <2>5, MovesType
<1>7. ASSUME NEW status \in {"completed", "blocked"}, Conclude(r, status) PROVE TypeOK'
  <2>1. [R EXCEPT !.pc = "concluding", !.mem.status = status] \in Runs
    BY <1>0 DEF Runs, Pcs, Missions, Terminal
  <2> QED BY <1>0, <1>7, <2>1, MovesType DEF Conclude
<1> QED BY <1>1, <1>2, <1>3, <1>4, <1>5, <1>6, <1>7

\* Leaving the try keeps the types.
LEMMA EndsType ==
  ASSUME TypeOK, NEW r \in Runtimes, NEW status \in Statuses,
         Ends(r, status) \/ Suspends(r)
  PROVE  TypeOK'
<1> DEFINE R == run[r]
           m == R.mem
<1>0. /\ R \in Runs /\ m \in Missions /\ row \in Missions /\ lease \in Leases
      /\ asked \in Questions \cup {0} /\ {"closing", "leaving"} \subseteq Pcs
  BY DEF TypeOK, Runs, Pcs
<1>1. /\ With(Synced(m), status) \in Missions
      /\ With(Synced(m), SuspendedStatus(m)) \in Missions
  BY <1>0, RowTypes
<1>2. CASE Ends(r, status)
  <2>1. [R EXCEPT !.pc = "closing", !.mem = With(Synced(m), status), !.cancelled = FALSE] \in Runs
    BY <1>0, <1>1, RunTypes
  <2> QED BY <1>0, <1>2, <2>1, MovesType DEF Ends
<1>3. CASE Suspends(r)
  <2> DEFINE n == With(Synced(m), SuspendedStatus(m))
  <2>1. [R EXCEPT !.pc = "leaving", !.mem = n, !.cancelled = FALSE] \in Runs
    BY <1>0, <1>1, RunTypes
  <2> QED BY <1>0, <1>1, <1>3, <2>1, MovesType DEF Suspends, Save
<1> QED BY <1>2, <1>3

\* What a cancellation writes is a status, unless the run is suspended.
LEMMA CancelledStatuses ==
  \A r \in Runtimes : CancelledStatus(r) \in {"stopped", "paused", "suspended"}
BY DEF CancelledStatus

\* A cancellation ends in one of the two ways.
LEMMA EndsCancelledType ==
  ASSUME TypeOK, NEW r \in Runtimes, EndsCancelled(r)
  PROVE  TypeOK'
<1>1. CASE CancelledStatus(r) = "suspended"
  BY <1>1, EndsType DEF EndsCancelled, Statuses
<1>2. CASE CancelledStatus(r) \in {"stopped", "paused"}
  BY <1>2, EndsType DEF EndsCancelled, Statuses, Terminal
<1> QED BY <1>1, <1>2, CancelledStatuses

\* How run() ends keeps the types.
LEMMA EndTypeStep ==
  ASSUME TypeOK, NEW r \in Runtimes,
         \/ CheckFails(r) \/ Cancelled(r) \/ KillLands(r) \/ Fails(r)
         \/ Finish(r) \/ Close(r) \/ Leave(r)
  PROVE  TypeOK'
<1> DEFINE R == run[r]
           m == R.mem
<1>0. /\ R \in Runs /\ m \in Missions /\ row \in Missions /\ lease \in Leases
      /\ m.status \in Statuses
      /\ asked \in Questions \cup {0} /\ {"between", "leaving"} \subseteq Pcs
  BY DEF TypeOK, Runs, Pcs, Missions, Statuses, Trying
<1>1. CASE CheckFails(r)
  BY <1>1, EndsType DEF CheckFails, Statuses, Terminal
<1>2. CASE Cancelled(r)
  <2>1. CASE Returns(r) /\ UNCHANGED <<row, lease, asked, flags>>
    BY <1>0, <2>1, ReturnsType DEF TypeOK
  <2>2. CASE EndsCancelled(r)
    BY <2>2, EndsCancelledType
  <2>3. CASE /\ Moves(r, [R EXCEPT !.pc = "leaving", !.cancelled = FALSE])
             /\ UNCHANGED <<row, lease, asked>>
    <3>1. [R EXCEPT !.pc = "leaving", !.cancelled = FALSE] \in Runs
      BY <1>0 DEF Runs
    <3> QED BY <1>0, <2>3, <3>1, MovesType
  <2> QED BY <1>2, <2>1, <2>2, <2>3 DEF Cancelled
<1>3. CASE KillLands(r)
  <2>1. CASE EndsCancelled(r)
    BY <2>1, EndsCancelledType
  <2>2. CASE /\ Moves(r, [R EXCEPT !.pc = "between", !.killed = FALSE])
             /\ UNCHANGED <<row, lease, asked>>
    <3>1. [R EXCEPT !.pc = "between", !.killed = FALSE] \in Runs
      BY <1>0, RunTypes
    <3> QED BY <1>0, <2>2, <3>1, MovesType
  <2> QED BY <1>3, <2>1, <2>2 DEF KillLands
<1>4. CASE Fails(r)
  BY <1>4, EndsType DEF Fails, Statuses, Terminal
<1>5. CASE Finish(r)
  BY <1>0, <1>5, EndsType DEF Finish
<1>6. CASE Close(r)
  <2>1. [R EXCEPT !.pc = "leaving"] \in Runs
    BY <1>0, RunTypes
  <2> QED BY <1>0, <1>6, <2>1, MovesType DEF Close, Goes, Save
<1>7. CASE Leave(r)
  <2>1. lease' \in Leases
    BY <1>0, <1>7 DEF Leave, Leases
  <2>2. flags' \in [Runtimes -> SUBSET {"stopped", "pausing", "suspending", "killed"}]
    BY <1>7 DEF Leave, TypeOK
  <2> QED BY <1>0, <1>7, <2>1, <2>2, ReturnsType DEF Leave
<1> QED BY <1>1, <1>2, <1>3, <1>4, <1>5, <1>6, <1>7

\* A request may be given any program counter and any copy of the row.
LEMMA RequestTypes ==
  /\ NoRequest \in Requests
  /\ \A pc \in {"joining", "joined", "checkpoint", "answering", "starting"}, m \in Missions,
        why \in {"none", "resume", "answer"} :
       [pc |-> pc, copy |-> m, why |-> why] \in Requests
  /\ \A q \in Requests, pc \in {"joining", "joined", "checkpoint", "answering", "starting"} :
       [q EXCEPT !.pc = pc] \in Requests
BY MissionTypes DEF NoRequest, Requests

\* Requests keep the types.
LEMMA RequestTypeStep ==
  ASSUME TypeOK, NEW r \in Runtimes,
         RequestBegins(r) \/ StopJoined(r) \/ StopSweep(r) \/ PauseJoined(r) \/ UseCopy(r)
  PROVE  TypeOK'
<1>0. /\ run[r] \in Runs /\ row \in Missions /\ row.status \in Statuses
      /\ pauser[r] \in Requests /\ starter[r] \in Requests
      /\ pauser[r].copy \in Missions /\ starter[r].copy \in Missions
  BY DEF TypeOK, Missions, Statuses, Requests
<1>1. CASE Create(r)
  <2>1. With(NoMission, "pending") \in Missions
    BY MissionTypes DEF Statuses, Resumable
  <2>2. Started(With(NoMission, "pending"), "create") \in Runs
    BY <2>1, FreshRuns
  <2> QED BY <1>1, <2>1, <2>2 DEF Create, Save, requests, TypeOK
<1>2. CASE StopBegin(r)
  <2>1. Live(r) \in BOOLEAN
    BY DEF Live
  <2>2. [run[r] EXCEPT !.cancelled = Live(r)] \in Runs
    BY <1>0, <2>1 DEF Runs
  <2> QED BY <1>2, <2>2 DEF StopBegin, TypeOK
<1>3. CASE StopJoined(r) \/ StopSweep(r)
  <2>1. With(row, "stopped") \in Missions
    BY <1>0, MissionTypes DEF Statuses, Terminal
  <2> QED BY <1>3, <2>1 DEF StopJoined, AfterJoin, StopSweep, TypeOK
<1>4. CASE PauseBegin(r) \/ PauseOffline(r) \/ PauseJoined(r)
  <2>1. CASE PauseBegin(r)
    <3>1. [pauser[r] EXCEPT !.pc = "joining"] \in Requests
      BY <1>0, RequestTypes
    <3> QED BY <2>1, <3>1 DEF PauseBegin, TypeOK
  <2>2. CASE PauseOffline(r)
    BY <1>0, <2>2, RequestTypes DEF PauseOffline, TypeOK
  <2>3. CASE PauseJoined(r)
    BY <2>3, RequestTypes DEF PauseJoined, TypeOK
  <2> QED BY <1>4, <2>1, <2>2, <2>3
<1>5. CASE PauseCheckpoint(r)
  <2>1. With(pauser[r].copy, "paused") \in Missions
    BY <1>0, MissionTypes DEF Statuses
  <2> QED BY <1>5, <2>1, RequestTypes DEF PauseCheckpoint, Save, TypeOK
<1>6. CASE ResumeBegin(r)
  BY <1>0, <1>6, RequestTypes DEF ResumeBegin, TypeOK
<1>7. CASE AnswerAccept(r)
  <2>1. row.question \in Questions
    BY <1>0, <1>7 DEF AnswerAccept, Missions
  <2>2. Accepted(row, row.question) \in Missions
    BY <1>0, <2>1, MissionTypes
  <2> QED BY <1>7, <2>2, RequestTypes DEF AnswerAccept, Save, TypeOK
<1>8. CASE AnswerRoute(r)
  BY <1>0, <1>8, RequestTypes DEF AnswerRoute, TypeOK
<1>9. CASE StartRun(r)
  <2>1. starter[r].why \in {"none", "resume", "answer"}
    BY <1>0 DEF Requests
  <2>2. Started(starter[r].copy, starter[r].why) \in Runs
    BY <1>0, <2>1, MissionTypes DEF Started, NoRun, Runs, Trying
  <2> QED BY <1>9, <2>2, RequestTypes DEF StartRun, TypeOK
<1>10. CASE Kill(r)
  <2>1. [run[r] EXCEPT !.killed = TRUE] \in Runs
    BY <1>0 DEF Runs
  <2> QED BY <1>10, <2>1 DEF Kill, requests, TypeOK
<1> QED
  BY <1>1, <1>2, <1>3, <1>4, <1>5, <1>6, <1>7, <1>8, <1>9, <1>10 DEF RequestBegins, UseCopy

\* So do boots, shutdowns, exits, crashes and the clock.
LEMMA ServerTypeStep ==
  ASSUME TypeOK, NEW r \in Runtimes, ServerStep(r) \/ LeaseExpires
  PROVE  TypeOK'
<1>0. run[r] \in Runs /\ row \in Missions /\ lease \in Leases
  BY DEF TypeOK
<1>1. CASE Boot(r)
  BY <1>0, <1>1, FreshRuns DEF Boot, requests, TypeOK
<1>2. CASE Shutdown(r)
  <2>1. [run[r] EXCEPT !.cancelled = Live(r)] \in Runs
    BY <1>0 DEF Runs, Live
  <2> QED BY <1>2, <2>1 DEF Shutdown, requests, TypeOK
<1>3. CASE Exit(r)
  BY <1>3 DEF Exit, requests, TypeOK
<1>4. CASE Crash(r)
  BY <1>4, FreshRuns, RequestTypes DEF Crash, TypeOK
<1>5. CASE LeaseExpires
  <2>1. lease' \in Leases
    BY <1>0, <1>5 DEF LeaseExpires, Leases
  <2> QED BY <1>5, <2>1 DEF LeaseExpires, requests, TypeOK
<1> QED BY <1>1, <1>2, <1>3, <1>4, <1>5 DEF ServerStep

\* No step leaves the types.
LEMMA TypeStep == TypeOK /\ [Next]_vars => TypeOK'
<1> SUFFICES ASSUME TypeOK, [Next]_vars PROVE TypeOK'
  OBVIOUS
<1>1. ASSUME NEW r \in Runtimes,
             UseCopy(r) \/ RequestBegins(r) \/ StopJoined(r) \/ StopSweep(r) \/ PauseJoined(r)
      PROVE  TypeOK'
  BY <1>1, RequestTypeStep
<1>2. ASSUME NEW r \in Runtimes, RunStep(r) \/ Fails(r) PROVE TypeOK'
  BY <1>2, StartTypeStep, WorkTypeStep, EndTypeStep DEF RunStep
<1>3. ASSUME NEW r \in Runtimes, ServerStep(r) PROVE TypeOK'
  BY <1>3, ServerTypeStep
<1>4. CASE LeaseExpires
  BY <1>4 DEF LeaseExpires, requests, TypeOK, Leases
<1>5. CASE UNCHANGED vars
  BY <1>5 DEF vars, requests, TypeOK
<1> QED BY <1>1, <1>2, <1>3, <1>4, <1>5 DEF Next

\* Type correctness of the row, of every copy of it and of the control state.
THEOREM TypeCorrect == Spec => []TypeOK
  BY TypeInit, TypeStep, PTL DEF Spec

-----------------------------------------------------------------------------
(* Who stopped the mission *)

Requested == \E r \in Runtimes : flags[r] \cap {"stopped", "killed"} # {}

Accounted(m) == m.status = "stopped" => Requested

\* Every cancellation, kill and stop in progress has its flag.
Blamed(r) ==
  /\ run[r].cancelled => flags[r] \cap {"stopped", "suspending"} # {}
  /\ run[r].killed => "killed" \in flags[r]
  /\ stopper[r] # "none" => "stopped" \in flags[r]

\* No copy of the mission that may be saved says "stopped" unless somebody asked.
\* StoppedOnlyOnRequest is not inductive: the row is overwritten with copies.
Provenance ==
  /\ Accounted(row)
  /\ \A r \in Runtimes :
       /\ Blamed(r)
       /\ Accounted(run[r].mem) /\ Accounted(pauser[r].copy) /\ Accounted(starter[r].copy)

\* Nobody has stopped a mission that is not there.
LEMMA ProvenanceInit == Init => Provenance
BY DEF Init, Provenance, Accounted, Blamed, NoMission, NoRun, NoRequest

\* A step of run() that leaves the flags alone.
LEMMA MovesProvenance ==
  ASSUME TypeOK, Provenance, NEW r \in Runtimes, NEW new \in Runs, Moves(r, new),
         row'.status = "stopped" => Requested,
         new.mem.status = "stopped" => Requested,
         new.cancelled => run[r].cancelled,
         new.killed => run[r].killed
  PROVE  Provenance'
<1>1. Requested' = Requested
  BY DEF Moves, Requested
<1>2. run'[r] = new /\ \A s \in Runtimes \ {r} : run'[s] = run[s]
  BY DEF Moves, TypeOK
<1>3. flags' = flags /\ stopper' = stopper /\ pauser' = pauser /\ starter' = starter
  BY DEF Moves, requests
<1> QED BY <1>1, <1>2, <1>3 DEF Provenance, Accounted, Blamed

\* The end of a task: the flags lose at most "pausing".
LEMMA ReturnsProvenance ==
  ASSUME TypeOK, Provenance, NEW r \in Runtimes, Returns(r), row' = row,
         \/ flags' = flags
         \/ flags' = [flags EXCEPT ![r] = @ \ {"pausing"}]
  PROVE  Provenance'
<1>1. \A s \in Runtimes : flags'[s] \ {"pausing"} = flags[s] \ {"pausing"}
  BY DEF TypeOK
<1>2. Requested' = Requested
  BY <1>1 DEF Requested
<1>3. run'[r] = NoRun /\ \A s \in Runtimes \ {r} : run'[s] = run[s]
  BY DEF Returns, TypeOK
<1>4. \A s \in Runtimes : /\ stopper'[s] # "none" => stopper[s] # "none"
                          /\ pauser'[s].copy = pauser[s].copy
                          /\ starter'[s] = starter[s]
  BY DEF Returns, TypeOK, Requests
<1>5. \A s \in Runtimes : Blamed(s)'
  BY <1>1, <1>3, <1>4 DEF Provenance, Blamed, NoRun
<1>6. Accounted(NoRun.mem)'
  BY DEF Accounted, NoRun, NoMission
<1> QED BY <1>2, <1>3, <1>4, <1>5, <1>6 DEF Provenance, Accounted

\* Leaving the try as stopped takes a flag.
LEMMA EndsProvenance ==
  ASSUME TypeOK, Provenance, NEW r \in Runtimes, NEW status \in Statuses,
         Ends(r, status) \/ Suspends(r),
         status = "stopped" => Requested
  PROVE  Provenance'
<1> DEFINE m == run[r].mem
<1>0. run[r] \in Runs /\ m \in Missions /\ row \in Missions /\ {"closing", "leaving"} \subseteq Pcs
  BY DEF TypeOK, Runs, Pcs
<1>1. CASE Ends(r, status)
  <2> DEFINE n == With(Synced(m), status)
             new == [run[r] EXCEPT !.pc = "closing", !.mem = n, !.cancelled = FALSE]
  <2>1. n \in Missions /\ new \in Runs
    BY <1>0, RowTypes, RunTypes
  <2>2. n.status = status
    BY <1>0, RowTypes DEF With, Missions
  <2>3. new.mem = n /\ ~new.cancelled /\ new.killed = run[r].killed
    BY <1>0 DEF Runs
  <2> HIDE DEF n, new
  <2>4. Moves(r, new) /\ row' = row
    BY <1>1 DEF Ends, n, new
  <2> QED BY <2>1, <2>2, <2>3, <2>4, MovesProvenance DEF Provenance, Accounted
<1>2. CASE Suspends(r)
  <2> DEFINE n == With(Synced(m), SuspendedStatus(m))
             new == [run[r] EXCEPT !.pc = "leaving", !.mem = n, !.cancelled = FALSE]
  <2>1. n \in Missions /\ new \in Runs
    BY <1>0, RowTypes, RunTypes
  <2>2. n.status # "stopped"
    BY <1>0, RowTypes DEF With, SuspendedStatus, Missions
  <2>3. new.mem = n /\ ~new.cancelled /\ new.killed = run[r].killed
    BY <1>0 DEF Runs
  <2> HIDE DEF n, new
  <2>4. Moves(r, new) /\ row' = n
    BY <1>2 DEF Suspends, Save, n, new
  <2> QED BY <2>1, <2>2, <2>3, <2>4, MovesProvenance DEF Provenance, Accounted
<1> QED BY <1>1, <1>2

\* A cancellation that ends the mission as stopped was a stop or a kill.
LEMMA EndsCancelledProvenance ==
  ASSUME TypeOK, Provenance, NEW r \in Runtimes, EndsCancelled(r),
         run[r].cancelled \/ run[r].killed
  PROVE  Provenance'
<1>1. CASE CancelledStatus(r) = "suspended"
  BY <1>1, EndsProvenance DEF EndsCancelled, Statuses
<1>2. CASE CancelledStatus(r) = "paused"
  BY <1>2, EndsProvenance DEF EndsCancelled, Statuses
<1>3. CASE CancelledStatus(r) = "stopped"
  <2>1. Requested
    BY <1>3 DEF Provenance, Blamed, CancelledStatus, Requested
  <2> QED BY <1>3, <2>1, EndsProvenance DEF EndsCancelled, Statuses, Terminal
<1> QED BY <1>1, <1>2, <1>3, CancelledStatuses

\* Up to the end of the try no step of run() makes the mission stopped.
LEMMA WorkProvenance ==
  ASSUME TypeOK, Provenance, NEW r \in Runtimes,
         \/ LeaseConflict(r) \/ ClaimLease(r) \/ Hydrate(r) \/ Begin(r)
         \/ \E q \in Questions : ConsumeEarlier(r, q)
         \/ ParkAgain(r) \/ RecoverTasks(r)
         \/ Call(r) \/ Respond(r) \/ Ask(r) \/ HearAnswer(r) \/ Continue(r)
         \/ Delegate(r) \/ Dispatch(r) \/ BeginTask(r) \/ EndTask(r) \/ TasksDone(r)
         \/ \E status \in {"completed", "blocked"} : Conclude(r, status)
         \/ Finish(r) \/ Close(r)
  PROVE  Provenance'
<1> DEFINE R == run[r]
           m == R.mem
<1>0. R \in Runs /\ m \in Missions /\ row \in Missions /\ TypeOK'
  BY StartTypeStep, WorkTypeStep, EndTypeStep DEF TypeOK, Runs
<1>n. /\ row.status = "stopped" => Requested
      /\ m.status = "stopped" => Requested
  BY DEF Provenance, Accounted
<1>m. ASSUME NEW new \in Runs, Moves(r, new), new.cancelled = R.cancelled, new.killed = R.killed,
             row' = row \/ row'.status = m.status \/ row'.status \in {"running", "waiting"},
             new.mem.status \in {m.status, "running", "waiting", "completed", "blocked"}
      PROVE  Provenance'
  BY <1>n, <1>m, MovesProvenance
<1>1. CASE LeaseConflict(r)
  BY <1>1, ReturnsProvenance DEF LeaseConflict
<1>2. CASE ClaimLease(r) \/ Call(r) \/ Respond(r) \/ Dispatch(r) \/ BeginTask(r) \/ EndTask(r) \/ Close(r)
  <2>1. PICK pc : Goes(r, pc)
    BY <1>2 DEF ClaimLease, Call, Respond, Dispatch, BeginTask, EndTask, Close
  <2>2. row' = row \/ row' = m
    BY <1>2 DEF ClaimLease, Call, Respond, Dispatch, BeginTask, EndTask, Close, Save
  <2> DEFINE new == [R EXCEPT !.pc = pc]
  <2>3. new.mem = m /\ new.cancelled = R.cancelled /\ new.killed = R.killed
    BY <1>0 DEF Runs
  <2>4. Moves(r, new)
    BY <2>1 DEF Goes
  <2>5. new \in Runs
    BY <1>0, <2>4 DEF Moves, TypeOK
  <2> HIDE DEF new
  <2> QED BY <1>m, <2>2, <2>3, <2>4, <2>5
<1>3. CASE Hydrate(r)
  <2> DEFINE new == [R EXCEPT !.pc = "discovering", !.mem = Synced(m)]
  <2>1. new.mem.status = m.status /\ new.cancelled = R.cancelled /\ new.killed = R.killed
    BY <1>0 DEF Runs, Missions, Synced
  <2>2. Moves(r, new) /\ row' = row
    BY <1>3 DEF Hydrate
  <2>3. new \in Runs
    BY <1>0, <2>2 DEF Moves, TypeOK
  <2> HIDE DEF new
  <2> QED BY <1>m, <2>1, <2>2, <2>3
<1>4. CASE Begin(r) \/ Continue(r)
  <2>1. PICK pc \in {"resuming", "calling"} :
          Moves(r, [R EXCEPT !.pc = pc, !.mem = With(m, "running")])
    BY <1>4 DEF Begin, Continue
  <2> DEFINE new == [R EXCEPT !.pc = pc, !.mem = With(m, "running")]
  <2>2. With(m, "running").status = "running"
    BY <1>0 DEF With, Missions
  <2>3. new.mem.status = "running" /\ new.cancelled = R.cancelled /\ new.killed = R.killed
    BY <1>0, <2>2 DEF Runs
  <2>4. row'.status = "running"
    BY <1>4, <2>2 DEF Begin, Continue, Save
  <2>5. new \in Runs
    BY <1>0, <2>1 DEF Moves, TypeOK
  <2> HIDE DEF new
  <2>6. Moves(r, new)
    BY <2>1 DEF new
  <2> QED BY <1>m, <2>3, <2>4, <2>5, <2>6
<1>5. ASSUME NEW q, NEW pc, Consume(r, q, pc) PROVE Provenance'
  <2> DEFINE answers == [row.answers EXCEPT ![q] = "consumed"]
             new == [R EXCEPT !.pc = pc, !.mem.question = row.question, !.mem.answers = answers]
  <2>1. new.mem.status = m.status /\ new.cancelled = R.cancelled /\ new.killed = R.killed
    BY <1>0 DEF Runs, Missions
  <2>2. row'.status = row.status
    BY <1>0, <1>5 DEF Consume, Missions
  <2>3. Moves(r, new)
    BY <1>5 DEF Consume
  <2>4. new \in Runs
    BY <1>0, <2>3 DEF Moves, TypeOK
  <2> HIDE DEF new
  <2> QED BY <1>n, <2>1, <2>2, <2>3, <2>4, MovesProvenance
<1>6. ASSUME NEW n \in Missions, Park(r, n), n.status = m.status PROVE Provenance'
  <2> DEFINE new == [R EXCEPT !.pc = "parked", !.mem = With(n, "waiting")]
  <2>1. With(n, "waiting").status = "waiting" /\ ParkRow(n).status = "waiting"
    BY DEF With, ParkRow, Missions
  <2>2. new.mem.status = "waiting" /\ new.cancelled = R.cancelled /\ new.killed = R.killed
    BY <1>0, <2>1 DEF Runs
  <2>3. Moves(r, new) /\ row'.status = "waiting"
    BY <1>6, <2>1 DEF Park, Save
  <2>4. new \in Runs
    BY <1>0, <2>3 DEF Moves, TypeOK
  <2> HIDE DEF new
  <2> QED BY <1>m, <2>2, <2>3, <2>4
<1>7. CASE ParkAgain(r)
  BY <1>0, <1>6, <1>7 DEF ParkAgain
<1>8. CASE Ask(r)
  <2>1. PICK q \in Questions : Park(r, [m EXCEPT !.question = q])
    BY <1>8 DEF Ask
  <2>2. [m EXCEPT !.question = q] \in Missions /\ [m EXCEPT !.question = q].status = m.status
    BY <1>0 DEF Missions
  <2> QED BY <1>6, <2>1, <2>2
<1>9. CASE RecoverTasks(r)
  <2> DEFINE new == [R EXCEPT !.pc = "between", !.task = "recovery"]
  <2>1. new.mem = m /\ new.cancelled = R.cancelled /\ new.killed = R.killed
    BY <1>0 DEF Runs
  <2>2. Moves(r, new) /\ row' = row
    BY <1>9 DEF RecoverTasks
  <2>3. new \in Runs
    BY <1>0, <2>2 DEF Moves, TypeOK
  <2> HIDE DEF new
  <2> QED BY <1>m, <2>1, <2>2, <2>3
<1>10. CASE Delegate(r)
  <2> DEFINE new == [R EXCEPT !.pc = "between", !.task = "wait", !.mem = With(m, "waiting")]
  <2>1. With(m, "waiting").status = "waiting"
    BY <1>0 DEF With, Missions
  <2>2. new.mem.status = "waiting" /\ new.cancelled = R.cancelled /\ new.killed = R.killed
    BY <1>0, <2>1 DEF Runs
  <2>3. Moves(r, new) /\ row'.status = "waiting"
    BY <1>10, <2>1 DEF Delegate, Save
  <2>4. new \in Runs
    BY <1>0, <2>3 DEF Moves, TypeOK
  <2> HIDE DEF new
  <2> QED BY <1>m, <2>2, <2>3, <2>4
<1>11. CASE TasksDone(r)
  <2> DEFINE n == IF R.task = "wait" THEN With(m, "running") ELSE m
             done == [R EXCEPT !.task = "none", !.mem = n]
             asks == [done EXCEPT !.pc = "parked", !.mem = With(n, "waiting")]
             goes == [done EXCEPT !.pc = "calling"]
  <2>1. n \in Missions /\ n.status \in {m.status, "running"}
    BY <1>0 DEF With, Missions, Resumable
  <2> HIDE DEF n
  <2>2. With(n, "waiting").status = "waiting" /\ ParkRow(n).status = "waiting"
    BY <2>1 DEF With, ParkRow, Missions
  <2>3. done \in Runs /\ done.mem = n /\ done.cancelled = R.cancelled /\ done.killed = R.killed
    BY <1>0, <2>1 DEF Runs
  <2> HIDE DEF done
  <2>4. /\ asks.mem.status = "waiting" /\ asks.cancelled = R.cancelled /\ asks.killed = R.killed
        /\ goes.mem = n /\ goes.cancelled = R.cancelled /\ goes.killed = R.killed
    BY <2>2, <2>3 DEF Runs
  <2>5. \/ Moves(r, asks) /\ row' = ParkRow(n)
        \/ Moves(r, goes) /\ (row' = n \/ row' = row)
    BY <1>11 DEF TasksDone, Save, n, done
  <2> HIDE DEF asks, goes
  <2>6. CASE Moves(r, asks) /\ row' = ParkRow(n)
    <3>1. asks \in Runs
      BY <1>0, <2>6 DEF Moves, TypeOK
    <3> QED BY <1>m, <2>2, <2>4, <2>6, <3>1
  <2>7. CASE Moves(r, goes) /\ (row' = n \/ row' = row)
    <3>1. goes \in Runs
      BY <1>0, <2>7 DEF Moves, TypeOK
    <3> QED BY <1>m, <2>1, <2>4, <2>7, <3>1
  <2> QED BY <2>5, <2>6, <2>7
<1>12. ASSUME NEW status \in {"completed", "blocked"}, Conclude(r, status) PROVE Provenance'
  <2> DEFINE new == [R EXCEPT !.pc = "concluding", !.mem.status = status]
  <2>1. new.mem.status = status /\ new.cancelled = R.cancelled /\ new.killed = R.killed
    BY <1>0 DEF Runs, Missions
  <2>2. Moves(r, new) /\ row' = row
    BY <1>12 DEF Conclude
  <2>3. new \in Runs
    BY <1>0, <2>2 DEF Moves, TypeOK
  <2> HIDE DEF new
  <2> QED BY <1>m, <2>1, <2>2, <2>3
<1>13. CASE Finish(r)
  <2>1. m.status \in Statuses
    BY <1>0 DEF Missions, Statuses
  <2> QED BY <1>n, <1>13, <2>1, EndsProvenance DEF Finish
<1>14. CASE HearAnswer(r) \/ \E q \in Questions : ConsumeEarlier(r, q)
  BY <1>5, <1>14 DEF HearAnswer, ConsumeEarlier
<1> QED
  BY <1>1, <1>2, <1>3, <1>4, <1>7, <1>8, <1>9, <1>10, <1>11, <1>12, <1>13, <1>14

\* How run() ends keeps the account.
LEMMA EndProvenance ==
  ASSUME TypeOK, Provenance, NEW r \in Runtimes,
         CheckFails(r) \/ Cancelled(r) \/ KillLands(r) \/ Fails(r) \/ Leave(r)
  PROVE  Provenance'
<1> DEFINE R == run[r]
           m == R.mem
<1>0. R \in Runs /\ m \in Missions
  BY DEF TypeOK, Runs
<1>1. CASE CheckFails(r)
  <2>1. "stopped" \in flags[r] => Requested
    BY DEF Requested
  <2> QED BY <1>1, <2>1, EndsProvenance DEF CheckFails, Statuses, Terminal
<1>2. CASE Cancelled(r)
  <2>1. CASE Returns(r) /\ UNCHANGED <<row, lease, asked, flags>>
    BY <2>1, ReturnsProvenance
  <2>2. CASE EndsCancelled(r)
    BY <1>2, <2>2, EndsCancelledProvenance DEF Cancelled
  <2>3. CASE /\ Moves(r, [R EXCEPT !.pc = "leaving", !.cancelled = FALSE])
             /\ UNCHANGED <<row, lease, asked>>
    <3> DEFINE new == [R EXCEPT !.pc = "leaving", !.cancelled = FALSE]
    <3>1. new \in Runs /\ new.mem = m /\ ~new.cancelled /\ new.killed = R.killed
      BY <1>0 DEF Runs
    <3> HIDE DEF new
    <3>2. Moves(r, new)
      BY <2>3 DEF new
    <3> QED BY <2>3, <3>1, <3>2, MovesProvenance DEF Provenance, Accounted
  <2> QED BY <1>2, <2>1, <2>2, <2>3 DEF Cancelled
<1>3. CASE KillLands(r)
  <2>1. CASE EndsCancelled(r)
    BY <1>3, <2>1, EndsCancelledProvenance DEF KillLands
  <2>2. CASE /\ Moves(r, [R EXCEPT !.pc = "between", !.killed = FALSE])
             /\ UNCHANGED <<row, lease, asked>>
    <3> DEFINE new == [R EXCEPT !.pc = "between", !.killed = FALSE]
    <3>1. new \in Runs /\ new.mem = m /\ new.cancelled = R.cancelled /\ ~new.killed
      BY <1>0 DEF Runs, Trying
    <3> HIDE DEF new
    <3>2. Moves(r, new)
      BY <2>2 DEF new
    <3> QED BY <2>2, <3>1, <3>2, MovesProvenance DEF Provenance, Accounted
  <2> QED BY <1>3, <2>1, <2>2 DEF KillLands
<1>4. CASE Fails(r)
  BY <1>4, EndsProvenance DEF Fails, Statuses, Terminal
<1>5. CASE Leave(r)
  <2>1. \/ flags' = flags
        \/ flags' = [flags EXCEPT ![r] = @ \ {"pausing"}]
    BY <1>5 DEF Leave, TypeOK
  <2> QED BY <1>5, <2>1, ReturnsProvenance DEF Leave
<1> QED BY <1>1, <1>2, <1>3, <1>4, <1>5

\* A step that takes at most "pausing" from the flags takes nobody off the hook.
LEMMA FlagsKept ==
  ASSUME \A s \in Runtimes : flags[s] \ {"pausing"} \subseteq flags'[s]
  PROVE  Requested => Requested'
BY DEF Requested

\* Nor does a request make the mission stopped without a flag.
LEMMA RequestProvenance ==
  ASSUME TypeOK, Provenance, NEW r \in Runtimes,
         RequestBegins(r) \/ StopJoined(r) \/ StopSweep(r) \/ PauseJoined(r) \/ UseCopy(r)
  PROVE  Provenance'
<1>0. /\ run[r] \in Runs /\ row \in Missions
      /\ pauser[r] \in Requests /\ starter[r] \in Requests
      /\ pauser[r].copy \in Missions /\ starter[r].copy \in Missions
  BY DEF TypeOK, Requests
<1>n. \A m : m = NoMission \/ m.status \in {"pending", "paused"} => Accounted(m)'
  BY DEF Accounted, NoMission
<1>1. CASE Create(r)
  <2>1. With(NoMission, "pending").status = "pending"
    BY DEF With, NoMission
  <2>2. Requested' = Requested
    BY <1>1 DEF Create, Requested
  <2>3. /\ Started(With(NoMission, "pending"), "create").mem = With(NoMission, "pending")
        /\ ~Started(With(NoMission, "pending"), "create").cancelled
        /\ ~Started(With(NoMission, "pending"), "create").killed
    BY DEF Started, NoRun
  <2> QED BY <1>1, <2>1, <2>2, <2>3 DEF Create, Save, requests, Provenance, Blamed, Accounted, TypeOK
<1>2. CASE StopBegin(r)
  <2>1. Requested'
    BY <1>2 DEF StopBegin, Requested, TypeOK
  <2>2. [run[r] EXCEPT !.cancelled = Live(r)].killed = run[r].killed
    BY <1>0 DEF Runs
  <2>3. \A s \in Runtimes : Blamed(s)'
    BY <1>2, <2>2 DEF StopBegin, Provenance, Blamed, TypeOK
  <2> QED BY <1>2, <2>1, <2>3 DEF Provenance, Accounted
<1>3. CASE StopJoined(r)
  <2>1. Requested' = Requested
    BY <1>3 DEF StopJoined, Requested
  <2>2. \A s \in Runtimes : Blamed(s)'
    BY <1>3 DEF StopJoined, Provenance, Blamed, TypeOK
  <2> QED BY <1>3, <2>1, <2>2 DEF StopJoined, Provenance, Accounted
<1>4. CASE StopSweep(r)
  <2>1. Requested /\ Requested'
    BY <1>4 DEF StopSweep, Provenance, Blamed, Requested
  <2>2. \A s \in Runtimes : Blamed(s)'
    BY <1>4 DEF StopSweep, Provenance, Blamed, TypeOK
  <2> QED BY <2>1, <2>2 DEF Provenance, Accounted
<1>5. CASE PauseBegin(r) \/ PauseOffline(r) \/ PauseJoined(r) \/ PauseCheckpoint(r)
  <2>1. \A s \in Runtimes : flags[s] \ {"pausing"} \subseteq flags'[s]
    BY <1>5 DEF PauseBegin, PauseOffline, PauseJoined, PauseCheckpoint, TypeOK
  <2>2. Requested => Requested'
    BY <2>1, FlagsKept
  <2>3. run' = run /\ stopper' = stopper /\ starter' = starter
    BY <1>5 DEF PauseBegin, PauseOffline, PauseJoined, PauseCheckpoint
  <2>4. \A s \in Runtimes : Blamed(s)'
    BY <2>1, <2>3 DEF Provenance, Blamed
  <2>5. row' = row \/ row'.status = "paused"
    BY <1>0, <1>5 DEF PauseBegin, PauseOffline, PauseJoined, PauseCheckpoint, Save, With, Missions
  <2>6. \A s \in Runtimes : pauser'[s].copy \in {pauser[s].copy, row, NoMission}
    <3>1. CASE PauseBegin(r)
      <4>1. [pauser[r] EXCEPT !.pc = "joining"].copy = pauser[r].copy
        BY <1>0 DEF Requests
      <4> QED BY <3>1, <4>1 DEF PauseBegin, TypeOK
    <3>2. CASE PauseOffline(r)
      BY <3>2 DEF PauseOffline, TypeOK
    <3>3. CASE PauseJoined(r) \/ PauseCheckpoint(r)
      BY <3>3 DEF PauseJoined, PauseCheckpoint, NoRequest, TypeOK
    <3> QED BY <1>5, <3>1, <3>2, <3>3
  <2> QED BY <1>n, <2>2, <2>3, <2>4, <2>5, <2>6 DEF Provenance, Accounted
<1>6. CASE ResumeBegin(r) \/ AnswerRoute(r) \/ AnswerAccept(r)
  <2>1. \A s \in Runtimes : flags[s] \ {"pausing"} \subseteq flags'[s]
    BY <1>6 DEF ResumeBegin, AnswerRoute, AnswerAccept, TypeOK
  <2>2. Requested => Requested'
    BY <2>1, FlagsKept
  <2>3. run' = run /\ stopper' = stopper /\ pauser' = pauser
    BY <1>6 DEF ResumeBegin, AnswerRoute, AnswerAccept
  <2>4. \A s \in Runtimes : Blamed(s)'
    BY <2>1, <2>3 DEF Provenance, Blamed
  <2>5. row'.status = row.status
    BY <1>0, <1>6 DEF ResumeBegin, AnswerRoute, AnswerAccept, Save, Accepted, Missions
  <2>6. \A s \in Runtimes : starter'[s].copy.status \in
          {starter[s].copy.status, row.status, NoMission.status}
    <3>1. CASE ResumeBegin(r)
      BY <3>1 DEF ResumeBegin, TypeOK
    <3>2. CASE AnswerRoute(r)
      <4>1. [starter[r] EXCEPT !.pc = "starting"].copy = starter[r].copy
        BY <1>0 DEF Requests
      <4> QED BY <3>2, <4>1 DEF AnswerRoute, NoRequest, TypeOK
    <3>3. CASE AnswerAccept(r)
      <4>1. Accepted(row, row.question).status = row.status
        BY <1>0 DEF Accepted, Missions
      <4> QED BY <3>3, <4>1 DEF AnswerAccept, TypeOK
    <3> QED BY <1>6, <3>1, <3>2, <3>3
  <2>7. NoMission.status # "stopped"
    BY DEF NoMission
  <2> QED BY <2>2, <2>3, <2>4, <2>5, <2>6, <2>7 DEF Provenance, Accounted
<1>7. CASE StartRun(r)
  <2> DEFINE new == Started(starter[r].copy, starter[r].why)
  <2>1. new.mem = starter[r].copy /\ ~new.cancelled /\ ~new.killed
    BY DEF Started, NoRun
  <2>2. \A s \in Runtimes : run'[s] = run[s] \/ (s = r /\ run'[s] = new)
    <3>1. run' = run \/ run' = [run EXCEPT ![r] = new]
      BY <1>7 DEF StartRun
    <3> HIDE DEF new
    <3> QED BY <3>1 DEF TypeOK
  <2>3. Requested' = Requested
    BY <1>7 DEF StartRun, Requested
  <2>4. \A s \in Runtimes : starter'[s].copy \in {starter[s].copy, NoMission}
    BY <1>7 DEF StartRun, NoRequest, TypeOK
  <2>5. row' = row /\ flags' = flags /\ stopper' = stopper /\ pauser' = pauser
    BY <1>7 DEF StartRun
  <2> HIDE DEF new
  <2>6. \A s \in Runtimes : Blamed(s)'
    BY <2>1, <2>2, <2>5 DEF Provenance, Blamed
  <2> QED BY <1>n, <2>1, <2>2, <2>3, <2>4, <2>5, <2>6 DEF Provenance, Accounted
<1>8. CASE Kill(r)
  <2>1. \A s \in Runtimes : flags[s] \subseteq flags'[s]
    BY <1>8 DEF Kill, TypeOK
  <2>2. Requested => Requested'
    BY <2>1, FlagsKept
  <2>3. \A s \in Runtimes : /\ run'[s].mem = run[s].mem
                            /\ run'[s].cancelled = run[s].cancelled
                            /\ run'[s].killed => run[s].killed \/ "killed" \in flags'[s]
    BY <1>0, <1>8 DEF Kill, TypeOK, Runs
  <2>4. \A s \in Runtimes : Blamed(s)'
    BY <1>8, <2>1, <2>3 DEF Kill, requests, Provenance, Blamed
  <2> QED BY <1>8, <2>2, <2>3, <2>4 DEF Kill, requests, Provenance, Accounted
<1> QED BY <1>1, <1>2, <1>3, <1>4, <1>5, <1>6, <1>7, <1>8 DEF RequestBegins, UseCopy

\* Boots copy the row, and dead servers leave their flags behind.
LEMMA ServerProvenance ==
  ASSUME TypeOK, Provenance, NEW r \in Runtimes, ServerStep(r)
  PROVE  Provenance'
<1>0. run[r] \in Runs /\ row \in Missions
  BY DEF TypeOK
<1>1. CASE Boot(r)
  <2>1. Started(row, "boot").mem = row /\ ~Started(row, "boot").cancelled /\ ~Started(row, "boot").killed
    BY DEF Started, NoRun
  <2>2. \A s \in Runtimes : run'[s] = run[s] \/ run'[s] = Started(row, "boot")
    BY <1>1 DEF Boot, TypeOK
  <2>3. row' = row /\ flags' = flags /\ stopper' = stopper /\ pauser' = pauser /\ starter' = starter
    BY <1>1 DEF Boot, requests
  <2> QED BY <2>1, <2>2, <2>3 DEF Provenance, Accounted, Blamed, Requested
<1>2. CASE Shutdown(r)
  <2>1. \A s \in Runtimes : flags[s] \subseteq flags'[s]
    BY <1>2 DEF Shutdown, TypeOK
  <2>2. Requested => Requested'
    BY <2>1, FlagsKept
  <2>3. \A s \in Runtimes : /\ run'[s].mem = run[s].mem
                            /\ run'[s].killed = run[s].killed
                            /\ run'[s].cancelled => run[s].cancelled \/ "suspending" \in flags'[s]
    BY <1>0, <1>2 DEF Shutdown, TypeOK, Runs
  <2>4. \A s \in Runtimes : Blamed(s)'
    BY <1>2, <2>1, <2>3 DEF Shutdown, requests, Provenance, Blamed
  <2> QED BY <1>2, <2>2, <2>3, <2>4 DEF Shutdown, requests, Provenance, Accounted
<1>3. CASE Exit(r)
  BY <1>3 DEF Exit, requests, Provenance, Accounted, Blamed, Requested
<1>4. CASE Crash(r)
  <2>1. /\ NoRun.mem = NoMission /\ ~NoRun.cancelled /\ ~NoRun.killed
        /\ NoRequest.copy = NoMission /\ NoMission.status # "stopped"
    BY DEF NoRun, NoRequest, NoMission
  <2>2. \A s \in Runtimes : /\ run'[s] = run[s] \/ run'[s] = NoRun
                            /\ stopper'[s] = stopper[s] \/ stopper'[s] = "none"
                            /\ pauser'[s] = pauser[s] \/ pauser'[s] = NoRequest
                            /\ starter'[s] = starter[s] \/ starter'[s] = NoRequest
    BY <1>4 DEF Crash, TypeOK
  <2>3. row' = row /\ flags' = flags
    BY <1>4 DEF Crash
  <2> QED BY <2>1, <2>2, <2>3 DEF Provenance, Accounted, Blamed, Requested
<1> QED BY <1>1, <1>2, <1>3, <1>4 DEF ServerStep

\* No step loses track of who asked for a stop.
LEMMA ProvenanceStep == TypeOK /\ Provenance /\ [Next]_vars => Provenance'
<1> SUFFICES ASSUME TypeOK, Provenance, [Next]_vars PROVE Provenance'
  OBVIOUS
<1>1. ASSUME NEW r \in Runtimes,
             UseCopy(r) \/ RequestBegins(r) \/ StopJoined(r) \/ StopSweep(r) \/ PauseJoined(r)
      PROVE  Provenance'
  BY <1>1, RequestProvenance
<1>2. ASSUME NEW r \in Runtimes, RunStep(r) \/ Fails(r) PROVE Provenance'
  BY <1>2, WorkProvenance, EndProvenance DEF RunStep
<1>3. ASSUME NEW r \in Runtimes, ServerStep(r) PROVE Provenance'
  BY <1>3, ServerProvenance
<1>4. CASE LeaseExpires \/ UNCHANGED vars
  BY <1>4 DEF LeaseExpires, vars, requests, Provenance, Accounted, Blamed, Requested
<1> QED BY <1>1, <1>2, <1>3, <1>4 DEF Next

\* A mission is stopped because somebody stopped it or killed one of its agents:
\* no shutdown, crash, restart, failure or late save makes it so.
THEOREM StopsAreRequested == Spec => []StoppedOnlyOnRequest
<1>1. Provenance => StoppedOnlyOnRequest
  BY DEF Provenance, Accounted, Requested, StoppedOnlyOnRequest
<1> QED BY <1>1, TypeInit, TypeStep, ProvenanceInit, ProvenanceStep, PTL DEF Spec

-----------------------------------------------------------------------------
(* What a step of run() leaves behind *)

\* What With, ParkRow, Accepted and Synced change.
LEMMA MissionFields ==
  ASSUME NEW m \in Missions
  PROVE  /\ \A s : /\ With(m, s).status = s
                   /\ With(m, s).question = m.question /\ With(m, s).answers = m.answers
         /\ ParkRow(m) = With(m, "waiting")
         /\ Synced(m).status = m.status
         /\ Synced(m).question = row.question /\ Synced(m).answers = row.answers
         /\ \A s : /\ With(Synced(m), s).status = s
                   /\ With(Synced(m), s).question = row.question
                   /\ With(Synced(m), s).answers = row.answers
BY DEF With, ParkRow, Synced, Missions

\* The task of server r goes on as new, at pc and with mem.
Moved(r, new, pc, mem) ==
  /\ Moves(r, new) /\ new \in Runs
  /\ new.pc = pc /\ new.mem = mem
  /\ new.why = run[r].why

\* Nobody has cancelled it or killed its agent, and its task is the same.
KeepsTask(new, R) ==
  new.task = R.task /\ new.killed = R.killed /\ new.cancelled = R.cancelled

\* A step that changes the program counter and perhaps the mission in memory.
LEMMA StepMoved ==
  ASSUME TypeOK, TypeOK', NEW r \in Runtimes, NEW pc, NEW mem,
         \/ Moves(r, [run[r] EXCEPT !.pc = pc, !.mem = mem])
         \/ Goes(r, pc) /\ mem = run[r].mem
  PROVE  \E new \in Runs : Moved(r, new, pc, mem) /\ KeepsTask(new, run[r])
<1>0. run[r] \in Runs
  BY DEF TypeOK
<1>1. ASSUME NEW new, Moves(r, new) PROVE new \in Runs
  BY <1>1 DEF Moves, TypeOK
<1>2. CASE Moves(r, [run[r] EXCEPT !.pc = pc, !.mem = mem])
  <2> DEFINE new == [run[r] EXCEPT !.pc = pc, !.mem = mem]
  <2>1. new.pc = pc /\ new.mem = mem /\ new.why = run[r].why /\ KeepsTask(new, run[r])
    BY <1>0 DEF Runs, KeepsTask
  <2> HIDE DEF new
  <2>2. Moves(r, new)
    BY <1>2 DEF new
  <2> QED BY <1>1, <2>1, <2>2 DEF Moved
<1>3. CASE Goes(r, pc) /\ mem = run[r].mem
  <2> DEFINE new == [run[r] EXCEPT !.pc = pc]
  <2>1. new.pc = pc /\ new.mem = mem /\ new.why = run[r].why /\ KeepsTask(new, run[r])
    BY <1>0, <1>3 DEF Runs, KeepsTask
  <2> HIDE DEF new
  <2>2. Moves(r, new)
    BY <1>3 DEF Goes, new
  <2> QED BY <1>1, <2>1, <2>2 DEF Moved
<1> QED BY <1>2, <1>3

\* The tasks of an earlier run, or those of a decision, are taken up.
LEMMA TasksMoved ==
  ASSUME TypeOK, TypeOK', NEW r \in Runtimes
  PROVE  /\ RecoverTasks(r) => \E new \in Runs :
              /\ Moved(r, new, "between", run[r].mem) /\ new.task = "recovery"
              /\ new.killed = run[r].killed /\ new.cancelled = run[r].cancelled
              /\ row' = row
         /\ Delegate(r) => \E new \in Runs :
              /\ Moved(r, new, "between", With(run[r].mem, "waiting")) /\ new.task = "wait"
              /\ new.killed = run[r].killed /\ new.cancelled = run[r].cancelled
              /\ row' = With(run[r].mem, "waiting")
<1> DEFINE R == run[r]
           recovers == [R EXCEPT !.pc = "between", !.task = "recovery"]
           waits == [R EXCEPT !.pc = "between", !.task = "wait", !.mem = With(R.mem, "waiting")]
<1>0. R \in Runs
  BY DEF TypeOK
<1>1. /\ recovers.pc = "between" /\ recovers.mem = R.mem /\ recovers.why = R.why
      /\ recovers.task = "recovery"
      /\ recovers.killed = R.killed /\ recovers.cancelled = R.cancelled
  BY <1>0 DEF Runs
<1>2. /\ waits.pc = "between" /\ waits.mem = With(R.mem, "waiting") /\ waits.why = R.why
      /\ waits.task = "wait"
      /\ waits.killed = R.killed /\ waits.cancelled = R.cancelled
  BY <1>0 DEF Runs
<1>3. /\ RecoverTasks(r) => Moves(r, recovers) /\ row' = row
      /\ Delegate(r) => Moves(r, waits) /\ row' = With(R.mem, "waiting")
  BY DEF RecoverTasks, Delegate, Save
<1> HIDE DEF recovers, waits
<1>4. ASSUME NEW new, Moves(r, new) PROVE new \in Runs
  BY <1>4 DEF Moves, TypeOK
<1> QED BY <1>1, <1>2, <1>3, <1>4 DEF Moved

\* The delivery of a cancellation.
LEMMA CancelMoved ==
  ASSUME TypeOK, TypeOK', NEW r \in Runtimes, NEW pc, NEW mem,
         \/ Moves(r, [run[r] EXCEPT !.pc = pc, !.mem = mem, !.cancelled = FALSE])
         \/ Moves(r, [run[r] EXCEPT !.pc = pc, !.cancelled = FALSE]) /\ mem = run[r].mem
  PROVE  \E new \in Runs : Moved(r, new, pc, mem) /\ ~new.cancelled
<1>0. run[r] \in Runs
  BY DEF TypeOK
<1>1. ASSUME NEW new, Moves(r, new) PROVE new \in Runs
  BY <1>1 DEF Moves, TypeOK
<1>2. CASE Moves(r, [run[r] EXCEPT !.pc = pc, !.mem = mem, !.cancelled = FALSE])
  <2> DEFINE new == [run[r] EXCEPT !.pc = pc, !.mem = mem, !.cancelled = FALSE]
  <2>1. new.pc = pc /\ new.mem = mem /\ new.why = run[r].why /\ ~new.cancelled
    BY <1>0 DEF Runs
  <2> HIDE DEF new
  <2>2. Moves(r, new)
    BY <1>2 DEF new
  <2> QED BY <1>1, <2>1, <2>2 DEF Moved
<1>3. CASE Moves(r, [run[r] EXCEPT !.pc = pc, !.cancelled = FALSE]) /\ mem = run[r].mem
  <2> DEFINE new == [run[r] EXCEPT !.pc = pc, !.cancelled = FALSE]
  <2>1. new.pc = pc /\ new.mem = mem /\ new.why = run[r].why /\ ~new.cancelled
    BY <1>0, <1>3 DEF Runs
  <2> HIDE DEF new
  <2>2. Moves(r, new)
    BY <1>3 DEF new
  <2> QED BY <1>1, <2>1, <2>2 DEF Moved
<1> QED BY <1>2, <1>3

\* Up to the first decision.
LEMMA StartMoves ==
  ASSUME TypeOK, TypeOK', NEW r \in Runtimes
  PROVE  /\ ClaimLease(r) => \E new \in Runs :
              Moved(r, new, "claimed", run[r].mem) /\ KeepsTask(new, run[r]) /\ row' = row
         /\ Hydrate(r) => \E new \in Runs :
              Moved(r, new, "discovering", Synced(run[r].mem)) /\ KeepsTask(new, run[r]) /\ row' = row
         /\ Begin(r) => \E new \in Runs :
              /\ Moved(r, new, "resuming", With(run[r].mem, "running")) /\ KeepsTask(new, run[r])
              /\ row' = With(run[r].mem, "running")
<1>1. ASSUME ClaimLease(r) PROVE Goes(r, "claimed") /\ row' = row
  BY <1>1 DEF ClaimLease
<1>2. ASSUME Hydrate(r)
      PROVE  Moves(r, [run[r] EXCEPT !.pc = "discovering", !.mem = Synced(run[r].mem)]) /\ row' = row
  BY <1>2 DEF Hydrate
<1>3. ASSUME Begin(r)
      PROVE  /\ Moves(r, [run[r] EXCEPT !.pc = "resuming", !.mem = With(run[r].mem, "running")])
             /\ row' = With(run[r].mem, "running")
  BY <1>3 DEF Begin, Save
<1>4. ClaimLease(r) => \E new \in Runs :
        Moved(r, new, "claimed", run[r].mem) /\ KeepsTask(new, run[r]) /\ row' = row
  BY <1>1, StepMoved
<1>5. Hydrate(r) => \E new \in Runs :
        Moved(r, new, "discovering", Synced(run[r].mem)) /\ KeepsTask(new, run[r]) /\ row' = row
  BY <1>2, StepMoved
<1>6. Begin(r) => \E new \in Runs :
        /\ Moved(r, new, "resuming", With(run[r].mem, "running")) /\ KeepsTask(new, run[r])
        /\ row' = With(run[r].mem, "running")
  BY <1>3, StepMoved
<1> QED BY <1>4, <1>5, <1>6

\* An answer is consumed.
LEMMA ConsumeMoves ==
  ASSUME TypeOK, TypeOK', NEW r \in Runtimes, NEW q \in Questions, NEW pc, Consume(r, q, pc)
  PROVE  \E new \in Runs, mem \in Missions :
           /\ Moved(r, new, pc, mem) /\ KeepsTask(new, run[r])
           /\ row'.status = row.status /\ row'.question = row.question
           /\ row'.answers = [row.answers EXCEPT ![q] = "consumed"]
           /\ mem.status = run[r].mem.status
           /\ mem.question = row.question /\ mem.answers = row'.answers
<1>0. run[r] \in Runs /\ run[r].mem \in Missions /\ row \in Missions
  BY DEF TypeOK, Runs
<1> DEFINE answers == [row.answers EXCEPT ![q] = "consumed"]
           new == [run[r] EXCEPT !.pc = pc, !.mem.question = row.question, !.mem.answers = answers]
<1>1. Moves(r, new) /\ row' = [row EXCEPT !.answers = answers]
  BY DEF Consume
<1>2. row'.status = row.status /\ row'.question = row.question /\ row'.answers = answers
  BY <1>0, <1>1 DEF Missions
<1> HIDE DEF answers
<1>3. /\ new.pc = pc /\ new.why = run[r].why /\ KeepsTask(new, run[r])
      /\ new.mem.status = run[r].mem.status
      /\ new.mem.question = row.question /\ new.mem.answers = answers
  BY <1>0 DEF Runs, Missions, KeepsTask
<1>4. new \in Runs
  BY <1>1 DEF Moves, TypeOK
<1> HIDE DEF new
<1>5. new.mem \in Missions
  BY <1>4 DEF Runs
<1> QED BY <1>1, <1>2, <1>3, <1>4, <1>5 DEF Moved, answers

\* A question is waited for.
LEMMA ParkMoves ==
  ASSUME TypeOK, TypeOK', NEW r \in Runtimes, NEW m \in Missions, Park(r, m)
  PROVE  \E new \in Runs :
           /\ Moved(r, new, "parked", With(m, "waiting")) /\ KeepsTask(new, run[r])
           /\ row' = With(m, "waiting")
<1>1. /\ Moves(r, [run[r] EXCEPT !.pc = "parked", !.mem = With(m, "waiting")])
      /\ row' = With(m, "waiting")
  BY MissionFields DEF Park, Save
<1> QED BY <1>1, StepMoved

\* From decision to decision.
LEMMA WorkMoves ==
  ASSUME TypeOK, TypeOK', NEW r \in Runtimes
  PROVE  /\ Call(r) \/ BeginTask(r) => \E new \in Runs :
              Moved(r, new, "calling", run[r].mem) /\ KeepsTask(new, run[r]) /\ row' = row
         /\ Respond(r) => \E new \in Runs :
              /\ Moved(r, new, "deciding", run[r].mem) /\ KeepsTask(new, run[r])
              /\ row' = row \/ row' = run[r].mem
         /\ Dispatch(r) => \E new \in Runs :
              Moved(r, new, "dispatching", run[r].mem) /\ KeepsTask(new, run[r]) /\ row' = row
         /\ EndTask(r) => \E new \in Runs :
              Moved(r, new, "between", run[r].mem) /\ KeepsTask(new, run[r]) /\ row' = row
         /\ Continue(r) => \E new \in Runs :
              /\ Moved(r, new, "calling", With(run[r].mem, "running")) /\ KeepsTask(new, run[r])
              /\ row' = With(run[r].mem, "running")
         /\ Close(r) => \E new \in Runs :
              /\ Moved(r, new, "leaving", run[r].mem) /\ KeepsTask(new, run[r])
              /\ row' = run[r].mem
<1>1. ASSUME Call(r) \/ BeginTask(r) PROVE Goes(r, "calling") /\ row' = row
  BY <1>1 DEF Call, BeginTask
<1>2. ASSUME Respond(r) PROVE Goes(r, "deciding") /\ (row' = row \/ row' = run[r].mem)
  BY <1>2 DEF Respond, Save
<1>3. ASSUME Dispatch(r) PROVE Goes(r, "dispatching") /\ row' = row
  BY <1>3 DEF Dispatch
<1>4. ASSUME EndTask(r) PROVE Goes(r, "between") /\ row' = row
  BY <1>4 DEF EndTask
<1>5. ASSUME Continue(r)
      PROVE  /\ Moves(r, [run[r] EXCEPT !.pc = "calling", !.mem = With(run[r].mem, "running")])
             /\ row' = With(run[r].mem, "running")
  BY <1>5 DEF Continue, Save
<1>6. ASSUME Close(r) PROVE Goes(r, "leaving") /\ row' = run[r].mem
  BY <1>6 DEF Close, Save
<1>7. Call(r) \/ BeginTask(r) => \E new \in Runs :
        Moved(r, new, "calling", run[r].mem) /\ KeepsTask(new, run[r]) /\ row' = row
  BY <1>1, StepMoved
<1>8. Respond(r) => \E new \in Runs :
        /\ Moved(r, new, "deciding", run[r].mem) /\ KeepsTask(new, run[r])
        /\ row' = row \/ row' = run[r].mem
  BY <1>2, StepMoved
<1>9. Dispatch(r) => \E new \in Runs :
         Moved(r, new, "dispatching", run[r].mem) /\ KeepsTask(new, run[r]) /\ row' = row
  BY <1>3, StepMoved
<1>10. EndTask(r) => \E new \in Runs :
         Moved(r, new, "between", run[r].mem) /\ KeepsTask(new, run[r]) /\ row' = row
  BY <1>4, StepMoved
<1>11. Continue(r) => \E new \in Runs :
         /\ Moved(r, new, "calling", With(run[r].mem, "running")) /\ KeepsTask(new, run[r])
         /\ row' = With(run[r].mem, "running")
  BY <1>5, StepMoved
<1>12. Close(r) => \E new \in Runs :
         /\ Moved(r, new, "leaving", run[r].mem) /\ KeepsTask(new, run[r])
         /\ row' = run[r].mem
  BY <1>6, StepMoved
<1> QED BY <1>7, <1>8, <1>9, <1>10, <1>11, <1>12

\* The tasks are done: either the question of an earlier run is waited for
\* again or the controller is called.
LEMMA TasksDoneMoves ==
  ASSUME TypeOK, TypeOK', NEW r \in Runtimes, TasksDone(r)
  PROVE  \E new \in Runs, n \in Missions :
           /\ n = (IF run[r].task = "wait" THEN With(run[r].mem, "running") ELSE run[r].mem)
           /\ new.task = "none" /\ new.killed = run[r].killed /\ new.cancelled = run[r].cancelled
           /\ \/ /\ Moved(r, new, "parked", With(n, "waiting"))
                 /\ run[r].task = "recovery" /\ n.question # 0 /\ row' = With(n, "waiting")
              \/ /\ Moved(r, new, "calling", n)
                 /\ row' = row \/ row' = n
<1> DEFINE R == run[r]
           n == IF R.task = "wait" THEN With(R.mem, "running") ELSE R.mem
           done == [R EXCEPT !.task = "none", !.mem = n]
           asks == [done EXCEPT !.pc = "parked", !.mem = With(n, "waiting")]
           goes == [done EXCEPT !.pc = "calling"]
<1>0. R \in Runs /\ R.mem \in Missions
  BY DEF TypeOK, Runs
<1>1. n \in Missions
  BY <1>0, MissionTypes DEF Statuses, Resumable
<1>2. \/ Moves(r, asks) /\ row' = ParkRow(n) /\ R.task = "recovery" /\ n.question # 0
      \/ Moves(r, goes) /\ (row' = n \/ row' = row)
  BY DEF TasksDone, Save
<1>3. ParkRow(n) = With(n, "waiting")
  BY <1>1, MissionFields
<1>4. n = (IF R.task = "wait" THEN With(R.mem, "running") ELSE R.mem)
  OBVIOUS
<1> HIDE DEF n
<1>5. /\ done \in [pc : Pcs, mem : Missions, why : {"none", "create", "boot", "resume", "answer"},
                   task : {"none", "recovery", "wait"}, killed : BOOLEAN, cancelled : BOOLEAN]
      /\ done.mem = n /\ done.task = "none" /\ done.why = R.why
      /\ done.killed = R.killed /\ done.cancelled = R.cancelled
  BY <1>0, <1>1 DEF Runs, Pcs
<1> HIDE DEF done
<1>6. /\ asks.pc = "parked" /\ asks.mem = With(n, "waiting") /\ asks.why = R.why
      /\ asks.task = "none" /\ asks.killed = R.killed /\ asks.cancelled = R.cancelled
      /\ goes.pc = "calling" /\ goes.mem = n /\ goes.why = R.why
      /\ goes.task = "none" /\ goes.killed = R.killed /\ goes.cancelled = R.cancelled
  BY <1>5
<1> HIDE DEF asks, goes
<1>7. ASSUME NEW new, Moves(r, new) PROVE new \in Runs
  BY <1>7 DEF Moves, TypeOK
<1>8. CASE Moves(r, asks) /\ row' = ParkRow(n) /\ R.task = "recovery" /\ n.question # 0
  <2>1. Moved(r, asks, "parked", With(n, "waiting"))
    BY <1>6, <1>7, <1>8 DEF Moved
  <2> QED BY <1>1, <1>3, <1>4, <1>6, <1>7, <1>8, <2>1
<1>9. CASE Moves(r, goes) /\ (row' = n \/ row' = row)
  <2>1. Moved(r, goes, "calling", n)
    BY <1>6, <1>7, <1>9 DEF Moved
  <2> QED BY <1>1, <1>4, <1>6, <1>7, <1>9, <2>1
<1> QED BY <1>2, <1>8, <1>9

\* The decision that ends the work.
LEMMA ConcludeMoves ==
  ASSUME TypeOK, TypeOK', NEW r \in Runtimes, NEW status, Conclude(r, status)
  PROVE  \E new \in Runs, mem \in Missions :
           /\ Moved(r, new, "concluding", mem) /\ KeepsTask(new, run[r]) /\ row' = row
           /\ mem.status = status
           /\ mem.question = run[r].mem.question /\ mem.answers = run[r].mem.answers
<1> DEFINE new == [run[r] EXCEPT !.pc = "concluding", !.mem.status = status]
<1>0. run[r] \in Runs /\ run[r].mem \in Missions
  BY DEF TypeOK, Runs
<1>1. /\ new.pc = "concluding" /\ new.why = run[r].why /\ KeepsTask(new, run[r])
      /\ new.mem.status = status
      /\ new.mem.question = run[r].mem.question /\ new.mem.answers = run[r].mem.answers
  BY <1>0 DEF Runs, Missions, KeepsTask
<1>2. Moves(r, new) /\ row' = row
  BY DEF Conclude
<1> HIDE DEF new
<1>3. new \in Runs
  BY <1>2 DEF Moves, TypeOK
<1>4. new.mem \in Missions
  BY <1>3 DEF Runs
<1> QED BY <1>1, <1>2, <1>3, <1>4 DEF Moved

\* The ways out of the try.
LEMMA EndsMoves ==
  ASSUME TypeOK, TypeOK', NEW r \in Runtimes, NEW status
  PROVE  /\ Ends(r, status) => \E new \in Runs :
              Moved(r, new, "closing", With(Synced(run[r].mem), status)) /\ ~new.cancelled /\ row' = row
         /\ Suspends(r) => \E new \in Runs, s \in {"running", "waiting"} :
              /\ Moved(r, new, "leaving", With(Synced(run[r].mem), s)) /\ ~new.cancelled
              /\ row' = With(Synced(run[r].mem), s)
<1>1. ASSUME Ends(r, status)
      PROVE  /\ Moves(r, [run[r] EXCEPT !.pc = "closing", !.mem = With(Synced(run[r].mem), status),
                                        !.cancelled = FALSE])
             /\ row' = row
  BY <1>1 DEF Ends
<1>2. Ends(r, status) => \E new \in Runs :
        Moved(r, new, "closing", With(Synced(run[r].mem), status)) /\ ~new.cancelled /\ row' = row
  BY <1>1, CancelMoved
<1>3. ASSUME Suspends(r)
      PROVE  \E new \in Runs, s \in {"running", "waiting"} :
               /\ Moved(r, new, "leaving", With(Synced(run[r].mem), s)) /\ ~new.cancelled
               /\ row' = With(Synced(run[r].mem), s)
  <2>1. PICK s \in {"running", "waiting"} : s = SuspendedStatus(run[r].mem)
    BY DEF SuspendedStatus
  <2>2. /\ Moves(r, [run[r] EXCEPT !.pc = "leaving", !.mem = With(Synced(run[r].mem), s),
                                   !.cancelled = FALSE])
        /\ row' = With(Synced(run[r].mem), s)
    BY <1>3, <2>1 DEF Suspends, Save
  <2> QED BY <2>2, CancelMoved
<1> QED BY <1>2, <1>3

\* The task of a killed agent is given up.
LEMMA KillMoves ==
  ASSUME TypeOK, TypeOK', NEW r \in Runtimes,
         Moves(r, [run[r] EXCEPT !.pc = "between", !.killed = FALSE])
  PROVE  \E new \in Runs :
           /\ Moved(r, new, "between", run[r].mem) /\ ~new.killed
           /\ new.task = run[r].task /\ new.cancelled = run[r].cancelled
<1> DEFINE new == [run[r] EXCEPT !.pc = "between", !.killed = FALSE]
<1>0. run[r] \in Runs
  BY DEF TypeOK
<1>1. /\ new.pc = "between" /\ new.mem = run[r].mem /\ new.why = run[r].why /\ ~new.killed
      /\ new.task = run[r].task /\ new.cancelled = run[r].cancelled
  BY <1>0 DEF Runs
<1>2. Moves(r, new)
  OBVIOUS
<1> HIDE DEF new
<1>3. new \in Runs
  BY <1>2 DEF Moves, TypeOK
<1> QED BY <1>1, <1>2, <1>3 DEF Moved

-----------------------------------------------------------------------------
(* Which questions have answers *)

\* When n questions have been asked: no answer to the open question of m, which
\* is one of them, and none to a question still to come.
Sound(m, n) ==
  /\ m.question # 0 => m.answers[m.question] = "none"
  /\ m.question <= n
  /\ \A q \in Questions : q > n => m.answers[q] = "none"

\* However many servers share the database, this holds of the row and of every
\* copy that may overwrite it.
CopiesSound ==
  /\ Sound(row, asked)
  /\ \A r \in Runtimes :
       /\ Sound(run[r].mem, asked)
       /\ Sound(pauser[r].copy, asked) /\ Sound(starter[r].copy, asked)

\* The next mission has the questions and answers of this one.
Like(n, m) == n.question = m.question /\ n.answers = m.answers

LEMMA LikeSound ==
  \A m, n, k : Sound(m, k) /\ Like(n, m) => Sound(n, k)
BY DEF Sound, Like

\* What a question that is asked, an answer that is accepted and an answer that
\* is consumed make of a sound mission; later questions take nothing from it.
LEMMA SoundMissions ==
  ASSUME NEW k \in Nat, NEW m \in Missions, Sound(m, k)
  PROVE  /\ Sound(NoMission, k)
         /\ Sound(m, k + 1)
         /\ \A n \in Missions : k + 1 \in Questions /\ n.question = k + 1 /\ n.answers = m.answers
                                  => Sound(n, k + 1)
         /\ \A q \in Questions, n \in Missions :
              m.answers[q] # "none" /\ n.question = m.question
                /\ n.answers = [m.answers EXCEPT ![q] = "consumed"] => Sound(n, k)
         /\ m.question # 0 => Sound(Accepted(m, m.question), k)
<1>0. Questions \subseteq Nat \ {0} /\ m.question \in Nat
  <2>1. m.question \in Questions \cup {0}
    BY DEF Missions
  <2>2. \A x \in Questions \cup {0} : x \in Nat
    BY RuntimeAssumption
  <2>3. Questions \subseteq Nat \ {0}
    BY RuntimeAssumption
  <2> QED BY <2>1, <2>2, <2>3
<1>1. Sound(NoMission, k)
  BY DEF Sound, NoMission
<1>2. Sound(m, k + 1)
  BY <1>0 DEF Sound
<1>3. ASSUME NEW n \in Missions, k + 1 \in Questions, n.question = k + 1, n.answers = m.answers
      PROVE  Sound(n, k + 1)
  BY <1>0, <1>3 DEF Sound
<1>4. ASSUME NEW q \in Questions, NEW n \in Missions, m.answers[q] # "none",
             n.question = m.question, n.answers = [m.answers EXCEPT ![q] = "consumed"]
      PROVE  Sound(n, k)
  <2>1. q # m.question /\ q <= k
    BY <1>0, <1>4 DEF Sound
  <2>2. \A p \in Questions \ {q} : n.answers[p] = m.answers[p]
    BY <1>4 DEF Missions
  <2> QED BY <1>0, <1>4, <2>1, <2>2 DEF Sound, Missions
<1>5. ASSUME m.question # 0 PROVE Sound(Accepted(m, m.question), k)
  <2> DEFINE n == Accepted(m, m.question)
  <2>1. m.question \in Questions
    BY <1>5 DEF Missions
  <2>2. n.question = 0 /\ \A p \in Questions \ {m.question} : n.answers[p] = m.answers[p]
    BY <2>1 DEF Accepted, Missions
  <2>3. 0 <= k
    OBVIOUS
  <2>4. \A p \in Questions : p > k => p # m.question
    BY <1>0 DEF Sound
  <2> HIDE DEF n
  <2> QED BY <2>2, <2>3, <2>4 DEF Sound, n
<1> QED BY <1>1, <1>2, <1>3, <1>4, <1>5

\* A step of run() that writes a sound row and keeps a sound copy.
LEMMA MovesSound ==
  ASSUME TypeOK, CopiesSound, NEW r \in Runtimes, NEW new, Moves(r, new),
         asked' = asked \/ asked' = asked + 1,
         Sound(row', asked'), Sound(new.mem, asked')
  PROVE  CopiesSound'
<1>0. asked \in Nat
  BY RuntimeAssumption DEF TypeOK
<1>1. \A s \in Runtimes : /\ run[s].mem \in Missions
                          /\ pauser[s].copy \in Missions /\ starter[s].copy \in Missions
  BY DEF TypeOK, Runs, Requests
<1>2. \A m \in Missions : Sound(m, asked) => Sound(m, asked')
  BY <1>0, SoundMissions
<1>3. run'[r] = new /\ \A s \in Runtimes \ {r} : run'[s] = run[s]
  BY DEF Moves, TypeOK
<1>4. pauser' = pauser /\ starter' = starter
  BY DEF Moves, requests
<1>5. \A s \in Runtimes : Sound(run'[s].mem, asked')
  BY <1>1, <1>2, <1>3 DEF CopiesSound
<1>6. \A s \in Runtimes : Sound(pauser'[s].copy, asked') /\ Sound(starter'[s].copy, asked')
  BY <1>1, <1>2, <1>4 DEF CopiesSound
<1> QED BY <1>5, <1>6 DEF CopiesSound

\* Up to its end no step of run() leaves an unsound copy.
LEMMA WorkSound ==
  ASSUME TypeOK, CopiesSound, TypeOK', NEW r \in Runtimes,
         \/ ClaimLease(r) \/ Hydrate(r) \/ Begin(r)
         \/ \E q \in Questions : ConsumeEarlier(r, q)
         \/ ParkAgain(r) \/ RecoverTasks(r)
         \/ Call(r) \/ Respond(r) \/ Ask(r) \/ HearAnswer(r) \/ Continue(r)
         \/ Delegate(r) \/ Dispatch(r) \/ BeginTask(r) \/ EndTask(r) \/ TasksDone(r)
         \/ \E status \in {"completed", "blocked"} : Conclude(r, status)
         \/ Close(r)
  PROVE  CopiesSound'
<1> DEFINE m == run[r].mem
<1>0. /\ m \in Missions /\ row \in Missions /\ asked \in Nat
      /\ Sound(row, asked) /\ Sound(m, asked)
  BY RuntimeAssumption DEF TypeOK, Runs, CopiesSound
<1>k. ASSUME NEW new \in Runs, NEW pc, NEW mem, Moved(r, new, pc, mem), asked' = asked,
             Like(row', row) \/ Like(row', m),
             Like(mem, row) \/ Like(mem, m)
      PROVE  CopiesSound'
  <2>1. Sound(row', asked') /\ Sound(mem, asked')
    BY <1>0, <1>k, LikeSound
  <2> QED BY <1>k, <2>1, MovesSound DEF Moved
<1>l. /\ Like(row, row) /\ Like(m, m) /\ Like(Synced(m), row)
      /\ \A s : Like(With(m, s), m) /\ Like(With(Synced(m), s), row)
  BY <1>0, MissionFields DEF Like
<1>1. CASE ClaimLease(r) \/ Hydrate(r) \/ Begin(r)
  <2>1. asked' = asked
    BY <1>1 DEF ClaimLease, Hydrate, Begin
  <2> QED BY <1>1, <1>k, <1>l, <2>1, StartMoves
<1>2. CASE Call(r) \/ Respond(r) \/ Dispatch(r) \/ BeginTask(r) \/ EndTask(r) \/ Continue(r) \/ Close(r)
  <2>1. asked' = asked
    BY <1>2 DEF Call, Respond, Dispatch, BeginTask, EndTask, Continue, Close
  <2> QED BY <1>2, <1>k, <1>l, <2>1, WorkMoves
<1>3. CASE RecoverTasks(r) \/ Delegate(r)
  <2>1. asked' = asked
    BY <1>3 DEF RecoverTasks, Delegate
  <2> QED BY <1>3, <1>k, <1>l, <2>1, TasksMoved
<1>4. ASSUME NEW q \in Questions, NEW pc, Consume(r, q, pc) PROVE CopiesSound'
  <2>1. row.answers[q] # "none" /\ asked' = asked
    BY <1>4 DEF Consume
  <2>2. PICK new \in Runs, mem \in Missions :
          /\ Moved(r, new, pc, mem)
          /\ row'.question = row.question
          /\ row'.answers = [row.answers EXCEPT ![q] = "consumed"]
          /\ mem.question = row.question /\ mem.answers = row'.answers
    BY <1>4, ConsumeMoves
  <2>3. row' \in Missions
    BY DEF TypeOK
  <2>4. Sound(row', asked) /\ Sound(mem, asked)
    BY <1>0, <2>1, <2>2, <2>3, SoundMissions
  <2> QED BY <2>1, <2>2, <2>4, MovesSound DEF Moved
<1>5. CASE \E q \in Questions : ConsumeEarlier(r, q)
  BY <1>4, <1>5 DEF ConsumeEarlier
<1>6. CASE HearAnswer(r)
  <2>1. m.question \in Questions /\ Consume(r, m.question, "answered")
    BY <1>0, <1>6 DEF HearAnswer, Missions
  <2> QED BY <1>4, <2>1
<1>7. CASE ParkAgain(r)
  <2>1. Park(r, m) /\ asked' = asked
    BY <1>7 DEF ParkAgain
  <2> QED BY <1>0, <1>k, <1>l, <2>1, ParkMoves
<1>8. CASE Ask(r)
  <2>1. PICK q \in Questions : q = asked + 1 /\ asked' = q /\ Park(r, [m EXCEPT !.question = q])
    BY <1>8 DEF Ask
  <2> DEFINE n == [m EXCEPT !.question = q]
  <2>2. n \in Missions /\ n.question = q /\ n.answers = m.answers
    BY <1>0 DEF Missions
  <2>3. Park(r, n)
    BY <2>1
  <2> HIDE DEF n
  <2>4. PICK new \in Runs : Moved(r, new, "parked", With(n, "waiting")) /\ row' = With(n, "waiting")
    BY <2>2, <2>3, ParkMoves
  <2>5. Sound(n, asked + 1)
    BY <1>0, <2>1, <2>2, SoundMissions
  <2>6. Like(With(n, "waiting"), n)
    BY <2>2, MissionFields DEF Like
  <2>7. Sound(With(n, "waiting"), asked')
    BY <2>1, <2>5, <2>6, LikeSound
  <2> QED BY <2>1, <2>4, <2>7, MovesSound DEF Moved
<1>9. CASE TasksDone(r)
  <2>1. asked' = asked
    BY <1>9 DEF TasksDone
  <2>2. PICK new \in Runs, n \in Missions :
          /\ n = (IF run[r].task = "wait" THEN With(m, "running") ELSE m)
          /\ \/ Moved(r, new, "parked", With(n, "waiting")) /\ row' = With(n, "waiting")
             \/ Moved(r, new, "calling", n) /\ (row' = row \/ row' = n)
    BY <1>9, TasksDoneMoves
  <2>3. Like(n, m)
    BY <1>l, <2>2
  <2>4. Like(With(n, "waiting"), m)
    BY <2>3, MissionFields DEF Like
  <2> QED BY <1>k, <1>l, <2>1, <2>2, <2>3, <2>4
<1>10. ASSUME NEW status \in {"completed", "blocked"}, Conclude(r, status) PROVE CopiesSound'
  <2>1. asked' = asked
    BY <1>10 DEF Conclude
  <2>2. PICK new \in Runs, mem \in Missions :
          /\ Moved(r, new, "concluding", mem) /\ row' = row
          /\ mem.question = m.question /\ mem.answers = m.answers
    BY <1>10, ConcludeMoves
  <2> QED BY <1>k, <1>l, <2>1, <2>2 DEF Like
<1> QED BY <1>1, <1>2, <1>3, <1>5, <1>6, <1>7, <1>8, <1>9, <1>10

\* Nor does the end of a task.
LEMMA EndSound ==
  ASSUME TypeOK, CopiesSound, TypeOK', NEW r \in Runtimes,
         \/ LeaseConflict(r) \/ CheckFails(r) \/ Cancelled(r) \/ KillLands(r) \/ Fails(r)
         \/ Finish(r) \/ Leave(r)
  PROVE  CopiesSound'
<1> DEFINE m == run[r].mem
<1>0. /\ m \in Missions /\ row \in Missions /\ asked \in Nat
      /\ Sound(row, asked) /\ Sound(m, asked)
  BY RuntimeAssumption DEF TypeOK, Runs, CopiesSound
<1>1. ASSUME NEW status, Ends(r, status) \/ Suspends(r) PROVE CopiesSound'
  <2>1. asked' = asked
    BY <1>1 DEF Ends, Suspends
  <2>2. \A s : Like(With(Synced(m), s), row)
    BY <1>0, MissionFields DEF Like
  <2>3. PICK new, pc, s : /\ new \in Runs /\ Moved(r, new, pc, With(Synced(m), s))
                          /\ row' = row \/ row' = With(Synced(m), s)
    BY <1>1, EndsMoves
  <2>4. Sound(With(Synced(m), s), asked)
    BY <1>0, <2>2, LikeSound
  <2> QED BY <1>0, <2>1, <2>3, <2>4, MovesSound DEF Moved
<1>2. ASSUME Returns(r), row' = row, asked' = asked PROVE CopiesSound'
  <2>1. \A s \in Runtimes : /\ run'[s].mem \in {run[s].mem, NoMission}
                            /\ pauser'[s].copy = pauser[s].copy
                            /\ starter'[s] = starter[s]
    <3>1. run'[r] = NoRun /\ \A s \in Runtimes \ {r} : run'[s] = run[s]
      BY <1>2 DEF Returns, TypeOK
    <3>2. \A s \in Runtimes : pauser'[s].copy = pauser[s].copy /\ starter'[s] = starter[s]
      BY <1>2 DEF Returns, TypeOK, Requests
    <3> QED BY <3>1, <3>2 DEF NoRun
  <2>2. Sound(NoMission, asked)
    BY <1>0, SoundMissions
  <2> QED BY <1>2, <2>1, <2>2 DEF CopiesSound
<1>3. CASE LeaseConflict(r) \/ Leave(r)
  BY <1>2, <1>3 DEF LeaseConflict, Leave
<1>4. CASE CheckFails(r) \/ Fails(r) \/ Finish(r)
  BY <1>1, <1>4 DEF CheckFails, Fails, Finish
<1>5. CASE Cancelled(r)
  <2>1. CASE Returns(r) /\ UNCHANGED <<row, lease, asked, flags>>
    BY <1>2, <2>1
  <2>2. CASE EndsCancelled(r)
    BY <1>1, <2>2 DEF EndsCancelled
  <2>3. CASE /\ Moves(r, [run[r] EXCEPT !.pc = "leaving", !.cancelled = FALSE])
             /\ UNCHANGED <<row, lease, asked>>
    <3>1. \E new \in Runs : Moved(r, new, "leaving", m)
      BY <2>3, CancelMoved
    <3> QED BY <1>0, <2>3, <3>1, MovesSound DEF Moved
  <2> QED BY <1>5, <2>1, <2>2, <2>3 DEF Cancelled
<1>6. CASE KillLands(r)
  <2>1. CASE EndsCancelled(r)
    BY <1>1, <2>1 DEF EndsCancelled
  <2>2. CASE /\ Moves(r, [run[r] EXCEPT !.pc = "between", !.killed = FALSE])
             /\ UNCHANGED <<row, lease, asked>>
    <3>1. \E new \in Runs : Moved(r, new, "between", m)
      BY <2>2, KillMoves
    <3> QED BY <1>0, <2>2, <3>1, MovesSound DEF Moved
  <2> QED BY <1>6, <2>1, <2>2 DEF KillLands
<1> QED BY <1>3, <1>4, <1>5, <1>6

\* The missions that requests and servers handle are those there are, but for an
\* answer that is accepted.
LEMMA OthersSound ==
  ASSUME TypeOK, CopiesSound, NEW r \in Runtimes,
         \/ UseCopy(r) \/ RequestBegins(r) \/ StopJoined(r) \/ StopSweep(r) \/ PauseJoined(r)
         \/ ServerStep(r)
  PROVE  CopiesSound'
<1>0. /\ run[r] \in Runs /\ pauser[r] \in Requests /\ starter[r] \in Requests
      /\ row \in Missions /\ asked \in Nat
      /\ Sound(row, asked) /\ Sound(pauser[r].copy, asked) /\ Sound(starter[r].copy, asked)
      /\ pauser[r].copy \in Missions /\ starter[r].copy \in Missions
  BY RuntimeAssumption DEF TypeOK, Requests, CopiesSound
<1>l. ASSUME NEW m \in Missions, Sound(m, asked), NEW s PROVE Sound(With(m, s), asked)
  <2>1. Like(With(m, s), m)
    BY MissionFields DEF Like
  <2> QED BY <1>l, <2>1, LikeSound
<1>n. /\ NoMission \in Missions /\ Sound(NoMission, asked)
      /\ NoRun.mem = NoMission /\ NoRequest.copy = NoMission
  BY <1>0, MissionTypes, SoundMissions DEF NoRun, NoRequest
<1>s. \A m, why : Started(m, why).mem = m
  BY DEF Started, NoRun
<1>1. CASE Create(r)
  <2>1. Sound(With(NoMission, "pending"), asked)
    BY <1>l, <1>n
  <2>2. row' = With(NoMission, "pending") /\ asked' = asked /\ pauser' = pauser /\ starter' = starter
    BY <1>1 DEF Create, Save, requests
  <2>3. \A s \in Runtimes : run'[s].mem \in {run[s].mem, With(NoMission, "pending")}
    BY <1>1, <1>s DEF Create, TypeOK
  <2> QED BY <2>1, <2>2, <2>3 DEF CopiesSound
<1>2. CASE StopBegin(r) \/ Shutdown(r) \/ Kill(r)
  <2>1. row' = row /\ asked' = asked /\ pauser' = pauser /\ starter' = starter
    BY <1>2 DEF StopBegin, Shutdown, Kill, requests
  <2>2. \A s \in Runtimes : run'[s].mem = run[s].mem
    <3>1. CASE StopBegin(r) \/ Shutdown(r)
      <4>1. [run[r] EXCEPT !.cancelled = Live(r)].mem = run[r].mem
        BY <1>0 DEF Runs
      <4> QED BY <3>1, <4>1 DEF StopBegin, Shutdown, TypeOK
    <3>2. CASE Kill(r)
      <4>1. [run[r] EXCEPT !.killed = TRUE].mem = run[r].mem
        BY <1>0 DEF Runs
      <4> QED BY <3>2, <4>1 DEF Kill, TypeOK
    <3> QED BY <1>2, <3>1, <3>2
  <2> QED BY <2>1, <2>2 DEF CopiesSound
<1>3. CASE StopJoined(r) \/ StopSweep(r) \/ Exit(r)
  <2>1. row' = row \/ row' = With(row, "stopped")
    BY <1>3 DEF StopJoined, StopSweep, Exit
  <2>2. asked' = asked /\ run' = run /\ pauser' = pauser /\ starter' = starter
    BY <1>3 DEF StopJoined, StopSweep, Exit, requests
  <2> QED BY <1>0, <1>l, <2>1, <2>2 DEF CopiesSound
<1>4. CASE PauseBegin(r) \/ PauseOffline(r) \/ PauseJoined(r) \/ PauseCheckpoint(r)
  <2>1. row' = row \/ row' = With(pauser[r].copy, "paused")
    BY <1>4 DEF PauseBegin, PauseOffline, PauseJoined, PauseCheckpoint, Save
  <2>2. asked' = asked /\ run' = run /\ starter' = starter
    BY <1>4 DEF PauseBegin, PauseOffline, PauseJoined, PauseCheckpoint
  <2>3. \A s \in Runtimes : pauser'[s].copy \in {pauser[s].copy, row, NoMission}
    <3>1. CASE PauseBegin(r)
      BY <1>0, <3>1 DEF PauseBegin, TypeOK, Requests
    <3>2. CASE PauseOffline(r)
      BY <3>2 DEF PauseOffline, TypeOK
    <3>3. CASE PauseJoined(r) \/ PauseCheckpoint(r)
      BY <1>n, <3>3 DEF PauseJoined, PauseCheckpoint, TypeOK
    <3> QED BY <1>4, <3>1, <3>2, <3>3
  <2> QED BY <1>0, <1>l, <1>n, <2>1, <2>2, <2>3 DEF CopiesSound
<1>5. CASE ResumeBegin(r) \/ AnswerRoute(r)
  <2>1. row' = row /\ asked' = asked /\ run' = run /\ pauser' = pauser
    BY <1>5 DEF ResumeBegin, AnswerRoute
  <2>2. \A s \in Runtimes : starter'[s].copy \in {starter[s].copy, row, NoMission}
    <3>1. CASE ResumeBegin(r)
      BY <3>1 DEF ResumeBegin, TypeOK
    <3>2. CASE AnswerRoute(r)
      <4>1. [starter[r] EXCEPT !.pc = "starting"].copy = starter[r].copy
        BY <1>0 DEF Requests
      <4> QED BY <1>n, <3>2, <4>1 DEF AnswerRoute, TypeOK
    <3> QED BY <1>5, <3>1, <3>2
  <2> QED BY <1>0, <1>n, <2>1, <2>2 DEF CopiesSound
<1>6. CASE AnswerAccept(r)
  <2> DEFINE m == Accepted(row, row.question)
  <2>1. Sound(m, asked)
    BY <1>0, <1>6, SoundMissions DEF AnswerAccept
  <2>2. row' = m /\ asked' = asked /\ run' = run /\ pauser' = pauser
    BY <1>6 DEF AnswerAccept, Save
  <2>3. \A s \in Runtimes : starter'[s].copy \in {starter[s].copy, m}
    BY <1>6 DEF AnswerAccept, TypeOK
  <2> HIDE DEF m
  <2> QED BY <2>1, <2>2, <2>3 DEF CopiesSound
<1>7. CASE StartRun(r) \/ Boot(r)
  <2>1. row' = row /\ asked' = asked /\ pauser' = pauser
    BY <1>7 DEF StartRun, Boot, requests
  <2>2. \A s \in Runtimes : run'[s].mem \in {run[s].mem, starter[r].copy, row}
    BY <1>7, <1>s DEF StartRun, Boot, TypeOK
  <2>3. \A s \in Runtimes : starter'[s].copy \in {starter[s].copy, NoMission}
    BY <1>7, <1>n DEF StartRun, Boot, requests, TypeOK
  <2> QED BY <1>0, <1>n, <2>1, <2>2, <2>3 DEF CopiesSound
<1>8. CASE Crash(r)
  <2>1. row' = row /\ asked' = asked
    BY <1>8 DEF Crash
  <2>2. \A s \in Runtimes : /\ run'[s].mem \in {run[s].mem, NoMission}
                            /\ pauser'[s].copy \in {pauser[s].copy, NoMission}
                            /\ starter'[s].copy \in {starter[s].copy, NoMission}
    BY <1>8, <1>n DEF Crash, TypeOK
  <2> QED BY <1>n, <2>1, <2>2 DEF CopiesSound
<1> QED BY <1>1, <1>2, <1>3, <1>4, <1>5, <1>6, <1>7, <1>8 DEF UseCopy, RequestBegins, ServerStep

LEMMA SoundStep == TypeOK /\ TypeOK' /\ CopiesSound /\ [Next]_vars => CopiesSound'
<1> SUFFICES ASSUME TypeOK, TypeOK', CopiesSound, [Next]_vars PROVE CopiesSound'
  OBVIOUS
<1>1. ASSUME NEW r \in Runtimes,
             \/ UseCopy(r) \/ RequestBegins(r) \/ StopJoined(r) \/ StopSweep(r) \/ PauseJoined(r)
             \/ ServerStep(r)
      PROVE  CopiesSound'
  BY <1>1, OthersSound
<1>2. ASSUME NEW r \in Runtimes, RunStep(r) \/ Fails(r) PROVE CopiesSound'
  BY <1>2, WorkSound, EndSound DEF RunStep
<1>3. CASE LeaseExpires \/ UNCHANGED vars
  BY <1>3 DEF LeaseExpires, vars, requests, CopiesSound
<1> QED BY <1>1, <1>2, <1>3 DEF Next

\* No question has an answer before the first is asked.
LEMMA SoundInit == Init => CopiesSound
<1>1. 0 <= 0
  OBVIOUS
<1>2. Sound(NoMission, 0)
  BY <1>1 DEF Sound, NoMission
<1> QED BY <1>2 DEF Init, CopiesSound, NoRun, NoRequest

-----------------------------------------------------------------------------
(* Terminal missions stay terminal, paused ones paused *)

\* One server at a time, and requests that use their copy of the row before
\* anything else happens.
OneAtATime == MaxUp = 1 /\ ~RequestsYield

Alive(r) == proc[r] \in {"up", "stopping"}

\* A server that is not there has no task and no request, and one that shuts
\* down has answered its requests.
ServerShaped(r) ==
  /\ ~Alive(r) => run[r].pc = "idle"
  /\ proc[r] # "up" => stopper[r] = "none" /\ pauser[r].pc = "none" /\ starter[r].pc = "none"
  /\ \A s \in Runtimes : Alive(r) /\ Alive(s) => r = s

\* Copies that are in use are the row; the run a request is about to start will
\* be the only one, and starts a paused mission only for a resume.
CopyCurrent(r) ==
  /\ pauser[r].pc = "checkpoint" =>
       /\ pauser[r].copy = row /\ row.status \in Resumable
       /\ ~Live(r) /\ starter[r].pc = "none"
  /\ starter[r].pc # "none" => starter[r].copy = row /\ row.status \in Answerable
  /\ starter[r].pc = "starting" => ~Live(r) /\ (row.status = "paused" => starter[r].why = "resume")

\* A run R under the flags fl, while the stop request is at st: a stop that has
\* met a run waits for it, and the run will be saved as stopped if at all.
StopHeld(R, fl, st) ==
  /\ st # "none" => "stopped" \in fl
  /\ "stopped" \in fl /\ R.pc \in Trying => R.cancelled /\ st = "joining"
  /\ "stopped" \in fl /\ R.pc = "closing" =>
       R.mem.status = "stopped" \/ (R.cancelled /\ st = "joining")

\* What a run holds in memory while it works is unfinished, and no agent is
\* killed but that of the task in flight.
RunShaped(R) ==
  /\ R.pc \in Trying \ {"discovering", "concluding"} => R.mem.status \in {"running", "waiting"}
  /\ R.pc \in {"created", "claimed", "discovering", "resuming", "concluding"} =>
       R.task = "none" /\ ~R.killed
  /\ R.pc \in Trying /\ R.killed => R.task # "none" /\ R.pc # "between"

\* When the row m is terminal, R does not work, would save the same status, and
\* if it has not begun it is about to find the flag of the stop.
QuietWhenOver(R, m, fl) ==
  m.status \in Terminal =>
    /\ R.pc \notin Trying
    /\ R.pc = "closing" => R.mem.status = m.status
    /\ R.pc \in {"created", "claimed"} => m.status = "stopped" /\ "stopped" \in fl

\* When it is paused, R ends, or has been started by a resume and not begun.
QuietWhenPaused(R, m) ==
  m.status = "paused" =>
    \/ R.pc \in {"idle", "leaving"}
    \/ R.pc \in {"created", "claimed", "discovering"} /\ R.why = "resume"
    \/ R.pc = "closing" /\ R.mem.status \in {"paused", "stopped"}

\* The question that R waits on is in the row, or its answer is.
Heard(R, m) ==
  R.pc = "parked" =>
    /\ R.mem.question # 0
    /\ \/ m.status = "waiting" /\ m.question = R.mem.question
       \/ m.answers[R.mem.question] # "none"

Orderly(R, m, fl, st) ==
  /\ StopHeld(R, fl, st) /\ RunShaped(R)
  /\ QuietWhenOver(R, m, fl) /\ QuietWhenPaused(R, m)
  /\ Heard(R, m)

\* The invariant of a mission's life.  Neither QuietWhenTerminal nor
\* ParkedAnswerable is inductive: that no step revives a mission that is over
\* needs to know which of its steps a run can still take under a stop.
LifeInvariant ==
  \A r \in Runtimes :
    ServerShaped(r) /\ CopyCurrent(r) /\ Orderly(run[r], row, flags[r], stopper[r])

\* A run that is not there breaks nothing, whatever the row says.
LEMMA IdleOrderly ==
  \A R, m, fl, st : R.pc \in {"idle", "leaving"} /\ (st # "none" => "stopped" \in fl)
                      => Orderly(R, m, fl, st)
BY DEF Orderly, StopHeld, RunShaped, QuietWhenOver, QuietWhenPaused, Heard, Trying

\* A step between two points of the try after its beginning, under a row that is
\* the same or unfinished.
LEMMA WorkingOrderly ==
  ASSUME NEW R, NEW new, NEW m, NEW n, NEW fl, NEW st,
         Orderly(R, m, fl, st), RunShaped(new),
         R.pc \in Trying, ~R.cancelled,
         R.pc = "discovering" => n.status \in {"running", "waiting"},
         n.status = m.status \/ n.status \in {"running", "waiting"},
         new.pc \in Trying \ {"discovering", "parked"}
  PROVE  Orderly(new, n, fl, st)
<1>1. "stopped" \notin fl /\ st = "none" /\ m.status \notin Terminal
  BY DEF Orderly, StopHeld, QuietWhenOver
<1>2. m.status = "paused" => R.pc = "discovering"
  BY DEF Orderly, QuietWhenPaused, Trying
<1>3. n.status \notin Terminal /\ n.status # "paused"
  BY <1>1, <1>2 DEF Terminal
<1> QED BY <1>1, <1>3 DEF Orderly, StopHeld, QuietWhenOver, QuietWhenPaused, Heard

\* Where there is one server there is no other.
LEMMA OthersIdle ==
  ASSUME LifeInvariant, NEW r \in Runtimes, Alive(r)
  PROVE  \A s \in Runtimes \ {r} : ~Alive(s)
BY DEF LifeInvariant, ServerShaped

\* What is to be shown of a step that only one server takes part in.
LEMMA ActsAlone ==
  ASSUME LifeInvariant, NEW r \in Runtimes,
         \A s \in Runtimes \ {r} :
           /\ ~Alive(s)
           /\ proc'[s] = proc[s] /\ flags'[s] = flags[s] /\ run'[s] = run[s]
           /\ stopper'[s] = stopper[s] /\ pauser'[s] = pauser[s] /\ starter'[s] = starter[s],
         proc'[r] \notin {"up", "stopping"} => run'[r].pc = "idle",
         proc'[r] # "up" =>
           stopper'[r] = "none" /\ pauser'[r].pc = "none" /\ starter'[r].pc = "none",
         CopyCurrent(r)',
         Orderly(run'[r], row', flags'[r], stopper'[r])
  PROVE  LifeInvariant'
<1>1. ASSUME NEW s \in Runtimes, s # r
      PROVE  ServerShaped(s)' /\ CopyCurrent(s)' /\ Orderly(run'[s], row', flags'[s], stopper'[s])
  <2>1. /\ proc[s] \notin {"up", "stopping"} /\ run[s].pc = "idle"
        /\ stopper[s] = "none" /\ pauser[s].pc = "none" /\ starter[s].pc = "none"
    BY <1>1 DEF LifeInvariant, ServerShaped, Alive
  <2>2. /\ proc'[s] \notin {"up", "stopping"} /\ run'[s].pc = "idle"
        /\ stopper'[s] = "none" /\ pauser'[s].pc = "none" /\ starter'[s].pc = "none"
    BY <1>1, <2>1
  <2>3. Orderly(run'[s], row', flags'[s], stopper'[s])
    BY <2>2, IdleOrderly
  <2> QED BY <2>2, <2>3 DEF ServerShaped, CopyCurrent, Alive
<1>2. ServerShaped(r)'
  <2>1. \A s \in Runtimes : proc'[s] \in {"up", "stopping"} => s = r
    BY DEF Alive
  <2> QED BY <2>1 DEF ServerShaped, Alive
<1> QED BY <1>1, <1>2 DEF LifeInvariant

\* A step of run(), taken while no request uses a copy of the row.
LEMMA MovesLife ==
  ASSUME TypeOK, LifeInvariant, ~CopyInUse, NEW r \in Runtimes, NEW new, Moves(r, new), Live(r),
         Orderly(new, row', flags[r], stopper[r])
  PROVE  LifeInvariant'
<1>1. Alive(r) /\ \A s \in Runtimes \ {r} : ~Alive(s)
  BY OthersIdle DEF LifeInvariant, ServerShaped, Live
<1>2. /\ run'[r] = new /\ \A s \in Runtimes \ {r} : run'[s] = run[s]
      /\ proc' = proc /\ flags' = flags /\ stopper' = stopper /\ pauser' = pauser /\ starter' = starter
  BY DEF Moves, requests, TypeOK
<1>3. CopyCurrent(r)'
  BY <1>2 DEF CopyInUse, CopyCurrent
<1>4. proc[r] # "up" => stopper[r] = "none" /\ pauser[r].pc = "none" /\ starter[r].pc = "none"
  BY DEF LifeInvariant, ServerShaped
<1> QED BY <1>1, <1>2, <1>3, <1>4, ActsAlone DEF Alive

\* The end of a task; of the flags only "pausing" may go.
LEMMA ReturnsLife ==
  ASSUME TypeOK, LifeInvariant, ~CopyInUse, NEW r \in Runtimes, Returns(r), Live(r),
         \/ flags' = flags
         \/ flags' = [flags EXCEPT ![r] = @ \ {"pausing"}]
  PROVE  LifeInvariant'
<1>1. Alive(r) /\ \A s \in Runtimes \ {r} : ~Alive(s)
  BY OthersIdle DEF LifeInvariant, ServerShaped, Live
<1>2. run'[r] = NoRun /\ proc' = proc /\ starter' = starter
  BY DEF Returns, TypeOK
<1>3. /\ \A s \in Runtimes \ {r} :
           /\ run'[s] = run[s] /\ flags'[s] = flags[s]
           /\ stopper'[s] = stopper[s] /\ pauser'[s] = pauser[s]
      /\ "stopped" \in flags[r] => "stopped" \in flags'[r]
      /\ stopper'[r] # "none" => stopper[r] # "none"
      /\ stopper[r] = "none" => stopper'[r] = "none"
  BY DEF Returns, TypeOK
<1>4. pauser'[r].pc = "checkpoint" \/ pauser'[r].pc = "none" => pauser'[r].pc = pauser[r].pc
  BY DEF Returns, TypeOK, Requests
<1>5. pauser[r].pc = "none" => pauser'[r].pc = "none"
  BY DEF Returns, TypeOK, Requests
<1>6. CopyCurrent(r)'
  BY <1>2, <1>4 DEF CopyInUse, CopyCurrent
<1>7. Orderly(run'[r], row', flags'[r], stopper'[r])
  <2>1. stopper[r] # "none" => "stopped" \in flags[r]
    BY DEF LifeInvariant, Orderly, StopHeld
  <2> QED BY <1>2, <1>3, <2>1, IdleOrderly DEF NoRun
<1>8. proc[r] # "up" => stopper[r] = "none" /\ pauser[r].pc = "none" /\ starter[r].pc = "none"
  BY DEF LifeInvariant, ServerShaped
<1> QED BY <1>1, <1>2, <1>3, <1>5, <1>6, <1>7, <1>8, ActsAlone DEF Alive, NoRun

\* Up to the first save of run().
LEMMA StartLife ==
  ASSUME TypeOK, TypeOK', LifeInvariant, ~CopyInUse, NEW r \in Runtimes,
         LeaseConflict(r) \/ ClaimLease(r) \/ Hydrate(r) \/ Begin(r)
  PROVE  LifeInvariant'
<1> DEFINE R == run[r]
           m == R.mem
<1>0. /\ R \in Runs /\ m \in Missions
      /\ Orderly(R, row, flags[r], stopper[r])
  BY DEF TypeOK, Runs, LifeInvariant
<1>1. CASE LeaseConflict(r)
  <2>1. Live(r) /\ Returns(r) /\ flags' = flags
    BY <1>1 DEF LeaseConflict, At, Live
  <2> QED BY <2>1, ReturnsLife
<1>2. CASE ClaimLease(r)
  <2>1. R.pc = "created"
    BY <1>2 DEF ClaimLease, At
  <2>2. PICK new \in Runs : Moved(r, new, "claimed", m) /\ KeepsTask(new, R) /\ row' = row
    BY <1>2, StartMoves
  <2>3. Orderly(new, row', flags[r], stopper[r])
    BY <1>0, <2>1, <2>2 DEF Moved, KeepsTask, Orderly, StopHeld, RunShaped, QuietWhenOver,
                            QuietWhenPaused, Heard, Trying
  <2> QED BY <2>1, <2>2, <2>3, MovesLife DEF Moved, Live
<1>3. CASE Hydrate(r)
  <2>1. R.pc = "claimed" /\ "stopped" \notin flags[r]
    BY <1>3 DEF Hydrate, At, Flagged
  <2>2. PICK new \in Runs : Moved(r, new, "discovering", Synced(m)) /\ KeepsTask(new, R) /\ row' = row
    BY <1>3, StartMoves
  <2>3. R.task = "none" /\ ~R.killed /\ stopper[r] = "none" /\ row.status \notin Terminal
    BY <1>0, <2>1 DEF Orderly, StopHeld, RunShaped, QuietWhenOver
  <2>4. row.status = "paused" => R.why = "resume"
    BY <1>0, <2>1 DEF Orderly, QuietWhenPaused
  <2>5. Orderly(new, row', flags[r], stopper[r])
    BY <2>1, <2>2, <2>3, <2>4 DEF Moved, KeepsTask, Orderly, StopHeld, RunShaped, QuietWhenOver,
                            QuietWhenPaused, Heard, Trying
  <2> QED BY <2>1, <2>2, <2>5, MovesLife DEF Moved, Live
<1>4. CASE Begin(r)
  <2>1. R.pc = "discovering" /\ ~R.cancelled
    BY <1>4 DEF Begin, At
  <2>2. PICK new \in Runs : /\ Moved(r, new, "resuming", With(m, "running")) /\ KeepsTask(new, R)
                            /\ row' = With(m, "running")
    BY <1>4, StartMoves
  <2>3. With(m, "running").status = "running"
    BY <1>0, MissionFields
  <2>4. RunShaped(new)
    BY <1>0, <2>1, <2>2, <2>3 DEF Moved, KeepsTask, Orderly, RunShaped, Trying
  <2>5. R.pc \in Trying /\ new.pc \in Trying \ {"discovering", "parked"}
    BY <2>1, <2>2 DEF Moved, Trying
  <2>6. Orderly(new, row', flags[r], stopper[r])
    BY <1>0, <2>1, <2>2, <2>3, <2>4, <2>5, WorkingOrderly
  <2> QED BY <2>1, <2>2, <2>6, MovesLife DEF Moved, Live
<1> QED BY <1>1, <1>2, <1>3, <1>4

\* From the first save to the last decision.
LEMMA WorkLife ==
  ASSUME TypeOK, TypeOK', LifeInvariant, ~CopyInUse, NEW r \in Runtimes,
         \/ \E q \in Questions : ConsumeEarlier(r, q)
         \/ RecoverTasks(r) \/ Call(r) \/ Respond(r) \/ HearAnswer(r) \/ Continue(r)
         \/ Delegate(r) \/ Dispatch(r) \/ BeginTask(r) \/ EndTask(r)
         \/ \E status \in {"completed", "blocked"} : Conclude(r, status)
  PROVE  LifeInvariant'
<1> DEFINE R == run[r]
           m == R.mem
           Working == Trying \ {"discovering", "concluding"}
<1>0. /\ R \in Runs /\ m \in Missions /\ row \in Missions
      /\ Orderly(R, row, flags[r], stopper[r]) /\ RunShaped(R)
  BY DEF TypeOK, Runs, LifeInvariant, Orderly
<1>w. \A s : With(m, s).status = s
  BY <1>0, MissionFields
<1>k. ASSUME NEW new, Moves(r, new), R.pc \in Working, ~R.cancelled,
             RunShaped(new), new.pc \in Trying \ {"discovering", "parked"},
             row'.status = row.status \/ row'.status \in {"running", "waiting"}
      PROVE  LifeInvariant'
  <2>1. Orderly(new, row', flags[r], stopper[r])
    BY <1>0, <1>k, WorkingOrderly
  <2>2. Live(r)
    BY <1>k DEF Live, Trying
  <2> QED BY <1>k, <2>1, <2>2, MovesLife
<1>c. ASSUME NEW q \in Questions, NEW pc, Consume(r, q, pc)
      PROVE  \E new \in Runs, mem \in Missions :
               /\ Moved(r, new, pc, mem) /\ KeepsTask(new, R)
               /\ row'.status = row.status /\ mem.status = m.status
  <2>1. PICK new \in Runs, mem \in Missions :
          /\ Moved(r, new, pc, mem) /\ KeepsTask(new, R)
          /\ row'.status = row.status /\ row'.question = row.question
          /\ row'.answers = [row.answers EXCEPT ![q] = "consumed"]
          /\ mem.status = m.status
          /\ mem.question = row.question /\ mem.answers = row'.answers
    BY <1>c, ConsumeMoves
  <2> QED BY <2>1
<1>s. ASSUME R.pc \in Working PROVE m.status \in {"running", "waiting"}
  BY <1>0, <1>s DEF RunShaped
<1>1. CASE Call(r) \/ Respond(r) \/ Dispatch(r) \/ BeginTask(r)
  <2>1. R.pc \in {"calling", "deciding", "dispatching", "between"} /\ ~R.cancelled
    BY <1>1 DEF Call, Respond, Dispatch, BeginTask, At
  <2>2. R.pc \in Working /\ m.status \in {"running", "waiting"}
    BY <1>s, <2>1 DEF Trying
  <2>3. PICK new \in Runs, pc \in {"calling", "deciding", "dispatching"} :
          Moved(r, new, pc, m) /\ KeepsTask(new, R) /\ (row' = row \/ row' = m)
    BY <1>1, WorkMoves
  <2>4. RunShaped(new) /\ new.pc \in Trying \ {"discovering", "parked"}
    BY <1>0, <2>2, <2>3 DEF Moved, KeepsTask, RunShaped, Trying
  <2>5. row'.status = row.status \/ row'.status \in {"running", "waiting"}
    BY <2>2, <2>3
  <2> QED BY <1>k, <2>1, <2>2, <2>3, <2>4, <2>5 DEF Moved
<1>2. CASE EndTask(r)
  <2>1. R.pc = "deciding" /\ ~R.cancelled /\ ~R.killed
    BY <1>2 DEF EndTask, At, AgentFlagged
  <2>2. R.pc \in Working /\ m.status \in {"running", "waiting"}
    BY <1>s, <2>1 DEF Trying
  <2>3. PICK new \in Runs : Moved(r, new, "between", m) /\ KeepsTask(new, R) /\ row' = row
    BY <1>2, WorkMoves
  <2>4. RunShaped(new) /\ new.pc \in Trying \ {"discovering", "parked"}
    BY <2>1, <2>2, <2>3 DEF Moved, KeepsTask, RunShaped, Trying
  <2> QED BY <1>k, <2>1, <2>2, <2>3, <2>4 DEF Moved
<1>3. CASE Continue(r)
  <2>1. R.pc = "answered" /\ ~R.cancelled
    BY <1>3 DEF Continue, At
  <2>2. R.pc \in Working
    BY <2>1 DEF Trying
  <2>3. PICK new \in Runs : /\ Moved(r, new, "calling", With(m, "running")) /\ KeepsTask(new, R)
                            /\ row' = With(m, "running")
    BY <1>3, WorkMoves
  <2>4. RunShaped(new) /\ new.pc \in Trying \ {"discovering", "parked"}
    BY <1>0, <1>w, <2>1, <2>3 DEF Moved, KeepsTask, RunShaped, Trying
  <2> QED BY <1>k, <1>w, <2>1, <2>2, <2>3, <2>4 DEF Moved
<1>4. CASE RecoverTasks(r)
  <2>1. R.pc = "resuming" /\ ~R.cancelled
    BY <1>4 DEF RecoverTasks, Recovered, At
  <2>2. R.pc \in Working /\ m.status \in {"running", "waiting"}
    BY <1>s, <2>1 DEF Trying
  <2>3. PICK new \in Runs : /\ Moved(r, new, "between", m) /\ new.task = "recovery"
                            /\ new.killed = R.killed /\ row' = row
    BY <1>4, TasksMoved
  <2>4. RunShaped(new) /\ new.pc \in Trying \ {"discovering", "parked"}
    BY <1>0, <2>1, <2>2, <2>3 DEF Moved, RunShaped, Trying
  <2> QED BY <1>k, <2>1, <2>2, <2>3, <2>4 DEF Moved
<1>5. CASE Delegate(r)
  <2>1. R.pc = "deciding" /\ ~R.cancelled /\ R.task = "none"
    BY <1>5 DEF Delegate, At
  <2>2. R.pc \in Working
    BY <2>1 DEF Trying
  <2>3. PICK new \in Runs : /\ Moved(r, new, "between", With(m, "waiting")) /\ new.task = "wait"
                            /\ new.killed = R.killed /\ row' = With(m, "waiting")
    BY <1>5, TasksMoved
  <2>4. RunShaped(new) /\ new.pc \in Trying \ {"discovering", "parked"}
    BY <1>0, <1>w, <2>1, <2>3 DEF Moved, RunShaped, Trying
  <2> QED BY <1>k, <1>w, <2>1, <2>2, <2>3, <2>4 DEF Moved
<1>6. CASE \E q \in Questions : ConsumeEarlier(r, q)
  <2>1. PICK q \in Questions : Consume(r, q, "resuming") /\ R.pc = "resuming" /\ ~R.cancelled
    BY <1>6 DEF ConsumeEarlier, At
  <2>2. PICK new \in Runs, mem \in Missions :
          /\ Moved(r, new, "resuming", mem) /\ KeepsTask(new, R)
          /\ row'.status = row.status /\ mem.status = m.status
    BY <1>c, <2>1
  <2>3. R.pc \in Working /\ m.status \in {"running", "waiting"}
    BY <2>1, <1>s DEF Trying
  <2>4. RunShaped(new) /\ new.pc \in Trying \ {"discovering", "parked"}
    BY <1>0, <2>1, <2>2, <2>3 DEF Moved, KeepsTask, RunShaped, Trying
  <2> QED BY <1>k, <2>1, <2>2, <2>3, <2>4 DEF Moved
<1>7. CASE HearAnswer(r)
  <2>1. m.question \in Questions /\ Consume(r, m.question, "answered") /\ R.pc = "parked" /\ ~R.cancelled
    BY <1>0, <1>7 DEF HearAnswer, At, Missions
  <2>2. PICK new \in Runs, mem \in Missions :
          /\ Moved(r, new, "answered", mem) /\ KeepsTask(new, R)
          /\ row'.status = row.status /\ mem.status = m.status
    BY <1>c, <2>1
  <2>3. R.pc \in Working /\ m.status \in {"running", "waiting"}
    BY <2>1, <1>s DEF Trying
  <2>4. RunShaped(new) /\ new.pc \in Trying \ {"discovering", "parked"}
    BY <1>0, <2>1, <2>2, <2>3 DEF Moved, KeepsTask, RunShaped, Trying
  <2> QED BY <1>k, <2>1, <2>2, <2>3, <2>4 DEF Moved
<1>8. ASSUME NEW status \in {"completed", "blocked"}, Conclude(r, status) PROVE LifeInvariant'
  <2>1. R.pc = "deciding" /\ ~R.cancelled /\ R.task = "none"
    BY <1>8 DEF Conclude, At
  <2>2. PICK new \in Runs, mem \in Missions :
          Moved(r, new, "concluding", mem) /\ KeepsTask(new, R) /\ row' = row
    BY <1>8, ConcludeMoves
  <2>3. R.pc \in Working
    BY <2>1 DEF Trying
  <2>4. RunShaped(new) /\ new.pc \in Trying \ {"discovering", "parked"}
    BY <1>0, <2>1, <2>2, <2>3 DEF Moved, KeepsTask, RunShaped, Trying
  <2> QED BY <1>k, <2>1, <2>2, <2>3, <2>4 DEF Moved
<1> QED BY <1>1, <1>2, <1>3, <1>4, <1>5, <1>6, <1>7, <1>8

\* A question that is put to people can be heard.
LEMMA ParkedLife ==
  ASSUME TypeOK, TypeOK', LifeInvariant, ~CopyInUse, NEW r \in Runtimes, NEW n \in Missions,
         NEW new \in Runs, Moved(r, new, "parked", With(n, "waiting")), row' = With(n, "waiting"),
         n.question # 0,
         run[r].pc \in Trying \ {"discovering"}, ~run[r].cancelled,
         new.killed => run[r].killed /\ new.task = run[r].task
  PROVE  LifeInvariant'
<1> DEFINE R == run[r]
<1>0. Orderly(R, row, flags[r], stopper[r]) /\ RunShaped(R) /\ StopHeld(R, flags[r], stopper[r])
  BY DEF LifeInvariant, Orderly
<1>1. "stopped" \notin flags[r] /\ stopper[r] = "none"
  BY <1>0 DEF StopHeld
<1>2. /\ With(n, "waiting").status = "waiting" /\ With(n, "waiting").question = n.question
      /\ new.pc = "parked" /\ new.mem = With(n, "waiting")
  BY MissionFields DEF Moved
<1>3. RunShaped(new)
  BY <1>0, <1>2 DEF RunShaped, Trying
<1>4. Heard(new, row')
  BY <1>2 DEF Heard
<1>5. Orderly(new, row', flags[r], stopper[r])
  BY <1>1, <1>2, <1>3, <1>4 DEF Orderly, StopHeld, QuietWhenOver, QuietWhenPaused, Terminal
<1>6. Live(r)
  BY DEF Live, Trying
<1> QED BY <1>5, <1>6, MovesLife DEF Moved

\* The three places where that happens.
LEMMA ParksLife ==
  ASSUME TypeOK, TypeOK', LifeInvariant, ~CopyInUse, NEW r \in Runtimes,
         ParkAgain(r) \/ Ask(r) \/ TasksDone(r)
  PROVE  LifeInvariant'
<1> DEFINE R == run[r]
           m == R.mem
<1>0. /\ R \in Runs /\ m \in Missions
      /\ Orderly(R, row, flags[r], stopper[r]) /\ RunShaped(R)
  BY DEF TypeOK, Runs, LifeInvariant, Orderly
<1>1. ASSUME NEW n \in Missions, Park(r, n), n.question # 0, R.pc \in {"resuming", "deciding"},
             ~R.cancelled
      PROVE  LifeInvariant'
  <2>1. PICK new \in Runs : /\ Moved(r, new, "parked", With(n, "waiting")) /\ KeepsTask(new, R)
                            /\ row' = With(n, "waiting")
    BY <1>1, ParkMoves
  <2>2. R.pc \in Trying \ {"discovering"}
    BY <1>1 DEF Trying
  <2> QED BY <1>1, <2>1, <2>2, ParkedLife DEF KeepsTask
<1>2. CASE ParkAgain(r)
  BY <1>0, <1>1, <1>2 DEF ParkAgain, Recovered, At
<1>3. CASE Ask(r)
  <2>1. PICK q \in Questions : Park(r, [m EXCEPT !.question = q])
    BY <1>3 DEF Ask
  <2> DEFINE n == [m EXCEPT !.question = q]
  <2>2. n \in Missions /\ n.question = q
    BY <1>0 DEF Missions
  <2>3. q # 0
    BY RuntimeAssumption
  <2>4. R.pc = "deciding" /\ ~R.cancelled
    BY <1>3 DEF Ask, At
  <2>5. Park(r, n)
    BY <2>1
  <2> HIDE DEF n
  <2> QED BY <1>1, <2>2, <2>3, <2>4, <2>5
<1>4. CASE TasksDone(r)
  <2>1. R.pc = "between" /\ ~R.cancelled
    BY <1>4 DEF TasksDone, At
  <2>2. R.pc \in Trying \ {"discovering", "concluding"} /\ ~R.killed
    BY <1>0, <2>1 DEF RunShaped, Trying
  <2>3. m.status \in {"running", "waiting"}
    BY <1>0, <2>2 DEF RunShaped
  <2>4. PICK new \in Runs, n \in Missions :
          /\ n = (IF R.task = "wait" THEN With(m, "running") ELSE m)
          /\ new.task = "none" /\ new.killed = R.killed
          /\ \/ /\ Moved(r, new, "parked", With(n, "waiting"))
                /\ n.question # 0 /\ row' = With(n, "waiting")
             \/ /\ Moved(r, new, "calling", n)
                /\ row' = row \/ row' = n
    BY <1>4, TasksDoneMoves
  <2>5. n.status \in {"running", "waiting"}
    BY <1>0, <2>3, <2>4, MissionFields
  <2>6. CASE Moved(r, new, "parked", With(n, "waiting")) /\ n.question # 0 /\ row' = With(n, "waiting")
    BY <2>1, <2>2, <2>4, <2>6, ParkedLife
  <2>7. CASE Moved(r, new, "calling", n) /\ (row' = row \/ row' = n)
    <3>1. RunShaped(new) /\ new.pc \in Trying \ {"discovering", "parked"}
      BY <2>2, <2>4, <2>5, <2>7 DEF Moved, RunShaped, Trying
    <3>2. row'.status = row.status \/ row'.status \in {"running", "waiting"}
      BY <2>5, <2>7
    <3>3. Orderly(new, row', flags[r], stopper[r])
      BY <1>0, <2>1, <2>2, <3>1, <3>2, WorkingOrderly
    <3> QED BY <2>1, <2>7, <3>3, MovesLife DEF Moved, Live
  <2> QED BY <2>4, <2>6, <2>7
<1> QED BY <1>2, <1>3, <1>4

\* Leaving the try, or run() before it, with the status that the flags and the
\* row allow.
LEMMA EndsLife ==
  ASSUME TypeOK, TypeOK', LifeInvariant, ~CopyInUse, NEW r \in Runtimes, NEW status,
         Ends(r, status) \/ Suspends(r),
         run[r].pc \in Trying \cup {"claimed"},
         Ends(r, status) /\ "stopped" \in flags[r] => status = "stopped",
         Ends(r, status) /\ run[r].pc \in {"claimed", "discovering"} => status \in {"stopped", "paused"}
  PROVE  LifeInvariant'
<1> DEFINE R == run[r]
           m == R.mem
<1>0. /\ R \in Runs /\ m \in Missions
      /\ Orderly(R, row, flags[r], stopper[r]) /\ StopHeld(R, flags[r], stopper[r])
      /\ QuietWhenOver(R, row, flags[r]) /\ QuietWhenPaused(R, row)
  BY DEF TypeOK, Runs, LifeInvariant, Orderly
<1>1. Live(r) /\ (stopper[r] # "none" => "stopped" \in flags[r])
  BY <1>0 DEF Live, StopHeld, Trying
<1>2. CASE Ends(r, status)
  <2>1. PICK new \in Runs : /\ Moved(r, new, "closing", With(Synced(m), status))
                            /\ ~new.cancelled /\ row' = row
    BY <1>2, EndsMoves
  <2>2. new.pc = "closing" /\ new.mem.status = status
    BY <1>0, <2>1, MissionFields DEF Moved
  <2>3. StopHeld(new, flags[r], stopper[r])
    BY <1>1, <1>2, <2>2 DEF StopHeld, Trying
  <2>4. QuietWhenOver(new, row, flags[r])
    <3>1. SUFFICES ASSUME row.status \in Terminal PROVE status = row.status
      BY <2>2 DEF QuietWhenOver, Trying
    <3>2. R.pc = "claimed" /\ row.status = "stopped" /\ "stopped" \in flags[r]
      BY <1>0, <3>1 DEF QuietWhenOver
    <3> QED BY <1>2, <3>2
  <2>5. QuietWhenPaused(new, row)
    <3>1. row.status = "paused" => R.pc \in {"claimed", "discovering"}
      BY <1>0 DEF QuietWhenPaused, Trying
    <3> QED BY <1>2, <2>2, <3>1 DEF QuietWhenPaused
  <2>6. RunShaped(new) /\ Heard(new, row)
    BY <2>2 DEF RunShaped, Heard, Trying
  <2>7. Orderly(new, row', flags[r], stopper[r])
    BY <2>1, <2>3, <2>4, <2>5, <2>6 DEF Orderly
  <2> QED BY <1>1, <2>1, <2>7, MovesLife DEF Moved
<1>3. CASE Suspends(r)
  <2>1. PICK new \in Runs, s \in {"running", "waiting"} :
          /\ Moved(r, new, "leaving", With(Synced(m), s)) /\ ~new.cancelled
          /\ row' = With(Synced(m), s)
    BY <1>3, EndsMoves
  <2>2. Orderly(new, row', flags[r], stopper[r])
    BY <1>1, <2>1, IdleOrderly DEF Moved
  <2> QED BY <1>1, <2>1, <2>2, MovesLife DEF Moved
<1> QED BY <1>2, <1>3

\* How run() ends.
LEMMA EndLife ==
  ASSUME TypeOK, TypeOK', LifeInvariant, ~CopyInUse, NEW r \in Runtimes,
         \/ CheckFails(r) \/ Cancelled(r) \/ KillLands(r) \/ Fails(r)
         \/ Finish(r) \/ Close(r) \/ Leave(r)
  PROVE  LifeInvariant'
<1> DEFINE R == run[r]
           m == R.mem
<1>0. /\ R \in Runs /\ m \in Missions
      /\ Orderly(R, row, flags[r], stopper[r]) /\ StopHeld(R, flags[r], stopper[r]) /\ RunShaped(R)
  BY DEF TypeOK, Runs, LifeInvariant, Orderly
<1>1. ASSUME NEW status, Ends(r, status) \/ Suspends(r), R.pc \in Trying \cup {"claimed"},
             Ends(r, status) /\ "stopped" \in flags[r] => status = "stopped",
             Ends(r, status) /\ R.pc \in {"claimed", "discovering"} => status \in {"stopped", "paused"}
      PROVE  LifeInvariant'
  BY <1>1, EndsLife
<1>2. CASE CheckFails(r)
  <2>1. R.pc \in Trying \cup {"claimed"}
    BY <1>2 DEF CheckFails, At, Checking, Trying
  <2> QED BY <1>1, <1>2, <2>1 DEF CheckFails
<1>3. CASE Fails(r) \/ Finish(r)
  <2>1. R.pc \in Trying \ {"discovering"} /\ ~R.cancelled /\ \E status : Ends(r, status)
    BY <1>3 DEF Fails, Finish, At, Trying
  <2>2. "stopped" \notin flags[r]
    BY <1>0, <2>1 DEF StopHeld
  <2>3. R.pc \notin {"claimed", "discovering"}
    BY <2>1 DEF Trying
  <2> QED BY <1>1, <2>1, <2>2, <2>3
<1>4. ASSUME EndsCancelled(r), R.pc \in Trying PROVE LifeInvariant'
  <2>1. CASE CancelledStatus(r) = "suspended"
    <3>1. Suspends(r)
      BY <1>4, <2>1 DEF EndsCancelled
    <3>2. "stopped" \notin flags[r]
      BY <2>1 DEF CancelledStatus
    <3> QED BY <1>1, <1>4, <3>1, <3>2
  <2>2. CASE CancelledStatus(r) \in {"stopped", "paused"}
    <3>1. Ends(r, CancelledStatus(r))
      BY <1>4, <2>2 DEF EndsCancelled
    <3>2. "stopped" \in flags[r] => CancelledStatus(r) = "stopped"
      BY DEF CancelledStatus
    <3> QED BY <1>1, <1>4, <2>2, <3>1, <3>2
  <2> QED BY <2>1, <2>2, CancelledStatuses
<1>5. ASSUME NEW new \in Runs, NEW mem, Moved(r, new, "leaving", mem), R.pc = "closing"
      PROVE  LifeInvariant'
  <2>1. Orderly(new, row', flags[r], stopper[r])
    BY <1>0, <1>5, IdleOrderly DEF Moved, StopHeld
  <2> QED BY <1>5, <2>1, MovesLife DEF Moved, Live
<1>6. CASE Cancelled(r)
  <2>1. CASE /\ R.pc \in {"created", "claimed"}
             /\ Returns(r)
             /\ UNCHANGED <<row, lease, asked, flags>>
    BY <2>1, ReturnsLife DEF Live
  <2>2. CASE R.pc \in Trying /\ EndsCancelled(r)
    BY <1>4, <2>2
  <2>3. CASE /\ R.pc = "closing"
             /\ Moves(r, [R EXCEPT !.pc = "leaving", !.cancelled = FALSE])
             /\ UNCHANGED <<row, lease, asked>>
    <3>1. \E new \in Runs : Moved(r, new, "leaving", m)
      BY <2>3, CancelMoved
    <3> QED BY <1>5, <2>3, <3>1
  <2> QED BY <1>6, <2>1, <2>2, <2>3 DEF Cancelled
<1>7. CASE Close(r)
  <2>1. R.pc = "closing" /\ \E new \in Runs : Moved(r, new, "leaving", m)
    BY <1>7, WorkMoves DEF Close, At
  <2> QED BY <1>5, <2>1
<1>8. CASE Leave(r)
  <2>1. \/ flags' = flags
        \/ flags' = [flags EXCEPT ![r] = @ \ {"pausing"}]
    BY <1>8 DEF Leave, TypeOK
  <2> QED BY <1>8, <2>1, ReturnsLife DEF Leave, Live
<1>9. CASE KillLands(r)
  <2>1. R.pc \in Trying /\ ~R.cancelled /\ R.killed
    BY <1>9 DEF KillLands, At
  <2>2. CASE EndsCancelled(r)
    BY <1>4, <2>1, <2>2
  <2>3. CASE /\ Moves(r, [R EXCEPT !.pc = "between", !.killed = FALSE])
             /\ UNCHANGED <<row, lease, asked>>
    <3>0. Moves(r, [run[r] EXCEPT !.pc = "between", !.killed = FALSE])
      BY <2>3
    <3>1. PICK new \in Runs : /\ Moved(r, new, "between", m) /\ ~new.killed
                              /\ new.task = R.task /\ new.cancelled = R.cancelled
      BY <3>0, KillMoves, Zenon
    <3>2. R.pc \in Trying \ {"discovering", "concluding"} /\ m.status \in {"running", "waiting"}
      BY <1>0, <2>1 DEF RunShaped
    <3>3. RunShaped(new) /\ new.pc \in Trying \ {"discovering", "parked"}
      BY <3>1, <3>2 DEF Moved, RunShaped, Trying
    <3>4. R.pc # "discovering"
      BY <3>2
    <3>5. Orderly(new, row', flags[r], stopper[r])
      BY <1>0, <2>1, <2>3, <3>3, <3>4, WorkingOrderly
    <3> QED BY <2>1, <3>1, <3>5, MovesLife DEF Moved, Live, Trying
  <2> QED BY <1>9, <2>2, <2>3 DEF KillLands
<1> QED BY <1>2, <1>3, <1>6, <1>7, <1>8, <1>9

\* Requests that change the flags or themselves.
LEMMA FlagLife ==
  ASSUME TypeOK, LifeInvariant, ~CopyInUse, NEW r \in Runtimes,
         \/ StopBegin(r) \/ StopJoined(r) \/ PauseBegin(r) \/ PauseJoined(r) \/ PauseOffline(r)
         \/ ResumeBegin(r) \/ Kill(r) \/ Shutdown(r) \/ Exit(r)
  PROVE  LifeInvariant'
<1> DEFINE R == run[r]
<1>0. /\ R \in Runs /\ pauser[r] \in Requests
      /\ Orderly(R, row, flags[r], stopper[r]) /\ StopHeld(R, flags[r], stopper[r]) /\ RunShaped(R)
      /\ QuietWhenOver(R, row, flags[r]) /\ QuietWhenPaused(R, row) /\ Heard(R, row)
      /\ ServerShaped(r) /\ pauser[r].pc # "checkpoint" /\ starter[r].pc = "none"
  BY DEF TypeOK, LifeInvariant, Orderly, CopyInUse
<1>1. CASE StopBegin(r)
  <2> DEFINE new == [R EXCEPT !.cancelled = Live(r)]
  <2>1. /\ new.pc = R.pc /\ new.mem = R.mem /\ new.why = R.why /\ new.task = R.task
        /\ new.killed = R.killed /\ new.cancelled = Live(r)
    BY <1>0 DEF Runs
  <2>2. /\ row' = row /\ proc' = proc /\ pauser' = pauser /\ starter' = starter /\ Up(r)
        /\ run' = [run EXCEPT ![r] = new]
        /\ flags' = [flags EXCEPT ![r] = (@ \cup {"stopped"}) \ {"pausing"}]
        /\ stopper' = [stopper EXCEPT ![r] = IF Live(r) THEN "joining" ELSE "sweeping"]
    BY <1>1 DEF StopBegin
  <2> HIDE DEF new
  <2>3. /\ run'[r] = new /\ "stopped" \in flags'[r]
        /\ stopper'[r] = (IF Live(r) THEN "joining" ELSE "sweeping")
        /\ \A s \in Runtimes \ {r} :
             run'[s] = run[s] /\ flags'[s] = flags[s] /\ stopper'[s] = stopper[s]
    BY <2>2 DEF TypeOK
  <2>4. StopHeld(new, flags'[r], stopper'[r])
    BY <2>1, <2>3 DEF StopHeld, Live, Trying
  <2>5. RunShaped(new)
    BY <1>0, <2>1 DEF RunShaped
  <2>6. QuietWhenOver(new, row', flags'[r])
    BY <1>0, <2>1, <2>2, <2>3 DEF QuietWhenOver
  <2>7. QuietWhenPaused(new, row') /\ Heard(new, row')
    BY <1>0, <2>1, <2>2 DEF QuietWhenPaused, Heard
  <2>8. Orderly(run'[r], row', flags'[r], stopper'[r])
    BY <2>3, <2>4, <2>5, <2>6, <2>7 DEF Orderly
  <2>9. Alive(r) /\ \A s \in Runtimes \ {r} : ~Alive(s)
    BY <2>2, OthersIdle DEF Alive, Up
  <2>10. CopyCurrent(r)'
    BY <1>0, <2>2 DEF CopyCurrent
  <2> QED BY <2>2, <2>3, <2>8, <2>9, <2>10, ActsAlone DEF Up
<1>2. CASE StopJoined(r)
  <2>1. /\ row' = row /\ proc' = proc /\ pauser' = pauser /\ starter' = starter
        /\ run' = run /\ flags' = flags /\ stopper[r] = "joined"
        /\ stopper'[r] \in {"none", "sweeping"}
        /\ \A s \in Runtimes \ {r} : stopper'[s] = stopper[s]
    BY <1>2 DEF StopJoined, AfterJoin, TypeOK
  <2>2. proc[r] = "up"
    BY <1>0, <2>1 DEF ServerShaped
  <2>3. StopHeld(R, flags[r], stopper'[r])
    BY <1>0, <2>1 DEF StopHeld
  <2>4. Orderly(run'[r], row', flags'[r], stopper'[r])
    BY <1>0, <2>1, <2>3 DEF Orderly
  <2>5. \A s \in Runtimes \ {r} : ~Alive(s)
    BY <2>2, OthersIdle DEF Alive
  <2>6. CopyCurrent(r)'
    BY <1>0, <2>1 DEF CopyCurrent
  <2> QED BY <2>1, <2>2, <2>4, <2>5, <2>6, ActsAlone
<1>3. CASE PauseBegin(r) \/ PauseJoined(r) \/ PauseOffline(r)
  <2>1. /\ row' = row /\ proc' = proc /\ run' = run /\ stopper' = stopper /\ starter' = starter
        /\ "stopped" \in flags'[r] <=> "stopped" \in flags[r]
        /\ \A s \in Runtimes \ {r} : flags'[s] = flags[s] /\ pauser'[s] = pauser[s]
    BY <1>3 DEF PauseBegin, PauseJoined, PauseOffline, TypeOK
  <2>2. proc[r] = "up"
    BY <1>0, <1>3 DEF ServerShaped, PauseBegin, PauseJoined, PauseOffline, Up
  <2>3. CopyCurrent(r)'
    <3>1. CASE PauseBegin(r) \/ PauseJoined(r)
      <4>1. pauser'[r].pc # "checkpoint"
        BY <1>0, <3>1 DEF PauseBegin, PauseJoined, NoRequest, TypeOK, Requests
      <4> QED BY <1>0, <2>1, <4>1 DEF CopyCurrent
    <3>2. CASE PauseOffline(r)
      <4>1. pauser'[r].copy = row /\ row.status \in Resumable /\ ~Live(r)
        BY <3>2 DEF PauseOffline, TypeOK
      <4> QED BY <1>0, <2>1, <4>1 DEF CopyCurrent, Live
    <3> QED BY <1>3, <3>1, <3>2
  <2>4. Orderly(run'[r], row', flags'[r], stopper'[r])
    <3>1. StopHeld(R, flags'[r], stopper[r])
      BY <1>0, <2>1 DEF StopHeld
    <3>2. QuietWhenOver(R, row, flags'[r])
      BY <1>0, <2>1 DEF QuietWhenOver
    <3> QED BY <1>0, <2>1, <3>1, <3>2 DEF Orderly
  <2>5. \A s \in Runtimes \ {r} : ~Alive(s)
    BY <2>2, OthersIdle DEF Alive
  <2> QED BY <2>1, <2>2, <2>3, <2>4, <2>5, ActsAlone
<1>4. CASE ResumeBegin(r)
  <2>1. /\ row' = row /\ proc' = proc /\ run' = run /\ stopper' = stopper /\ pauser' = pauser
        /\ "stopped" \in flags'[r] <=> "stopped" \in flags[r]
        /\ \A s \in Runtimes \ {r} : flags'[s] = flags[s] /\ starter'[s] = starter[s]
        /\ starter'[r] = [pc |-> "starting", copy |-> row, why |-> "resume"]
        /\ proc[r] = "up" /\ row.status = "paused" /\ ~Live(r)
    BY <1>4 DEF ResumeBegin, TypeOK, Up
  <2>2. CopyCurrent(r)'
    BY <1>0, <2>1 DEF CopyCurrent, Live, Answerable
  <2>3. Orderly(run'[r], row', flags'[r], stopper'[r])
    <3>1. StopHeld(R, flags'[r], stopper[r])
      BY <1>0, <2>1 DEF StopHeld
    <3>2. QuietWhenOver(R, row, flags'[r])
      BY <1>0, <2>1 DEF QuietWhenOver
    <3> QED BY <1>0, <2>1, <3>1, <3>2 DEF Orderly
  <2>4. \A s \in Runtimes \ {r} : ~Alive(s)
    BY <2>1, OthersIdle DEF Alive
  <2> QED BY <2>1, <2>2, <2>3, <2>4, ActsAlone
<1>5. CASE Kill(r)
  <2> DEFINE new == [R EXCEPT !.killed = TRUE]
  <2>1. /\ new.pc = R.pc /\ new.mem = R.mem /\ new.why = R.why /\ new.task = R.task
        /\ new.cancelled = R.cancelled
    BY <1>0 DEF Runs
  <2>2. /\ row' = row /\ proc' = proc /\ stopper' = stopper /\ pauser' = pauser /\ starter' = starter
        /\ proc[r] = "up" /\ R.pc \in Trying \ {"between"} /\ R.task # "none"
        /\ run' = [run EXCEPT ![r] = new]
        /\ flags' = [flags EXCEPT ![r] = @ \cup {"killed"}]
    BY <1>5 DEF Kill, requests, Up
  <2> HIDE DEF new
  <2>3. /\ run'[r] = new
        /\ "stopped" \in flags'[r] <=> "stopped" \in flags[r]
        /\ \A s \in Runtimes \ {r} : run'[s] = run[s] /\ flags'[s] = flags[s]
    BY <2>2 DEF TypeOK
  <2>4. StopHeld(new, flags'[r], stopper[r])
    BY <1>0, <2>1, <2>3 DEF StopHeld
  <2>5. RunShaped(new)
    BY <1>0, <2>1, <2>2 DEF RunShaped
  <2>6. QuietWhenOver(new, row, flags'[r])
    BY <1>0, <2>1, <2>3 DEF QuietWhenOver
  <2>7. QuietWhenPaused(new, row) /\ Heard(new, row)
    BY <1>0, <2>1 DEF QuietWhenPaused, Heard
  <2>8. Orderly(run'[r], row', flags'[r], stopper'[r])
    BY <2>2, <2>3, <2>4, <2>5, <2>6, <2>7 DEF Orderly
  <2>9. \A s \in Runtimes \ {r} : ~Alive(s)
    BY <2>2, OthersIdle DEF Alive
  <2>10. CopyCurrent(r)'
    BY <1>0, <2>2 DEF CopyCurrent
  <2> QED BY <2>2, <2>3, <2>8, <2>9, <2>10, ActsAlone
<1>6. CASE Shutdown(r)
  <2> DEFINE new == [R EXCEPT !.cancelled = Live(r)]
  <2>1. /\ new.pc = R.pc /\ new.mem = R.mem /\ new.why = R.why /\ new.task = R.task
        /\ new.killed = R.killed
    BY <1>0 DEF Runs
  <2>2. /\ row' = row /\ stopper' = stopper /\ pauser' = pauser /\ starter' = starter
        /\ proc[r] = "up" /\ stopper[r] = "none" /\ pauser[r].pc = "none"
        /\ proc' = [proc EXCEPT ![r] = "stopping"]
        /\ run' = [run EXCEPT ![r] = new]
        /\ flags' = [flags EXCEPT ![r] = IF Live(r) THEN @ \cup {"suspending"} ELSE @]
    BY <1>6 DEF Shutdown, requests, Up
  <2> HIDE DEF new
  <2>3. /\ run'[r] = new /\ proc'[r] = "stopping"
        /\ "stopped" \in flags'[r] <=> "stopped" \in flags[r]
        /\ \A s \in Runtimes \ {r} : run'[s] = run[s] /\ flags'[s] = flags[s] /\ proc'[s] = proc[s]
    BY <2>2 DEF TypeOK
  <2>4. StopHeld(new, flags'[r], stopper[r])
    BY <1>0, <2>1, <2>2, <2>3 DEF StopHeld
  <2>5. RunShaped(new)
    BY <1>0, <2>1 DEF RunShaped
  <2>6. QuietWhenOver(new, row, flags'[r])
    BY <1>0, <2>1, <2>3 DEF QuietWhenOver
  <2>7. QuietWhenPaused(new, row) /\ Heard(new, row)
    BY <1>0, <2>1 DEF QuietWhenPaused, Heard
  <2>8. Orderly(run'[r], row', flags'[r], stopper'[r])
    BY <2>2, <2>3, <2>4, <2>5, <2>6, <2>7 DEF Orderly
  <2>9. \A s \in Runtimes \ {r} : ~Alive(s)
    BY <2>2, OthersIdle DEF Alive
  <2>10. CopyCurrent(r)'
    BY <1>0, <2>2 DEF CopyCurrent
  <2> QED BY <1>0, <2>2, <2>3, <2>8, <2>9, <2>10, ActsAlone
<1>7. CASE Exit(r)
  <2>1. /\ row' = row /\ run' = run /\ flags' = flags
        /\ stopper' = stopper /\ pauser' = pauser /\ starter' = starter
        /\ proc[r] = "stopping" /\ R.pc = "idle"
        /\ \A s \in Runtimes \ {r} : proc'[s] = proc[s]
    BY <1>7 DEF Exit, requests, Live, TypeOK
  <2>2. stopper[r] = "none" /\ pauser[r].pc = "none" /\ starter[r].pc = "none"
    BY <1>0, <2>1 DEF ServerShaped
  <2>3. \A s \in Runtimes \ {r} : ~Alive(s)
    BY <2>1, OthersIdle DEF Alive
  <2>4. CopyCurrent(r)'
    BY <2>1, <2>2 DEF CopyCurrent
  <2> QED BY <1>0, <2>1, <2>2, <2>3, <2>4, ActsAlone
<1> QED BY <1>1, <1>2, <1>3, <1>4, <1>5, <1>6, <1>7

\* Requests that write the row, or start a run.
LEMMA WriteLife ==
  ASSUME TypeOK, LifeInvariant, NEW r \in Runtimes,
         \/ ~CopyInUse /\ (Create(r) \/ StopSweep(r) \/ AnswerAccept(r))
         \/ UseCopy(r)
  PROVE  LifeInvariant'
<1> DEFINE R == run[r]
<1>0. /\ R \in Runs /\ row \in Missions /\ pauser[r] \in Requests /\ starter[r] \in Requests
      /\ Orderly(R, row, flags[r], stopper[r]) /\ StopHeld(R, flags[r], stopper[r]) /\ RunShaped(R)
      /\ QuietWhenOver(R, row, flags[r]) /\ QuietWhenPaused(R, row) /\ Heard(R, row)
      /\ ServerShaped(r) /\ CopyCurrent(r)
  BY DEF TypeOK, LifeInvariant, Orderly
<1>n. ~CopyInUse => pauser[r].pc # "checkpoint" /\ starter[r].pc = "none"
  BY DEF CopyInUse
<1>s. ASSUME NEW m, NEW why
      PROVE  /\ Started(m, why).pc = "created" /\ Started(m, why).mem = m /\ Started(m, why).why = why
             /\ Started(m, why).task = "none" /\ ~Started(m, why).killed
  BY DEF Started, NoRun
<1>o. ASSUME proc[r] = "up" PROVE \A s \in Runtimes \ {r} : ~Alive(s)
  BY <1>o, OthersIdle DEF Alive
<1>1. CASE ~CopyInUse /\ Create(r)
  <2> DEFINE m == With(NoMission, "pending")
             new == Started(m, "create")
  <2>1. m.status = "pending"
    BY DEF With, NoMission
  <2>2. /\ row' = m /\ proc' = proc /\ flags' = flags /\ stopper' = stopper
        /\ pauser' = pauser /\ starter' = starter /\ proc[r] = "up"
        /\ run' = [run EXCEPT ![r] = new]
    BY <1>1 DEF Create, Save, requests, Up
  <2>3. new.pc = "created" /\ new.task = "none" /\ ~new.killed
    BY <1>s
  <2> HIDE DEF m, new
  <2>4. run'[r] = new /\ \A s \in Runtimes \ {r} : run'[s] = run[s]
    BY <2>2 DEF TypeOK
  <2>5. Orderly(new, row', flags[r], stopper[r])
    BY <1>0, <2>1, <2>2, <2>3 DEF Orderly, StopHeld, RunShaped, QuietWhenOver, QuietWhenPaused,
                                  Heard, Trying, Terminal
  <2>6. CopyCurrent(r)'
    BY <1>1, <1>n, <2>2 DEF CopyCurrent
  <2> QED BY <1>o, <2>2, <2>4, <2>5, <2>6, ActsAlone
<1>2. CASE ~CopyInUse /\ StopSweep(r)
  <2>1. /\ proc' = proc /\ flags' = flags /\ run' = run /\ pauser' = pauser /\ starter' = starter
        /\ stopper[r] = "sweeping" /\ stopper'[r] = "none"
        /\ \A s \in Runtimes \ {r} : stopper'[s] = stopper[s]
        /\ row' = row \/ row' = With(row, "stopped")
    BY <1>2 DEF StopSweep, TypeOK
  <2>2. proc[r] = "up"
    BY <1>0, <2>1 DEF ServerShaped
  <2>3. StopHeld(R, flags[r], stopper'[r]) /\ "stopped" \in flags[r] /\ R.pc \notin Trying
        /\ (R.pc = "closing" => R.mem.status = "stopped")
    BY <1>0, <2>1 DEF StopHeld
  <2>4. Orderly(run'[r], row', flags'[r], stopper'[r])
    <3>1. CASE row' = row
      BY <1>0, <2>1, <2>3, <3>1 DEF Orderly
    <3>2. CASE row' = With(row, "stopped")
      <4>1. row'.status = "stopped"
        BY <1>0, <3>2, MissionFields
      <4>2. QuietWhenOver(R, row', flags[r]) /\ QuietWhenPaused(R, row')
        BY <2>3, <4>1 DEF QuietWhenOver, QuietWhenPaused
      <4>3. Heard(R, row')
        BY <2>3 DEF Heard, Trying
      <4> QED BY <1>0, <2>1, <2>3, <4>2, <4>3 DEF Orderly
    <3> QED BY <2>1, <3>1, <3>2
  <2>5. CopyCurrent(r)'
    BY <1>2, <1>n, <2>1 DEF CopyCurrent
  <2> QED BY <1>o, <2>1, <2>2, <2>4, <2>5, ActsAlone
<1>3. CASE ~CopyInUse /\ AnswerAccept(r)
  <2> DEFINE m == Accepted(row, row.question)
  <2>1. /\ row' = m /\ proc' = proc /\ flags' = flags /\ run' = run /\ stopper' = stopper
        /\ pauser' = pauser /\ proc[r] = "up" /\ row.status \in Answerable /\ row.question # 0
        /\ starter' = [starter EXCEPT ![r] = [pc |-> "answering", copy |-> m, why |-> "answer"]]
    BY <1>3 DEF AnswerAccept, Save, Up
  <2>2. /\ m.status = row.status
        /\ m.answers[row.question] # "none"
        /\ \A q \in Questions : row.answers[q] # "none" => m.answers[q] # "none"
    BY <1>0, <2>1 DEF Accepted, Missions
  <2> HIDE DEF m
  <2>3. /\ starter'[r].pc = "answering" /\ starter'[r].copy = m
        /\ \A s \in Runtimes \ {r} : starter'[s] = starter[s]
    BY <2>1 DEF TypeOK
  <2>4. R.mem.question \in Questions \cup {0}
    BY <1>0 DEF Runs, Missions
  <2>5. Heard(R, m)
    BY <1>0, <2>1, <2>2, <2>4 DEF Heard
  <2>6. QuietWhenOver(R, m, flags[r]) /\ QuietWhenPaused(R, m)
    BY <1>0, <2>2 DEF QuietWhenOver, QuietWhenPaused
  <2>7. Orderly(run'[r], row', flags'[r], stopper'[r])
    BY <1>0, <2>1, <2>5, <2>6 DEF Orderly
  <2>8. CopyCurrent(r)'
    BY <1>3, <1>n, <2>1, <2>2, <2>3 DEF CopyCurrent
  <2> QED BY <1>o, <2>1, <2>3, <2>7, <2>8, ActsAlone
<1>4. CASE PauseCheckpoint(r)
  <2> DEFINE m == With(pauser[r].copy, "paused")
  <2>1. /\ row' = m /\ proc' = proc /\ run' = run /\ stopper' = stopper /\ starter' = starter
        /\ pauser[r].pc = "checkpoint"
        /\ pauser' = [pauser EXCEPT ![r] = NoRequest]
        /\ flags' = [flags EXCEPT ![r] = @ \ {"pausing"}]
    BY <1>4 DEF PauseCheckpoint, Save
  <2>2. R.pc = "idle" /\ starter[r].pc = "none" /\ proc[r] = "up"
    BY <1>0, <2>1 DEF CopyCurrent, ServerShaped, Live
  <2> HIDE DEF m
  <2>3. /\ pauser'[r].pc = "none"
        /\ "stopped" \in flags'[r] <=> "stopped" \in flags[r]
        /\ \A s \in Runtimes \ {r} : pauser'[s] = pauser[s] /\ flags'[s] = flags[s]
    BY <2>1 DEF TypeOK, NoRequest
  <2>4. Orderly(run'[r], row', flags'[r], stopper'[r])
    BY <1>0, <2>1, <2>2, <2>3, IdleOrderly DEF StopHeld
  <2>5. CopyCurrent(r)'
    BY <2>1, <2>2, <2>3 DEF CopyCurrent
  <2> QED BY <1>o, <2>1, <2>2, <2>3, <2>4, <2>5, ActsAlone
<1>5. CASE AnswerRoute(r)
  <2> DEFINE new == [starter[r] EXCEPT !.pc = "starting"]
  <2>1. new.pc = "starting" /\ new.copy = starter[r].copy
    BY <1>0 DEF Requests
  <2>2. /\ row' = row /\ proc' = proc /\ flags' = flags /\ run' = run /\ stopper' = stopper
        /\ pauser' = pauser /\ starter[r].pc = "answering"
        /\ starter' = [starter EXCEPT ![r] =
                         IF ~Live(r) /\ starter[r].copy.status = "waiting" THEN new ELSE NoRequest]
    BY <1>5 DEF AnswerRoute
  <2> HIDE DEF new
  <2>3. /\ starter'[r].pc # "none" => ~Live(r) /\ starter[r].copy.status = "waiting" /\ starter'[r] = new
        /\ \A s \in Runtimes \ {r} : starter'[s] = starter[s]
    BY <2>2 DEF TypeOK, NoRequest
  <2>4. /\ proc[r] = "up" /\ pauser[r].pc # "checkpoint"
        /\ starter[r].copy = row /\ row.status \in Answerable
    BY <1>0, <2>2 DEF ServerShaped, CopyCurrent
  <2>5. CopyCurrent(r)'
    BY <2>1, <2>2, <2>3, <2>4 DEF CopyCurrent, Live
  <2> QED BY <1>0, <1>o, <2>2, <2>3, <2>4, <2>5, ActsAlone
<1>6. CASE StartRun(r)
  <2> DEFINE new == Started(starter[r].copy, starter[r].why)
  <2>1. starter[r].pc = "starting"
    BY <1>6 DEF StartRun
  <2>2. /\ R.pc = "idle" /\ proc[r] = "up" /\ pauser[r].pc # "checkpoint"
        /\ row.status \in Answerable /\ (row.status = "paused" => starter[r].why = "resume")
    BY <1>0, <2>1 DEF ServerShaped, CopyCurrent, Live
  <2>3. new.pc = "created" /\ new.why = starter[r].why /\ new.task = "none" /\ ~new.killed
    BY <1>s
  <2>4. /\ row' = row /\ proc' = proc /\ flags' = flags /\ stopper' = stopper /\ pauser' = pauser
        /\ run' = [run EXCEPT ![r] = new]
        /\ starter' = [starter EXCEPT ![r] = NoRequest]
    BY <1>6, <2>2 DEF StartRun, Live
  <2> HIDE DEF new
  <2>5. /\ run'[r] = new /\ starter'[r].pc = "none"
        /\ \A s \in Runtimes \ {r} : run'[s] = run[s] /\ starter'[s] = starter[s]
    BY <2>4 DEF TypeOK, NoRequest
  <2>6. Orderly(new, row, flags[r], stopper[r])
    BY <1>0, <2>2, <2>3 DEF Orderly, StopHeld, RunShaped, QuietWhenOver, QuietWhenPaused,
                            Heard, Trying, Terminal, Answerable
  <2>7. CopyCurrent(r)'
    BY <2>2, <2>4, <2>5 DEF CopyCurrent
  <2> QED BY <1>o, <2>2, <2>4, <2>5, <2>6, <2>7, ActsAlone
<1> QED BY <1>1, <1>2, <1>3, <1>4, <1>5, <1>6 DEF UseCopy

\* A server boots only where there is none.
LEMMA BootLife ==
  ASSUME TypeOK, LifeInvariant, ~CopyInUse, OneAtATime, NEW r \in Runtimes, Boot(r)
  PROVE  LifeInvariant'
<1> DEFINE R == run[r]
           alive == {s \in Runtimes : proc[s] \in {"up", "stopping"}}
           new == Started(row, "boot")
<1>0. /\ proc[r] = "new" /\ ServerShaped(r)
      /\ StopHeld(R, flags[r], stopper[r]) /\ Orderly(R, row, flags[r], stopper[r])
  BY DEF Boot, LifeInvariant, Orderly
<1>1. \A s \in Runtimes : ~Alive(s)
  <2>1. SUFFICES ASSUME NEW s \in Runtimes, Alive(s) PROVE FALSE
    OBVIOUS
  <2>2. alive = {s}
    BY <2>1 DEF LifeInvariant, ServerShaped, Alive
  <2>3. Cardinality(alive) = 1
    BY <2>2, FS_Singleton
  <2>4. Cardinality(alive) < 1
    BY DEF Boot, OneAtATime
  <2> QED BY <2>3, <2>4
<1>2. /\ row' = row /\ flags' = flags /\ stopper' = stopper /\ pauser' = pauser /\ starter' = starter
      /\ proc'[r] = "up" /\ \A s \in Runtimes \ {r} : proc'[s] = proc[s]
  BY DEF Boot, requests, TypeOK
<1>3. /\ R.pc = "idle" /\ stopper[r] = "none" /\ pauser[r].pc = "none" /\ starter[r].pc = "none"
  BY <1>0, <1>1 DEF ServerShaped
<1>4. CopyCurrent(r)'
  BY <1>2, <1>3 DEF CopyCurrent
<1>5. CASE row.status \in Resumable
  <2>1. new.pc = "created" /\ new.task = "none" /\ ~new.killed
    BY DEF Started, NoRun
  <2>2. run' = [run EXCEPT ![r] = new]
    BY <1>5 DEF Boot
  <2> HIDE DEF new
  <2>3. run'[r] = new /\ \A s \in Runtimes \ {r} : run'[s] = run[s]
    BY <2>2 DEF TypeOK
  <2>4. Orderly(new, row, flags[r], stopper[r])
    BY <1>3, <1>5, <2>1 DEF Orderly, StopHeld, RunShaped, QuietWhenOver, QuietWhenPaused,
                            Heard, Trying, Terminal, Resumable
  <2> QED BY <1>1, <1>2, <1>4, <2>3, <2>4, ActsAlone
<1>6. CASE row.status \notin Resumable
  <2>1. run' = run
    BY <1>6 DEF Boot
  <2> QED BY <1>0, <1>1, <1>2, <1>4, <2>1, ActsAlone
<1> QED BY <1>5, <1>6

\* A crash takes its server's run and requests with it.
LEMMA CrashLife ==
  ASSUME TypeOK, LifeInvariant, NEW r \in Runtimes, Crash(r)
  PROVE  LifeInvariant'
<1>1. /\ row' = row /\ flags' = flags
      /\ proc'[r] = "dead" /\ run'[r] = NoRun /\ stopper'[r] = "none"
      /\ pauser'[r] = NoRequest /\ starter'[r] = NoRequest
      /\ \A s \in Runtimes \ {r} :
           /\ proc'[s] = proc[s] /\ run'[s] = run[s] /\ stopper'[s] = stopper[s]
           /\ pauser'[s] = pauser[s] /\ starter'[s] = starter[s]
  BY DEF Crash, TypeOK
<1>2. \A s \in Runtimes \ {r} : ~Alive(s)
  BY OthersIdle DEF Crash, Alive
<1>3. CopyCurrent(r)'
  BY <1>1 DEF CopyCurrent, NoRequest
<1>4. Orderly(run'[r], row', flags'[r], stopper'[r])
  BY <1>1, IdleOrderly DEF NoRun
<1> QED BY <1>1, <1>2, <1>3, <1>4, ActsAlone DEF NoRun, NoRequest

\* No step of a deployment of one server disturbs the life of its mission.
LEMMA LifeStep ==
  OneAtATime /\ TypeOK /\ TypeOK' /\ LifeInvariant /\ [Next]_vars => LifeInvariant'
<1> SUFFICES ASSUME OneAtATime, TypeOK, TypeOK', LifeInvariant, [Next]_vars PROVE LifeInvariant'
  OBVIOUS
<1>1. ASSUME NEW r \in Runtimes, UseCopy(r) PROVE LifeInvariant'
  BY <1>1, WriteLife
<1>2. ASSUME NEW r \in Runtimes, ~CopyInUse, RunStep(r) \/ Fails(r) PROVE LifeInvariant'
  BY <1>2, StartLife, WorkLife, ParksLife, EndLife DEF RunStep
<1>3. ASSUME NEW r \in Runtimes, ~CopyInUse,
             RequestBegins(r) \/ StopJoined(r) \/ StopSweep(r) \/ PauseJoined(r)
      PROVE  LifeInvariant'
  BY <1>3, FlagLife, WriteLife DEF RequestBegins
<1>4. ASSUME NEW r \in Runtimes, ~CopyInUse, ServerStep(r) PROVE LifeInvariant'
  BY <1>4, FlagLife, BootLife, CrashLife DEF ServerStep
<1>5. CASE LeaseExpires \/ UNCHANGED vars
  <2>1. /\ row' = row /\ proc' = proc /\ flags' = flags /\ run' = run
        /\ stopper' = stopper /\ pauser' = pauser /\ starter' = starter
    BY <1>5 DEF LeaseExpires, vars, requests
  <2> QED BY <2>1 DEF LifeInvariant, ServerShaped, CopyCurrent, Alive, Live
<1>6. \/ \E r \in Runtimes : UseCopy(r)
      \/ ~CopyInUse /\ \E r \in Runtimes :
           \/ RunStep(r) \/ Fails(r)
           \/ RequestBegins(r) \/ StopJoined(r) \/ StopSweep(r) \/ PauseJoined(r)
           \/ ServerStep(r)
      \/ LeaseExpires \/ UNCHANGED vars
  BY DEF Next, OneAtATime
<1> QED BY <1>1, <1>2, <1>3, <1>4, <1>5, <1>6

\* Before the first boot nothing runs.
LEMMA LifeInit == Init => LifeInvariant
<1> SUFFICES ASSUME Init PROVE LifeInvariant
  OBVIOUS
<1>1. \A r \in Runtimes : /\ run[r].pc = "idle" /\ stopper[r] = "none" /\ proc[r] = "new"
                          /\ pauser[r].pc = "none" /\ starter[r].pc = "none"
  BY DEF Init, NoRun, NoRequest
<1>2. \A r \in Runtimes : ServerShaped(r) /\ CopyCurrent(r)
  BY <1>1 DEF ServerShaped, CopyCurrent, Alive
<1> QED BY <1>1, <1>2, IdleOrderly DEF LifeInvariant

\* Who changes the status of the row: a run in its try to running or waiting, a
\* run that closes to the status it has in memory, a stop that finds it
\* unfinished, a pause that found it so, and the creation of the mission.
StatusChange ==
  \/ row'.status = row.status
  \/ row.status = "absent"
  \/ \E r \in Runtimes : run[r].pc \in Trying /\ row'.status \in {"running", "waiting"}
  \/ \E r \in Runtimes : run[r].pc = "closing" /\ row' = run[r].mem
  \/ row.status \notin Terminal /\ row'.status = "stopped"
  \/ row.status \in Resumable /\ row'.status = "paused"

LEMMA RunStatusChange ==
  ASSUME TypeOK, TypeOK', LifeInvariant, NEW r \in Runtimes, RunStep(r) \/ Fails(r)
  PROVE  StatusChange
<1> DEFINE R == run[r]
           m == R.mem
           Writes == R.pc \in Trying /\ row'.status \in {"running", "waiting"}
<1>0. R \in Runs /\ m \in Missions /\ row \in Missions /\ RunShaped(R)
  BY DEF TypeOK, Runs, LifeInvariant, Orderly
<1>w. \A n \in Missions : \A s : With(n, s).status = s /\ With(Synced(n), s).status = s
  BY MissionFields
<1>k. ASSUME Writes PROVE StatusChange
  BY <1>k DEF StatusChange
<1>1. CASE \/ LeaseConflict(r) \/ ClaimLease(r) \/ Hydrate(r) \/ RecoverTasks(r)
           \/ Call(r) \/ Dispatch(r) \/ BeginTask(r) \/ EndTask(r) \/ CheckFails(r) \/ Fails(r)
           \/ Finish(r) \/ Leave(r)
           \/ \E status \in {"completed", "blocked"} : Conclude(r, status)
  <2>1. row' = row
    BY <1>1 DEF LeaseConflict, ClaimLease, Hydrate, RecoverTasks, Call, Dispatch, BeginTask, EndTask,
                CheckFails, Fails, Finish, Leave, Conclude, Ends
  <2> QED BY <2>1 DEF StatusChange
<1>2. CASE Begin(r) \/ Continue(r)
  <2>1. R.pc \in {"discovering", "answered"} /\ row' = With(m, "running")
    BY <1>2 DEF Begin, Continue, Save, At
  <2> QED BY <1>0, <1>w, <1>k, <2>1 DEF Trying
<1>3. CASE (\E q \in Questions : ConsumeEarlier(r, q)) \/ HearAnswer(r)
  <2>1. PICK answers : row' = [row EXCEPT !.answers = answers]
    BY <1>3 DEF ConsumeEarlier, HearAnswer, Consume
  <2>2. row'.status = row.status
    BY <1>0, <2>1 DEF Missions
  <2> QED BY <2>2 DEF StatusChange
<1>4. CASE ParkAgain(r) \/ Ask(r)
  <2>1. R.pc \in Trying
    BY <1>4 DEF ParkAgain, Ask, Recovered, At, Trying
  <2>2. ASSUME NEW n \in Missions, Park(r, n) PROVE row'.status = "waiting"
    BY <1>w, <2>2, MissionFields DEF Park, Save
  <2>3. CASE ParkAgain(r)
    BY <1>0, <1>k, <2>1, <2>2, <2>3 DEF ParkAgain
  <2>4. CASE Ask(r)
    <3>1. PICK q \in Questions : Park(r, [m EXCEPT !.question = q])
      BY <2>4 DEF Ask
    <3>2. [m EXCEPT !.question = q] \in Missions
      BY <1>0 DEF Missions
    <3> QED BY <1>k, <2>1, <2>2, <3>1, <3>2
  <2> QED BY <1>4, <2>3, <2>4
<1>5. CASE Delegate(r)
  <2>1. R.pc = "deciding" /\ row' = With(m, "waiting")
    BY <1>5 DEF Delegate, Save, At
  <2> QED BY <1>0, <1>w, <1>k, <2>1 DEF Trying
<1>6. CASE Respond(r)
  <2>1. R.pc = "calling" /\ (row' = m \/ row' = row)
    BY <1>6 DEF Respond, Save, At
  <2>2. R.pc \in Trying /\ m.status \in {"running", "waiting"}
    BY <1>0, <2>1 DEF RunShaped, Trying
  <2> QED BY <1>k, <2>1, <2>2 DEF StatusChange
<1>7. CASE TasksDone(r)
  <2>1. R.pc = "between"
    BY <1>7 DEF TasksDone, At
  <2>2. R.pc \in Trying /\ m.status \in {"running", "waiting"}
    BY <1>0, <2>1 DEF RunShaped, Trying
  <2>3. PICK n \in Missions :
          /\ n = (IF R.task = "wait" THEN With(m, "running") ELSE m)
          /\ row' = row \/ row' = n \/ row' = With(n, "waiting")
    BY <1>7, TasksDoneMoves
  <2>4. n.status \in {"running", "waiting"} /\ With(n, "waiting").status = "waiting"
    BY <1>0, <1>w, <2>2, <2>3
  <2> QED BY <1>k, <2>2, <2>3, <2>4 DEF StatusChange
<1>8. CASE Close(r)
  BY <1>8 DEF Close, Save, At, StatusChange
<1>9. ASSUME EndsCancelled(r), R.pc \in Trying PROVE StatusChange
  <2>1. row' = row \/ row' = With(Synced(m), SuspendedStatus(m))
    BY <1>9 DEF EndsCancelled, Ends, Suspends, Save
  <2>2. SuspendedStatus(m) \in {"running", "waiting"}
    BY DEF SuspendedStatus
  <2>3. With(Synced(m), SuspendedStatus(m)).status \in {"running", "waiting"}
    BY <1>0, <1>w, <2>2
  <2> QED BY <1>9, <1>k, <2>1, <2>3 DEF StatusChange
<1>10. CASE Cancelled(r) \/ KillLands(r)
  <2>1. row' = row \/ (EndsCancelled(r) /\ R.pc \in Trying)
    BY <1>10 DEF Cancelled, KillLands, At
  <2> QED BY <1>9, <2>1 DEF StatusChange
<1> QED BY <1>1, <1>2, <1>3, <1>4, <1>5, <1>6, <1>7, <1>8, <1>10 DEF RunStep

LEMMA StatusStep ==
  ASSUME TypeOK, TypeOK', LifeInvariant, [Next]_vars
  PROVE  StatusChange
<1>0. row \in Missions
  BY DEF TypeOK
<1>1. ASSUME NEW r \in Runtimes, RunStep(r) \/ Fails(r) PROVE StatusChange
  BY <1>1, RunStatusChange
<1>2. ASSUME NEW r \in Runtimes,
             \/ StopBegin(r) \/ PauseBegin(r) \/ PauseOffline(r) \/ ResumeBegin(r) \/ Kill(r)
             \/ StopJoined(r) \/ PauseJoined(r) \/ AnswerRoute(r) \/ StartRun(r) \/ ServerStep(r)
      PROVE  StatusChange
  <2>1. row' = row
    BY <1>2 DEF StopBegin, PauseBegin, PauseOffline, ResumeBegin, Kill, StopJoined, PauseJoined,
                AnswerRoute, StartRun, ServerStep, Boot, Shutdown, Exit, Crash
  <2> QED BY <2>1 DEF StatusChange
<1>3. ASSUME NEW r \in Runtimes, Create(r) PROVE StatusChange
  BY <1>3 DEF Create, StatusChange
<1>4. ASSUME NEW r \in Runtimes, StopSweep(r) PROVE StatusChange
  BY <1>0, <1>4, MissionFields DEF StopSweep, StatusChange
<1>5. ASSUME NEW r \in Runtimes, AnswerAccept(r) PROVE StatusChange
  <2>1. Accepted(row, row.question).status = row.status
    BY <1>0 DEF Accepted, Missions
  <2> QED BY <1>5, <2>1 DEF AnswerAccept, Save, StatusChange
<1>6. ASSUME NEW r \in Runtimes, PauseCheckpoint(r) PROVE StatusChange
  <2>1. pauser[r].copy = row /\ row.status \in Resumable /\ row' = With(row, "paused")
    BY <1>6 DEF PauseCheckpoint, Save, LifeInvariant, CopyCurrent
  <2> QED BY <1>0, <2>1, MissionFields DEF StatusChange
<1>7. CASE LeaseExpires \/ UNCHANGED vars
  BY <1>7 DEF LeaseExpires, vars, StatusChange
<1> QED BY <1>1, <1>2, <1>3, <1>4, <1>5, <1>6, <1>7 DEF Next, RequestBegins, UseCopy

\* With one server, and requests that use the row they have read before anything
\* else happens, the life of a mission is orderly in every reachable state.
THEOREM LifeInvariantHolds == ASSUME OneAtATime PROVE Spec => []LifeInvariant
  BY TypeInit, TypeStep, LifeInit, LifeStep, PTL DEF Spec

\* Then nothing works on a mission that is over.
THEOREM OverMeansQuiet == ASSUME OneAtATime PROVE Spec => []QuietWhenTerminal
<1>1. LifeInvariant => QuietWhenTerminal
  BY DEF LifeInvariant, Orderly, QuietWhenOver, QuietWhenTerminal
<1> QED BY <1>1, LifeInvariantHolds, PTL

\* Whoever waits for an answer can be given it.
THEOREM QuestionsCanBeAnswered == ASSUME OneAtATime PROVE Spec => []ParkedAnswerable
<1>1. LifeInvariant => ParkedAnswerable
  BY DEF LifeInvariant, Orderly, Heard, ParkedAnswerable
<1> QED BY <1>1, LifeInvariantHolds, PTL

\* No request, restart or late save takes a mission out of a terminal status.
THEOREM TerminalStaysFinal == ASSUME OneAtATime PROVE Spec => TerminalFinal
<1>1. TypeOK /\ TypeOK' /\ LifeInvariant /\ [Next]_vars
        => [row.status \in Terminal => row'.status = row.status]_vars
  <2> SUFFICES ASSUME TypeOK, TypeOK', LifeInvariant, [Next]_vars, row.status \in Terminal
               PROVE  row'.status = row.status
    OBVIOUS
  <2>1. StatusChange
    BY StatusStep
  <2>2. row.status # "absent" /\ row.status \notin Resumable
    BY DEF Terminal, Resumable
  <2>3. \A r \in Runtimes : run[r].pc \notin Trying
                            /\ (run[r].pc = "closing" => run[r].mem.status = row.status)
    BY DEF LifeInvariant, Orderly, QuietWhenOver
  <2> QED BY <2>1, <2>2, <2>3 DEF StatusChange
<1> QED BY <1>1, TypeCorrect, LifeInvariantHolds, PTL DEF Spec, TerminalFinal

\* A paused mission is stopped or stays paused until a resume request starts it.
THEOREM PauseHolds == ASSUME OneAtATime PROVE Spec => PausedUntilResume
<1> DEFINE Allowed ==
      row.status = "paused" /\ row'.status # "paused" =>
        \/ row'.status = "stopped"
        \/ row'.status \in Resumable /\ \E r \in Runtimes :
             run[r].pc = "discovering" /\ run[r].why = "resume"
<1>1. TypeOK /\ TypeOK' /\ LifeInvariant /\ [Next]_vars => [Allowed]_vars
  <2> SUFFICES ASSUME TypeOK, TypeOK', LifeInvariant, [Next]_vars,
                      row.status = "paused", row'.status # "paused"
               PROVE  \/ row'.status = "stopped"
                      \/ row'.status \in Resumable /\ \E r \in Runtimes :
                           run[r].pc = "discovering" /\ run[r].why = "resume"
    OBVIOUS
  <2>1. StatusChange
    BY StatusStep
  <2>2. row.status \notin Resumable /\ {"running", "waiting"} \subseteq Resumable
    BY DEF Resumable
  <2>3. \A r \in Runtimes :
          /\ run[r].pc \in Trying => run[r].pc = "discovering" /\ run[r].why = "resume"
          /\ run[r].pc = "closing" => run[r].mem.status \in {"paused", "stopped"}
    BY DEF LifeInvariant, Orderly, QuietWhenPaused, Trying
  <2> QED BY <2>1, <2>2, <2>3 DEF StatusChange
<1> QED BY <1>1, TypeCorrect, LifeInvariantHolds, PTL DEF Spec, PausedUntilResume

-----------------------------------------------------------------------------
(* Answers are undone only by stale runs *)

\* The mission n is m with its question answered.
Behind(m, n) ==
  /\ m.question \in Questions /\ n.question = 0
  /\ n.answers = [m.answers EXCEPT ![m.question] = "accepted"]

\* Where a run may not know that its question has been answered: at three points,
\* and after a kill, which leaves the question of the killed agent in its copy.
\* While it works, the question it holds is one it waits on, or that of an
\* earlier run before it is waited on again, when no answer is taken.
InStep(R, n, fl) ==
  R.pc # "idle" =>
    /\ R.mem.status # "absent"
    /\ R.killed => "killed" \in fl
    /\ R.pc \in Trying \cup {"closing"} =>
         \/ Like(n, R.mem)
         \/ Behind(R.mem, n) /\ (R.pc \in {"discovering", "parked", "closing"} \/ "killed" \in fl)
    /\ R.pc \in Trying \ {"discovering", "parked"} =>
         \/ R.mem.question = 0
         \/ R.pc = "resuming" /\ n.status = "running"
         \/ "killed" \in fl

\* A mission that is not there has no question and no answer.
Blank(n) == n.status = "absent" => n.question = 0 /\ \A q \in Questions : n.answers[q] = "none"

AnswerInvariant == Blank(row) /\ \A r \in Runtimes : InStep(run[r], row, flags[r])

\* What a step of the run of r does to the row: nothing to the answers, the
\* consumption of one, or a save of its copy.
KeepsAnswers ==
  Like(row', row) /\ (row'.status = row.status \/ row'.status # "absent")

ConsumesAnswer ==
  \E q \in Questions :
    /\ row.answers[q] # "none"
    /\ row'.status = row.status /\ row'.question = row.question
    /\ row'.answers = [row.answers EXCEPT ![q] = "consumed"]

SavesCopy(r) ==
  /\ row'.answers = run[r].mem.answers /\ row'.status # "absent"
  /\ run'[r] # run[r]
  /\ \/ run[r].pc = "discovering" /\ run'[r].pc = "resuming"
     \/ run[r].pc = "closing" /\ run'[r].pc = "leaving"
     \/ run[r].pc \in Trying \ {"discovering", "parked"}

RunEffect(r) ==
  /\ KeepsAnswers \/ ConsumesAnswer \/ SavesCopy(r)
  /\ InStep(run'[r], row', flags'[r])

\* A run in the middle of its work, on a copy that is saved or is the row, the
\* question still settled.
LEMMA WorkInStep ==
  ASSUME NEW R, NEW n, NEW fl, R.mem.status # "absent", R.killed => "killed" \in fl,
         R.pc \in Trying \ {"discovering", "parked"},
         \/ Like(n, R.mem)
         \/ Behind(R.mem, n) /\ "killed" \in fl,
         R.mem.question = 0 \/ "killed" \in fl
  PROVE  InStep(R, n, fl)
BY DEF InStep

\* What is known of a run that works.
LEMMA Working ==
  ASSUME TypeOK, LifeInvariant, AnswerInvariant, NEW r \in Runtimes,
         run[r].pc \in Trying \cup {"closing"}
  PROVE  /\ run[r] \in Runs /\ run[r].mem \in Missions /\ row \in Missions
         /\ run[r].mem.status # "absent"
         /\ run[r].killed => "killed" \in flags[r]
         /\ Like(row, run[r].mem) \/ Behind(run[r].mem, row)
         /\ run[r].pc \notin {"discovering", "parked", "closing"} =>
              Like(row, run[r].mem) \/ "killed" \in flags[r]
         /\ run[r].pc \in Trying \ {"discovering", "parked", "resuming"} =>
              run[r].mem.question = 0 \/ "killed" \in flags[r]
<1>1. InStep(run[r], row, flags[r]) /\ run[r].pc # "idle"
  BY DEF AnswerInvariant, Trying
<1>2. run[r] \in Runs /\ run[r].mem \in Missions /\ row \in Missions
  BY DEF TypeOK, Runs
<1> QED BY <1>1, <1>2 DEF InStep

\* Up to the first save of run().
LEMMA StartAnswers ==
  ASSUME TypeOK, TypeOK', LifeInvariant, AnswerInvariant, NEW r \in Runtimes,
         ClaimLease(r) \/ Hydrate(r) \/ Begin(r)
  PROVE  RunEffect(r)
<1> DEFINE R == run[r]
           m == R.mem
<1>0. /\ R \in Runs /\ m \in Missions /\ row \in Missions
      /\ InStep(R, row, flags[r])
  BY DEF TypeOK, Runs, AnswerInvariant
<1>1. CASE ClaimLease(r)
  <2>1. PICK new \in Runs : Moved(r, new, "claimed", m) /\ KeepsTask(new, R) /\ row' = row
    BY <1>1, StartMoves
  <2>2. run'[r] = new /\ flags' = flags /\ R.pc # "idle"
    BY <1>1, <2>1 DEF Moved, Moves, TypeOK, ClaimLease, At
  <2>3. InStep(new, row, flags[r])
    BY <1>0, <2>1, <2>2 DEF InStep, Moved, KeepsTask, Trying
  <2> QED BY <2>1, <2>2, <2>3 DEF RunEffect, KeepsAnswers, Like
<1>2. CASE Hydrate(r)
  <2>1. PICK new \in Runs : Moved(r, new, "discovering", Synced(m)) /\ KeepsTask(new, R) /\ row' = row
    BY <1>2, StartMoves
  <2>2. run'[r] = new /\ flags' = flags /\ R.pc # "idle"
    BY <1>2, <2>1 DEF Moved, Moves, TypeOK, Hydrate, At
  <2>3. Like(row, Synced(m)) /\ Synced(m).status = m.status
    BY <1>0, MissionFields DEF Like
  <2>4. InStep(new, row, flags[r])
    BY <1>0, <2>1, <2>2, <2>3 DEF InStep, Moved, KeepsTask
  <2> QED BY <2>1, <2>2, <2>4 DEF RunEffect, KeepsAnswers, Like
<1>3. CASE Begin(r)
  <2>1. PICK new \in Runs : /\ Moved(r, new, "resuming", With(m, "running")) /\ KeepsTask(new, R)
                            /\ row' = With(m, "running")
    BY <1>3, StartMoves
  <2>2. run'[r] = new /\ flags' = flags /\ R.pc = "discovering" /\ new.pc = "resuming"
    BY <1>3, <2>1 DEF Moved, Moves, TypeOK, Begin, At
  <2>3. /\ row'.status = "running" /\ row'.question = m.question /\ row'.answers = m.answers
        /\ new.mem = row'
    BY <1>0, <2>1, MissionFields DEF Moved
  <2>4. R.killed => "killed" \in flags[r]
    BY <1>0, <2>2 DEF InStep
  <2>5. InStep(new, row', flags[r])
    BY <2>1, <2>2, <2>3, <2>4 DEF InStep, KeepsTask, Like
  <2>6. SavesCopy(r)
    BY <2>2, <2>3 DEF SavesCopy
  <2> QED BY <2>2, <2>5, <2>6 DEF RunEffect
<1> QED BY <1>1, <1>2, <1>3

\* A step from one point of the work to another, on the same question and answers.
LEMMA GoesOn ==
  ASSUME TypeOK, TypeOK', LifeInvariant, AnswerInvariant, NEW r \in Runtimes,
         NEW new \in Runs, NEW pc, NEW mem \in Missions, Moved(r, new, pc, mem),
         new.killed => run[r].killed,
         run[r].pc \in Trying \ {"discovering", "parked"},
         pc \in Trying \ {"discovering", "parked"}, pc # run[r].pc,
         Like(mem, run[r].mem), mem.status # "absent",
         row' = row \/ (Like(row', run[r].mem) /\ row'.status # "absent"),
         run[r].mem.question = 0 \/ "killed" \in flags[r]
  PROVE  RunEffect(r)
<1> DEFINE R == run[r]
           m == R.mem
<1>1. /\ m.status # "absent" /\ (R.killed => "killed" \in flags[r])
      /\ Like(row, m) \/ Behind(m, row)
      /\ Like(row, m) \/ "killed" \in flags[r]
  BY Working DEF Trying
<1>2. run'[r] = new /\ new.pc = pc /\ new.mem = mem /\ flags' = flags
  BY DEF Moved, Moves, TypeOK
<1>3. CASE row' = row
  <2>1. Like(row, mem) \/ (Behind(mem, row) /\ "killed" \in flags[r])
    BY <1>1 DEF Like, Behind
  <2>2. new.mem.question = 0 \/ "killed" \in flags[r]
    BY <1>2 DEF Like
  <2>3. InStep(new, row, flags[r])
    BY <1>1, <1>2, <2>1, <2>2, WorkInStep
  <2> QED BY <1>2, <1>3, <2>3 DEF RunEffect, KeepsAnswers, Like
<1>4. CASE Like(row', m) /\ row'.status # "absent"
  <2>1. Like(row', mem) /\ row'.answers = m.answers
    BY <1>4 DEF Like
  <2>2. new.mem.question = 0 \/ "killed" \in flags[r]
    BY <1>2 DEF Like
  <2>3. InStep(new, row', flags[r])
    BY <1>1, <1>2, <2>1, <2>2, WorkInStep
  <2>4. SavesCopy(r)
    BY <1>2, <1>4, <2>1 DEF SavesCopy
  <2> QED BY <1>2, <2>3, <2>4 DEF RunEffect
<1> QED BY <1>3, <1>4

\* The run waits for the answer to a question that it has saved.
LEMMA Waits ==
  ASSUME TypeOK, TypeOK', LifeInvariant, AnswerInvariant, NEW r \in Runtimes,
         NEW new \in Runs, NEW n \in Missions, Moved(r, new, "parked", With(n, "waiting")),
         new.killed => run[r].killed,
         run[r].pc \in Trying \ {"discovering", "parked"},
         n.answers = run[r].mem.answers, row' = With(n, "waiting")
  PROVE  RunEffect(r)
<1>1. run[r].killed => "killed" \in flags[r]
  BY Working DEF Trying
<1>2. run'[r] = new /\ new.pc = "parked" /\ new.mem = row' /\ flags' = flags
  BY DEF Moved, Moves, TypeOK
<1>3. row'.status = "waiting" /\ row'.answers = run[r].mem.answers
  BY MissionFields
<1>4. InStep(new, row', flags[r])
  BY <1>1, <1>2, <1>3 DEF InStep, Like
<1>5. SavesCopy(r)
  BY <1>2, <1>3 DEF SavesCopy
<1> QED BY <1>2, <1>4, <1>5 DEF RunEffect

\* The consumption of an answer brings the copy up to date.
LEMMA ConsumeAnswers ==
  ASSUME TypeOK, TypeOK', LifeInvariant, AnswerInvariant, NEW r \in Runtimes,
         NEW q \in Questions, NEW pc \in Trying \ {"discovering", "parked"}, Consume(r, q, pc),
         run[r].pc \in Trying,
         \/ row.question = 0
         \/ pc = "resuming" /\ row.status = "running"
         \/ "killed" \in flags[r]
  PROVE  RunEffect(r)
<1> DEFINE R == run[r]
<1>1. R.mem.status # "absent" /\ (R.killed => "killed" \in flags[r])
  BY Working
<1>2. PICK new \in Runs, mem \in Missions :
        /\ Moved(r, new, pc, mem) /\ KeepsTask(new, R)
        /\ row'.status = row.status /\ row'.question = row.question
        /\ row'.answers = [row.answers EXCEPT ![q] = "consumed"]
        /\ mem.status = R.mem.status
        /\ mem.question = row.question /\ mem.answers = row'.answers
  BY ConsumeMoves
<1>3. run'[r] = new /\ new.pc = pc /\ new.mem = mem /\ flags' = flags
  BY <1>2 DEF Moved, Moves, TypeOK
<1>4. row.answers[q] # "none"
  BY DEF Consume
<1>5. ConsumesAnswer
  BY <1>2, <1>4 DEF ConsumesAnswer
<1>6. Like(row', mem)
  BY <1>2 DEF Like
<1>7. InStep(new, row', flags[r])
  BY <1>1, <1>2, <1>3, <1>6 DEF InStep, KeepsTask, Trying
<1> QED BY <1>3, <1>5, <1>7 DEF RunEffect

\* From the first save to the last decision.
LEMMA WorkAnswers ==
  ASSUME TypeOK, TypeOK', LifeInvariant, AnswerInvariant, NEW r \in Runtimes,
         \/ \E q \in Questions : ConsumeEarlier(r, q)
         \/ ParkAgain(r) \/ RecoverTasks(r)
         \/ Call(r) \/ Respond(r) \/ Ask(r) \/ HearAnswer(r) \/ Continue(r)
         \/ Delegate(r) \/ Dispatch(r) \/ BeginTask(r) \/ EndTask(r) \/ TasksDone(r)
         \/ \E status \in {"completed", "blocked"} : Conclude(r, status)
  PROVE  RunEffect(r)
<1> DEFINE R == run[r]
           m == R.mem
           Midway == Trying \ {"discovering", "parked", "resuming"}
<1>0. R \in Runs /\ m \in Missions /\ row \in Missions
  BY DEF TypeOK, Runs
<1>l. /\ \A s : Like(With(m, s), m) /\ With(m, s).status = s
      /\ With(m, "running") \in Missions /\ With(m, "waiting") \in Missions
  BY <1>0, MissionFields, MissionTypes DEF Like, Statuses, Resumable
<1>w. ASSUME R.pc \in Midway
      PROVE  m.status # "absent" /\ (m.question = 0 \/ "killed" \in flags[r])
  BY <1>w, Working
<1>m. Midway \subseteq Trying \ {"discovering", "parked"} /\ Like(m, m)
  BY DEF Like
<1>1. CASE Call(r) \/ Respond(r) \/ Dispatch(r) \/ BeginTask(r) \/ EndTask(r)
  <2>1. /\ R.pc \in {"calling", "deciding", "dispatching", "between"}
        /\ Call(r) \/ BeginTask(r) => R.pc # "calling"
        /\ Respond(r) => R.pc # "deciding"
        /\ Dispatch(r) => R.pc # "dispatching"
        /\ EndTask(r) => R.pc # "between"
    BY <1>1 DEF Call, Respond, Dispatch, BeginTask, EndTask, At
  <2>2. R.pc \in Midway
    BY <2>1 DEF Trying
  <2>3. PICK new \in Runs, pc \in {"calling", "deciding", "dispatching", "between"} :
          /\ Moved(r, new, pc, m) /\ KeepsTask(new, R) /\ pc # R.pc
          /\ row' = row \/ row' = m
    BY <1>1, <2>1, WorkMoves
  <2>4. pc \in Trying \ {"discovering", "parked"}
    BY DEF Trying
  <2> HIDE DEF m, R
  <2> QED BY <1>0, <1>w, <1>m, <2>2, <2>3, <2>4, GoesOn DEF KeepsTask, m, R
<1>2. CASE Continue(r)
  <2>1. R.pc = "answered"
    BY <1>2 DEF Continue, At
  <2>2. R.pc \in Midway /\ "calling" \in Trying \ {"discovering", "parked"}
    BY <2>1 DEF Trying
  <2>3. PICK new \in Runs : /\ Moved(r, new, "calling", With(m, "running")) /\ KeepsTask(new, R)
                            /\ row' = With(m, "running")
    BY <1>2, WorkMoves
  <2> QED BY <1>l, <1>w, <1>m, <2>1, <2>2, <2>3, GoesOn DEF KeepsTask
<1>3. CASE RecoverTasks(r)
  <2>1. R.pc = "resuming" /\ m.question = 0
    BY <1>3 DEF RecoverTasks, Recovered, At
  <2>2. R.pc \in Trying \ {"discovering", "parked"} /\ "between" \in Trying \ {"discovering", "parked"}
    BY <2>1 DEF Trying
  <2>3. m.status # "absent"
    BY <2>2, Working
  <2>4. PICK new \in Runs : /\ Moved(r, new, "between", m) /\ new.killed = R.killed /\ row' = row
    BY <1>3, TasksMoved
  <2> QED BY <1>0, <1>m, <2>1, <2>2, <2>3, <2>4, GoesOn
<1>4. CASE Delegate(r)
  <2>1. R.pc = "deciding"
    BY <1>4 DEF Delegate, At
  <2>2. R.pc \in Midway /\ "between" \in Trying \ {"discovering", "parked"}
    BY <2>1 DEF Trying
  <2>3. PICK new \in Runs : /\ Moved(r, new, "between", With(m, "waiting")) /\ new.killed = R.killed
                            /\ row' = With(m, "waiting")
    BY <1>4, TasksMoved
  <2> QED BY <1>l, <1>w, <1>m, <2>1, <2>2, <2>3, GoesOn
<1>5. CASE \E q \in Questions : ConsumeEarlier(r, q)
  <2>1. PICK q \in Questions : Consume(r, q, "resuming") /\ R.pc = "resuming"
    BY <1>5 DEF ConsumeEarlier, At
  <2>2. R.pc \in Trying \ {"discovering", "parked"}
    BY <2>1 DEF Trying
  <2>3. \/ m.question = 0 \/ row.status = "running" \/ "killed" \in flags[r]
    BY <2>1, <2>2 DEF AnswerInvariant, InStep, Trying
  <2>4. Like(row, m) \/ "killed" \in flags[r]
    BY <2>1, <2>2, Working
  <2> QED BY <2>1, <2>2, <2>3, <2>4, ConsumeAnswers DEF Like
<1>6. CASE HearAnswer(r)
  <2>1. m.question \in Questions /\ Consume(r, m.question, "answered") /\ R.pc = "parked"
        /\ row.question = 0
    BY <1>0, <1>6 DEF HearAnswer, At, Missions
  <2>2. R.pc \in Trying /\ "answered" \in Trying \ {"discovering", "parked"}
    BY <2>1 DEF Trying
  <2> QED BY <2>1, <2>2, ConsumeAnswers
<1>7. CASE ParkAgain(r)
  <2>1. Park(r, m) /\ R.pc = "resuming"
    BY <1>7 DEF ParkAgain, Recovered, At
  <2>2. PICK new \in Runs : /\ Moved(r, new, "parked", With(m, "waiting")) /\ KeepsTask(new, R)
                            /\ row' = With(m, "waiting")
    BY <1>0, <2>1, ParkMoves
  <2>3. R.pc \in Trying \ {"discovering", "parked"}
    BY <2>1 DEF Trying
  <2> QED BY <1>0, <2>2, <2>3, Waits DEF KeepsTask
<1>8. CASE Ask(r)
  <2>1. PICK q \in Questions : Park(r, [m EXCEPT !.question = q]) /\ R.pc = "deciding"
    BY <1>8 DEF Ask, At
  <2> DEFINE n == [m EXCEPT !.question = q]
  <2>2. n \in Missions /\ n.answers = m.answers /\ Park(r, n)
    BY <1>0, <2>1 DEF Missions
  <2> HIDE DEF n
  <2>3. PICK new \in Runs : /\ Moved(r, new, "parked", With(n, "waiting")) /\ KeepsTask(new, R)
                            /\ row' = With(n, "waiting")
    BY <2>2, ParkMoves
  <2>4. R.pc \in Trying \ {"discovering", "parked"}
    BY <2>1 DEF Trying
  <2> QED BY <2>2, <2>3, <2>4, Waits DEF KeepsTask
<1>9. CASE TasksDone(r)
  <2>1. R.pc = "between"
    BY <1>9 DEF TasksDone, At
  <2>2. R.pc \in Midway /\ "calling" \in Trying \ {"discovering", "parked"}
    BY <2>1 DEF Trying
  <2>3. PICK new \in Runs, n \in Missions :
          /\ n = (IF R.task = "wait" THEN With(m, "running") ELSE m)
          /\ new.task = "none" /\ new.killed = R.killed /\ new.cancelled = R.cancelled
          /\ \/ /\ Moved(r, new, "parked", With(n, "waiting"))
                /\ R.task = "recovery" /\ n.question # 0 /\ row' = With(n, "waiting")
             \/ /\ Moved(r, new, "calling", n)
                /\ row' = row \/ row' = n
    BY <1>9, TasksDoneMoves
  <2>4. Like(n, m) /\ n.status # "absent"
    BY <1>l, <1>w, <1>m, <2>2, <2>3
  <2>5. CASE Moved(r, new, "parked", With(n, "waiting")) /\ row' = With(n, "waiting")
    BY <1>m, <2>2, <2>3, <2>4, <2>5, Waits DEF Like
  <2>6. CASE Moved(r, new, "calling", n) /\ (row' = row \/ row' = n)
    BY <1>w, <1>m, <2>1, <2>2, <2>3, <2>4, <2>6, GoesOn
  <2> QED BY <2>3, <2>5, <2>6
<1>10. ASSUME NEW status \in {"completed", "blocked"}, Conclude(r, status) PROVE RunEffect(r)
  <2>1. R.pc = "deciding"
    BY <1>10 DEF Conclude, At
  <2>2. R.pc \in Midway /\ "concluding" \in Trying \ {"discovering", "parked"}
    BY <2>1 DEF Trying
  <2>3. PICK new \in Runs, mem \in Missions :
          /\ Moved(r, new, "concluding", mem) /\ KeepsTask(new, R) /\ row' = row
          /\ mem.status = status
          /\ mem.question = m.question /\ mem.answers = m.answers
    BY <1>10, ConcludeMoves
  <2>4. Like(mem, m) /\ mem.status # "absent"
    BY <2>3 DEF Like
  <2> QED BY <1>w, <1>m, <2>1, <2>2, <2>3, <2>4, GoesOn DEF KeepsTask
<1> QED BY <1>1, <1>2, <1>3, <1>4, <1>5, <1>6, <1>7, <1>8, <1>9, <1>10

\* Leaving the try brings the copy up to date.
LEMMA EndsAnswers ==
  ASSUME TypeOK, TypeOK', LifeInvariant, AnswerInvariant, NEW r \in Runtimes, NEW status,
         Ends(r, status) \/ Suspends(r), run[r].pc # "idle",
         Ends(r, status) => status # "absent"
  PROVE  RunEffect(r)
<1> DEFINE R == run[r]
           m == R.mem
<1>0. R \in Runs /\ m \in Missions /\ row \in Missions
  BY DEF TypeOK, Runs
<1>l. \A s : Like(With(Synced(m), s), row) /\ Like(row, With(Synced(m), s))
             /\ With(Synced(m), s).status = s
  BY <1>0, MissionFields DEF Like
<1>1. CASE Ends(r, status)
  <2> DEFINE n == With(Synced(m), status)
  <2>1. PICK new \in Runs : Moved(r, new, "closing", n) /\ ~new.cancelled /\ row' = row
    BY <1>1, EndsMoves
  <2>2. Like(row, n) /\ n.status # "absent"
    BY <1>1, <1>l
  <2> HIDE DEF n
  <2>3. run'[r] = new /\ new.pc = "closing" /\ new.mem = n /\ flags' = flags
    BY <2>1 DEF Moved, Moves, TypeOK
  <2>4. new.killed = R.killed
    <3>1. [R EXCEPT !.pc = "closing", !.mem = n, !.cancelled = FALSE].killed = R.killed
      BY <1>0 DEF Runs
    <3>2. run'[r] = [R EXCEPT !.pc = "closing", !.mem = n, !.cancelled = FALSE]
      BY <1>1 DEF Ends, Moves, TypeOK, n
    <3> QED BY <2>3, <3>1, <3>2
  <2>5. R.killed => "killed" \in flags[r]
    BY DEF AnswerInvariant, InStep
  <2>6. InStep(new, row, flags[r])
    BY <2>2, <2>3, <2>4, <2>5 DEF InStep, Trying
  <2> QED BY <2>1, <2>3, <2>6 DEF RunEffect, KeepsAnswers, Like
<1>2. CASE Suspends(r)
  <2>1. PICK new \in Runs, s \in {"running", "waiting"} :
          /\ Moved(r, new, "leaving", With(Synced(m), s)) /\ ~new.cancelled
          /\ row' = With(Synced(m), s)
    BY <1>2, EndsMoves
  <2>2. Like(row', row) /\ row'.status # "absent"
    BY <1>l, <2>1
  <2>3. run'[r] = new /\ new.pc = "leaving" /\ new.mem = row' /\ flags' = flags
    BY <2>1 DEF Moved, Moves, TypeOK
  <2>4. new.killed = R.killed
    <3> DEFINE n == With(Synced(m), SuspendedStatus(m))
    <3>1. run'[r] = [R EXCEPT !.pc = "leaving", !.mem = n, !.cancelled = FALSE]
      BY <1>2 DEF Suspends, Moves, TypeOK
    <3> HIDE DEF n
    <3>2. [R EXCEPT !.pc = "leaving", !.mem = n, !.cancelled = FALSE].killed = R.killed
      BY <1>0 DEF Runs
    <3> QED BY <2>3, <3>1, <3>2
  <2>5. R.killed => "killed" \in flags[r]
    BY DEF AnswerInvariant, InStep
  <2>6. InStep(new, row', flags[r])
    BY <2>2, <2>3, <2>4, <2>5 DEF InStep, Trying
  <2> QED BY <2>2, <2>3, <2>6 DEF RunEffect, KeepsAnswers
<1> QED BY <1>1, <1>2

\* How run() ends.
LEMMA EndAnswers ==
  ASSUME TypeOK, TypeOK', LifeInvariant, AnswerInvariant, NEW r \in Runtimes,
         \/ LeaseConflict(r) \/ CheckFails(r) \/ Cancelled(r) \/ KillLands(r) \/ Fails(r)
         \/ Finish(r) \/ Close(r) \/ Leave(r)
  PROVE  RunEffect(r)
<1> DEFINE R == run[r]
           m == R.mem
<1>0. R \in Runs /\ m \in Missions /\ row \in Missions /\ InStep(R, row, flags[r])
  BY DEF TypeOK, Runs, AnswerInvariant
<1>1. ASSUME Returns(r), row' = row PROVE RunEffect(r)
  <2>1. run'[r].pc = "idle"
    BY <1>1 DEF Returns, TypeOK, NoRun
  <2>2. InStep(run'[r], row', flags'[r])
    BY <2>1 DEF InStep
  <2> QED BY <1>1, <2>2 DEF RunEffect, KeepsAnswers, Like
<1>2. ASSUME EndsCancelled(r), R.pc # "idle" PROVE RunEffect(r)
  <2>1. \/ Suspends(r)
        \/ Ends(r, CancelledStatus(r)) /\ CancelledStatus(r) # "absent"
    BY <1>2, CancelledStatuses DEF EndsCancelled
  <2> QED BY <1>2, <2>1, EndsAnswers
<1>3. CASE LeaseConflict(r) \/ Leave(r)
  BY <1>1, <1>3 DEF LeaseConflict, Leave
<1>4. CASE CheckFails(r) \/ Fails(r)
  <2>1. R.pc # "idle"
    BY <1>4 DEF CheckFails, Fails, At, Checking, Trying
  <2> QED BY <1>4, <2>1, EndsAnswers DEF CheckFails, Fails
<1>5. CASE Finish(r)
  <2>1. R.pc = "concluding" /\ Ends(r, m.status)
    BY <1>5 DEF Finish, At
  <2>2. m.status # "absent"
    BY <1>0, <2>1 DEF InStep
  <2> QED BY <2>1, <2>2, EndsAnswers
<1>6. CASE Cancelled(r)
  <2>1. CASE Returns(r) /\ UNCHANGED <<row, lease, asked, flags>>
    BY <1>1, <2>1
  <2>2. CASE R.pc \in Trying /\ EndsCancelled(r)
    BY <1>2, <2>2 DEF Trying
  <2>3. CASE /\ R.pc = "closing"
             /\ Moves(r, [R EXCEPT !.pc = "leaving", !.cancelled = FALSE])
             /\ UNCHANGED <<row, lease, asked>>
    <3> DEFINE new == [R EXCEPT !.pc = "leaving", !.cancelled = FALSE]
    <3>1. new.pc = "leaving" /\ new.mem = m /\ new.killed = R.killed
      BY <1>0 DEF Runs
    <3>2. Moves(r, new) /\ row' = row
      BY <2>3
    <3> HIDE DEF new
    <3>3. run'[r] = new /\ flags' = flags
      BY <3>2 DEF Moves, TypeOK
    <3>4. InStep(new, row, flags[r])
      BY <1>0, <2>3, <3>1 DEF InStep, Trying
    <3> QED BY <3>2, <3>3, <3>4 DEF RunEffect, KeepsAnswers, Like
  <2> QED BY <1>6, <2>1, <2>2, <2>3 DEF Cancelled
<1>7. CASE KillLands(r)
  <2>1. R.pc \in Trying /\ R.killed
    BY <1>7 DEF KillLands, At
  <2>2. CASE EndsCancelled(r)
    BY <1>2, <2>1, <2>2 DEF Trying
  <2>3. CASE /\ Moves(r, [R EXCEPT !.pc = "between", !.killed = FALSE])
             /\ UNCHANGED <<row, lease, asked>>
    <3>0. Moves(r, [run[r] EXCEPT !.pc = "between", !.killed = FALSE])
      BY <2>3
    <3>1. PICK new \in Runs : /\ Moved(r, new, "between", m) /\ ~new.killed
                              /\ new.task = R.task /\ new.cancelled = R.cancelled
      BY <3>0, KillMoves, Zenon
    <3>2. run'[r] = new /\ new.pc = "between" /\ new.mem = m /\ flags' = flags
      BY <3>1 DEF Moved, Moves, TypeOK
    <3>3. "killed" \in flags[r] /\ m.status # "absent"
          /\ (Like(row, m) \/ Behind(m, row))
      BY <2>1, Working
    <3>4. new.pc \in Trying \ {"discovering", "parked"}
      BY <3>2 DEF Trying
    <3>5. InStep(new, row, flags[r])
      BY <3>2, <3>3, <3>4, WorkInStep
    <3> QED BY <2>3, <3>2, <3>5 DEF RunEffect, KeepsAnswers, Like
  <2> QED BY <1>7, <2>2, <2>3 DEF KillLands
<1>8. CASE Close(r)
  <2>1. R.pc = "closing"
    BY <1>8 DEF Close, At
  <2>2. PICK new \in Runs : /\ Moved(r, new, "leaving", m) /\ KeepsTask(new, R)
                            /\ row' = m
    BY <1>8, WorkMoves
  <2>3. run'[r] = new /\ new.pc = "leaving" /\ new.mem = m /\ flags' = flags
    BY <2>2 DEF Moved, Moves, TypeOK
  <2>4. m.status # "absent" /\ (R.killed => "killed" \in flags[r])
    BY <1>0, <2>1 DEF InStep
  <2>5. InStep(new, row', flags[r])
    BY <2>2, <2>3, <2>4 DEF InStep, KeepsTask, Trying
  <2>6. SavesCopy(r)
    BY <2>1, <2>2, <2>3, <2>4 DEF SavesCopy
  <2> QED BY <2>3, <2>5, <2>6 DEF RunEffect
<1> QED BY <1>3, <1>4, <1>5, <1>6, <1>7, <1>8

\* A run that changes nothing but its flags and marks stays in step.
LEMMA SameStep ==
  ASSUME NEW R, NEW new, NEW n, NEW k, NEW fl, NEW gl, InStep(R, n, fl),
         new.pc = R.pc, new.mem = R.mem, new.killed = R.killed \/ "killed" \in gl,
         "killed" \in fl => "killed" \in gl,
         Like(k, n), k.status = n.status
  PROVE  InStep(new, k, gl)
<1>1. Like(n, R.mem) => Like(k, R.mem)
  BY DEF Like
<1>2. Behind(R.mem, n) => Behind(R.mem, k)
  BY DEF Like, Behind
<1> QED BY <1>1, <1>2 DEF InStep

\* What requests and servers do to the row: nothing to its answers, a mission
\* that was not there, or the acceptance of the answer to its open question.
AcceptsAnswer ==
  /\ row.question # 0 /\ row'.status = row.status
  /\ row' = Accepted(row, row.question)

OthersEffect ==
  /\ KeepsAnswers \/ (row.status = "absent" /\ row' = With(NoMission, "pending")) \/ AcceptsAnswer
  /\ \A s \in Runtimes : InStep(run'[s], row', flags'[s])

\* Requests and servers that leave the row alone.
LEMMA QuietAnswers ==
  ASSUME TypeOK, LifeInvariant, AnswerInvariant, NEW r \in Runtimes,
         \/ StopBegin(r) \/ StopJoined(r) \/ PauseBegin(r) \/ PauseJoined(r) \/ PauseOffline(r)
         \/ ResumeBegin(r) \/ AnswerRoute(r) \/ StartRun(r) \/ Kill(r) \/ ServerStep(r)
  PROVE  OthersEffect
<1>0. /\ \A s \in Runtimes : InStep(run[s], row, flags[s])
      /\ run[r] \in Runs /\ row \in Missions
  BY DEF AnswerInvariant, TypeOK
<1>l. Like(row, row)
  BY DEF Like
<1>s. ASSUME NEW m, NEW why, NEW fl, m.status # "absent" PROVE InStep(Started(m, why), row, fl)
  <2>1. Started(m, why).pc = "created" /\ Started(m, why).mem = m /\ ~Started(m, why).killed
    BY DEF Started, NoRun
  <2> QED BY <1>s, <2>1 DEF InStep, Trying
<1>r. row' = row => KeepsAnswers
  BY <1>l DEF KeepsAnswers
<1>1. CASE PauseBegin(r) \/ PauseJoined(r) \/ StopJoined(r) \/ PauseOffline(r) \/ ResumeBegin(r)
           \/ AnswerRoute(r) \/ Exit(r)
  <2>1. row' = row /\ run' = run
        /\ \A s \in Runtimes : "killed" \in flags[s] => "killed" \in flags'[s]
    BY <1>1 DEF PauseBegin, PauseJoined, StopJoined, PauseOffline, ResumeBegin, AnswerRoute, Exit,
                requests, TypeOK
  <2>2. \A s \in Runtimes : InStep(run'[s], row', flags'[s])
    BY <1>0, <1>l, <2>1, SameStep
  <2> QED BY <1>r, <2>1, <2>2 DEF OthersEffect
<1>2. CASE StopBegin(r) \/ Shutdown(r) \/ Kill(r)
  <2>1. row' = row /\ \A s \in Runtimes : "killed" \in flags[s] => "killed" \in flags'[s]
    BY <1>2 DEF StopBegin, Shutdown, Kill, TypeOK
  <2>2. ASSUME StopBegin(r) \/ Shutdown(r)
        PROVE  \A s \in Runtimes : /\ run'[s].pc = run[s].pc /\ run'[s].mem = run[s].mem
                                   /\ run'[s].killed = run[s].killed
    <3>1. run' = [run EXCEPT ![r].cancelled = Live(r)]
      BY <2>2 DEF StopBegin, Shutdown
    <3> QED BY <1>0, <3>1 DEF TypeOK, Runs
  <2>3. ASSUME Kill(r)
        PROVE  /\ \A s \in Runtimes : run'[s].pc = run[s].pc /\ run'[s].mem = run[s].mem
               /\ \A s \in Runtimes : run'[s].killed = run[s].killed \/ "killed" \in flags'[s]
    <3>1. run' = [run EXCEPT ![r].killed = TRUE] /\ flags' = [flags EXCEPT ![r] = @ \cup {"killed"}]
      BY <2>3 DEF Kill
    <3>2. "killed" \in flags'[r]
      BY <3>1 DEF TypeOK
    <3>3. \A s \in Runtimes : run'[s].pc = run[s].pc /\ run'[s].mem = run[s].mem
      BY <1>0, <3>1 DEF TypeOK, Runs
    <3>4. \A s \in Runtimes \ {r} : run'[s] = run[s]
      BY <3>1 DEF TypeOK
    <3> QED BY <3>2, <3>3, <3>4
  <2>4. \A s \in Runtimes : InStep(run'[s], row', flags'[s])
    BY <1>0, <1>2, <1>l, <2>1, <2>2, <2>3, SameStep
  <2> QED BY <1>r, <2>1, <2>4 DEF OthersEffect
<1>3. CASE StartRun(r)
  <2>1. /\ row' = row /\ flags' = flags
        /\ starter[r].copy = row /\ row.status # "absent"
    BY <1>3 DEF StartRun, LifeInvariant, CopyCurrent, Answerable
  <2>2. \A s \in Runtimes : run'[s] = run[s] \/ run'[s] = Started(row, starter[r].why)
    BY <1>3, <2>1 DEF StartRun, TypeOK
  <2>3. \A s \in Runtimes : InStep(run'[s], row', flags'[s])
    BY <1>0, <1>s, <2>1, <2>2
  <2> QED BY <1>r, <2>1, <2>3 DEF OthersEffect
<1>4. CASE Boot(r)
  <2>1. row' = row /\ flags' = flags
    BY <1>4 DEF Boot
  <2>2. \A s \in Runtimes : \/ run'[s] = run[s]
                            \/ row.status # "absent" /\ run'[s] = Started(row, "boot")
    BY <1>4 DEF Boot, TypeOK, Resumable
  <2>3. \A s \in Runtimes : InStep(run'[s], row', flags'[s])
    BY <1>0, <1>s, <2>1, <2>2
  <2> QED BY <1>r, <2>1, <2>3 DEF OthersEffect
<1>5. CASE Crash(r)
  <2>1. row' = row /\ flags' = flags /\ \A s \in Runtimes : run'[s] = run[s] \/ run'[s].pc = "idle"
    BY <1>5 DEF Crash, TypeOK, NoRun
  <2>2. \A s \in Runtimes : InStep(run'[s], row', flags'[s])
    BY <1>0, <2>1 DEF InStep
  <2> QED BY <1>r, <2>1, <2>2 DEF OthersEffect
<1> QED BY <1>1, <1>2, <1>3, <1>4, <1>5 DEF ServerStep

\* Requests that write the row.
LEMMA WriteAnswers ==
  ASSUME TypeOK, LifeInvariant, AnswerInvariant, NEW r \in Runtimes,
         Create(r) \/ StopSweep(r) \/ AnswerAccept(r) \/ PauseCheckpoint(r)
  PROVE  OthersEffect
<1> DEFINE R == run[r]
<1>0. /\ \A s \in Runtimes : InStep(run[s], row, flags[s])
      /\ R \in Runs /\ R.mem \in Missions /\ row \in Missions
      /\ ServerShaped(r) /\ CopyCurrent(r) /\ StopHeld(R, flags[r], stopper[r])
      /\ QuietWhenPaused(R, row)
  BY DEF AnswerInvariant, TypeOK, Runs, LifeInvariant, Orderly
<1>i. ASSUME proc[r] = "up" PROVE \A s \in Runtimes \ {r} : run[s].pc = "idle"
  <2>1. \A s \in Runtimes \ {r} : ~Alive(s)
    BY <1>i, OthersIdle DEF Alive
  <2> QED BY <2>1 DEF LifeInvariant, ServerShaped
<1>1. CASE Create(r)
  <2> DEFINE m == With(NoMission, "pending")
  <2>1. proc[r] = "up" /\ row.status = "absent" /\ row' = m
        /\ run' = [run EXCEPT ![r] = Started(m, "create")]
    BY <1>1 DEF Create, Save, Up
  <2>2. m.status # "absent"
    BY DEF With, NoMission
  <2>3. Started(m, "create").pc = "created" /\ Started(m, "create").mem = m
        /\ ~Started(m, "create").killed
    BY DEF Started, NoRun
  <2>4. run'[r] = Started(m, "create") /\ \A s \in Runtimes \ {r} : run'[s].pc = "idle"
    BY <1>i, <2>1 DEF TypeOK
  <2>5. \A s \in Runtimes : InStep(run'[s], row', flags'[s])
    BY <2>2, <2>3, <2>4 DEF InStep, Trying
  <2> QED BY <2>1, <2>5 DEF OthersEffect
<1>2. CASE StopSweep(r)
  <2>1. /\ stopper[r] = "sweeping" /\ run' = run /\ flags' = flags
        /\ row' = row \/ row' = With(row, "stopped")
    BY <1>2 DEF StopSweep
  <2>2. proc[r] = "up" /\ R.pc \notin Trying
    BY <1>0, <2>1 DEF ServerShaped, StopHeld
  <2>3. Like(row', row) /\ (row'.status = row.status \/ row'.status = "stopped")
    BY <1>0, <2>1, MissionFields DEF Like
  <2>4. Like(row, R.mem) => Like(row', R.mem)
    BY <2>3 DEF Like
  <2>5. Behind(R.mem, row) => Behind(R.mem, row')
    BY <2>3 DEF Like, Behind
  <2>6. InStep(R, row', flags[r])
    BY <1>0, <2>2, <2>4, <2>5 DEF InStep
  <2>7. \A s \in Runtimes : InStep(run'[s], row', flags'[s])
    BY <1>i, <2>1, <2>2, <2>6 DEF InStep
  <2> QED BY <2>3, <2>7 DEF OthersEffect, KeepsAnswers
<1>3. CASE AnswerAccept(r)
  <2> DEFINE m == Accepted(row, row.question)
  <2>1. /\ proc[r] = "up" /\ row.question # 0 /\ row.status \in {"waiting", "paused"}
        /\ row' = m /\ run' = run /\ flags' = flags
    BY <1>3 DEF AnswerAccept, Save, Up, Answerable
  <2>2. /\ m.status = row.status /\ m.question = 0
        /\ m.answers = [row.answers EXCEPT ![row.question] = "accepted"]
    BY <1>0 DEF Accepted, Missions
  <2>3. row.question \in Questions
    BY <1>0, <2>1 DEF Missions
  <2>4. ASSUME R.pc \in Trying \cup {"closing"}
        PROVE  /\ Behind(R.mem, m)
               /\ R.pc \in {"discovering", "parked", "closing"} \/ "killed" \in flags[r]
    <3>1. ~Behind(R.mem, row)
      BY <2>1 DEF Behind
    <3>2. Like(row, R.mem)
      BY <1>0, <2>4, <3>1 DEF InStep, Trying
    <3>3. Behind(R.mem, m)
      BY <2>2, <2>3, <3>2 DEF Like, Behind
    <3>4. R.pc \notin {"discovering", "parked", "closing"} => "killed" \in flags[r]
      BY <1>0, <2>1, <2>4, <3>2 DEF InStep, Like, Trying
    <3> QED BY <3>3, <3>4
  <2>5. R.pc \in Trying \ {"discovering", "parked"} => "killed" \in flags[r]
    BY <2>4 DEF Trying
  <2> HIDE DEF m
  <2>6. InStep(R, m, flags[r])
    BY <1>0, <2>4, <2>5 DEF InStep
  <2>7. \A s \in Runtimes : InStep(run'[s], row', flags'[s])
    BY <1>i, <2>1, <2>6 DEF InStep
  <2> QED BY <2>1, <2>2, <2>7 DEF OthersEffect, AcceptsAnswer, m
<1>4. CASE PauseCheckpoint(r)
  <2>1. /\ pauser[r].pc = "checkpoint" /\ run' = run
        /\ row' = With(pauser[r].copy, "paused")
    BY <1>4 DEF PauseCheckpoint, Save
  <2>2. pauser[r].copy = row /\ R.pc = "idle" /\ proc[r] = "up"
    BY <1>0, <2>1 DEF CopyCurrent, ServerShaped, Live
  <2>3. Like(row', row) /\ row'.status = "paused"
    BY <1>0, <2>1, <2>2, MissionFields DEF Like
  <2>4. \A s \in Runtimes : InStep(run'[s], row', flags'[s])
    BY <1>i, <2>1, <2>2 DEF InStep
  <2> QED BY <2>3, <2>4 DEF OthersEffect, KeepsAnswers
<1> QED BY <1>1, <1>2, <1>3, <1>4

\* What a step may do to the answers, if it is not a stutter.
AnswersUndone(q) ==
  row'.answers[q] # row.answers[q] /\ (row.answers[q] = "consumed" \/ row'.answers[q] = "none")

ByStaleRun(q) ==
  \E r \in Runtimes : run[r].mem.question = q /\
    \/ run[r].pc = "discovering" /\ run'[r].pc = "resuming"
    \/ run[r].pc = "closing" /\ run'[r].pc = "leaving"
    \/ "killed" \in flags[r] /\ run'[r] # run[r]

AnswersWellUsed == \A q \in Questions : AnswersUndone(q) => ByStaleRun(q)

\* Each of the effects leaves the row blank where it was, and undoes an answer
\* only by a stale copy.
LEMMA EffectsWell ==
  ASSUME TypeOK, TypeOK', LifeInvariant, CopiesSound, AnswerInvariant,
         \/ OthersEffect
         \/ \E r \in Runtimes : RunEffect(r)
  PROVE  Blank(row') /\ AnswersWellUsed
<1>0. row \in Missions /\ row' \in Missions /\ Blank(row)
  BY DEF TypeOK, AnswerInvariant
<1>1. CASE KeepsAnswers
  BY <1>0, <1>1 DEF KeepsAnswers, Like, Blank, AnswersWellUsed, AnswersUndone
<1>2. CASE ConsumesAnswer
  <2>1. PICK q \in Questions : /\ row.answers[q] # "none"
                               /\ row'.status = row.status /\ row'.question = row.question
                               /\ row'.answers = [row.answers EXCEPT ![q] = "consumed"]
    BY <1>2 DEF ConsumesAnswer
  <2>2. row.status # "absent"
    BY <1>0, <2>1 DEF Blank
  <2>3. row'.answers[q] = "consumed" /\ \A p \in Questions \ {q} : row'.answers[p] = row.answers[p]
    BY <1>0, <2>1 DEF Missions
  <2> QED BY <2>1, <2>2, <2>3 DEF Blank, AnswersWellUsed, AnswersUndone
<1>3. CASE row.status = "absent" /\ row' = With(NoMission, "pending")
  <2>1. row'.status = "pending" /\ row'.question = 0 /\ \A q \in Questions : row'.answers[q] = "none"
    BY <1>3 DEF With, NoMission
  <2> QED BY <1>0, <1>3, <2>1 DEF Blank, AnswersWellUsed, AnswersUndone
<1>4. CASE AcceptsAnswer
  <2> DEFINE p == row.question
  <2>1. p \in Questions /\ row.answers[p] = "none"
    BY <1>0, <1>4 DEF AcceptsAnswer, CopiesSound, Sound, Missions
  <2>2. row'.answers = [row.answers EXCEPT ![p] = "accepted"]
    BY <1>0, <1>4 DEF AcceptsAnswer, Accepted, Missions
  <2>3. row'.answers[p] = "accepted" /\ \A q \in Questions \ {p} : row'.answers[q] = row.answers[q]
    BY <1>0, <2>1, <2>2 DEF Missions
  <2>4. row.status # "absent"
    BY <1>0, <1>4 DEF Blank, AcceptsAnswer
  <2> QED BY <1>4, <2>1, <2>3, <2>4 DEF Blank, AnswersWellUsed, AnswersUndone, AcceptsAnswer
<1>5. ASSUME NEW r \in Runtimes, SavesCopy(r) PROVE Blank(row') /\ AnswersWellUsed
  <2> DEFINE m == run[r].mem
  <2>1. /\ row'.answers = m.answers /\ row'.status # "absent" /\ run'[r] # run[r]
        /\ \/ run[r].pc = "discovering" /\ run'[r].pc = "resuming"
           \/ run[r].pc = "closing" /\ run'[r].pc = "leaving"
           \/ run[r].pc \in Trying \ {"discovering", "parked"}
    BY <1>5 DEF SavesCopy
  <2>2. run[r].pc \in Trying \cup {"closing"}
    BY <2>1 DEF Trying
  <2>3. CASE Like(row, m)
    BY <2>1, <2>3 DEF Like, Blank, AnswersWellUsed, AnswersUndone
  <2>4. CASE Behind(m, row) /\ ~Like(row, m)
    <3>1. \A q \in Questions : q # m.question => row'.answers[q] = row.answers[q]
      <4>1. row.answers = [m.answers EXCEPT ![m.question] = "accepted"] /\ m \in Missions
        BY <2>2, <2>4, Working DEF Behind
      <4> QED BY <2>1, <4>1 DEF Missions
    <3>2. run[r].pc \notin {"discovering", "closing"} => "killed" \in flags[r]
      BY <2>1, <2>2, <2>4, Working
    <3>3. \/ run[r].pc = "discovering" /\ run'[r].pc = "resuming"
          \/ run[r].pc = "closing" /\ run'[r].pc = "leaving"
          \/ "killed" \in flags[r] /\ run'[r] # run[r]
      BY <2>1, <3>2 DEF Trying
    <3>4. ByStaleRun(run[r].mem.question)
      BY <3>3, Zenon DEF ByStaleRun
    <3> QED BY <2>1, <3>1, <3>4 DEF Blank, AnswersWellUsed, AnswersUndone
  <2> QED BY <2>2, <2>3, <2>4, Working
<1> QED BY <1>1, <1>2, <1>3, <1>4, <1>5 DEF OthersEffect, RunEffect

\* The step of a run is in step, and no other run is there.
LEMMA RunInStep ==
  ASSUME TypeOK, TypeOK', LifeInvariant, AnswerInvariant, NEW r \in Runtimes, RunStep(r) \/ Fails(r)
  PROVE  RunEffect(r) /\ \A s \in Runtimes : InStep(run'[s], row', flags'[s])
<1>1. RunEffect(r)
  BY StartAnswers, WorkAnswers, EndAnswers DEF RunStep
<1>2. run[r].pc # "idle"
  <2>1. CASE \/ LeaseConflict(r) \/ ClaimLease(r) \/ Hydrate(r) \/ Begin(r)
             \/ (\E q \in Questions : ConsumeEarlier(r, q)) \/ ParkAgain(r) \/ RecoverTasks(r)
    BY <2>1 DEF LeaseConflict, ClaimLease, Hydrate, Begin, ConsumeEarlier, ParkAgain, RecoverTasks,
                Recovered, At
  <2>2. CASE \/ Call(r) \/ Respond(r) \/ Ask(r) \/ HearAnswer(r) \/ Continue(r)
             \/ Delegate(r) \/ Dispatch(r) \/ BeginTask(r) \/ EndTask(r) \/ TasksDone(r)
             \/ \E status \in {"completed", "blocked"} : Conclude(r, status)
    <3>1. ASSUME NEW pcs, "idle" \notin pcs, At(r, pcs) PROVE run[r].pc # "idle"
      BY <3>1 DEF At
    <3>2. \E pcs : "idle" \notin pcs /\ At(r, pcs)
      <4>1. \/ At(r, {"deciding"}) \/ At(r, {"calling"}) \/ At(r, {"parked"}) \/ At(r, {"answered"})
            \/ At(r, {"between"}) \/ At(r, {"dispatching"})
        BY <2>2 DEF Call, Respond, Ask, HearAnswer, Continue, Delegate, Dispatch, BeginTask, EndTask,
                    TasksDone, Conclude
      <4> QED BY <4>1
    <3> QED BY <3>1, <3>2
  <2>3. CASE \/ CheckFails(r) \/ Cancelled(r) \/ KillLands(r) \/ Fails(r)
             \/ Finish(r) \/ Close(r) \/ Leave(r)
    BY <2>3 DEF CheckFails, Checking, Cancelled, KillLands, Fails, Finish, Close, Leave, At, Trying
  <2> QED BY <2>1, <2>2, <2>3 DEF RunStep
<1>3. \A s \in Runtimes \ {r} : run'[s] = run[s]
  <2>1. ASSUME NEW new, Moves(r, new) PROVE \A s \in Runtimes \ {r} : run'[s] = run[s]
    BY <2>1 DEF Moves, TypeOK
  <2>2. ASSUME Returns(r) PROVE \A s \in Runtimes \ {r} : run'[s] = run[s]
    BY <2>2 DEF Returns, TypeOK
  <2>3. CASE \/ LeaseConflict(r) \/ ClaimLease(r) \/ Hydrate(r) \/ Begin(r)
             \/ (\E q \in Questions : ConsumeEarlier(r, q)) \/ ParkAgain(r) \/ RecoverTasks(r)
    <3>1. CASE LeaseConflict(r)
      BY <2>2, <3>1 DEF LeaseConflict
    <3>2. CASE ClaimLease(r) \/ Hydrate(r) \/ Begin(r)
      BY <2>1, <3>2, StartMoves DEF Moved
    <3>3. CASE \E q \in Questions : ConsumeEarlier(r, q)
      BY <2>1, <3>3 DEF ConsumeEarlier, Consume
    <3>4. CASE ParkAgain(r) \/ RecoverTasks(r)
      BY <2>1, <3>4 DEF ParkAgain, Park, RecoverTasks
    <3> QED BY <2>3, <3>1, <3>2, <3>3, <3>4
  <2>4. CASE \/ Call(r) \/ Respond(r) \/ Ask(r) \/ HearAnswer(r) \/ Continue(r)
             \/ Delegate(r) \/ Dispatch(r) \/ BeginTask(r) \/ EndTask(r) \/ TasksDone(r)
             \/ \E status \in {"completed", "blocked"} : Conclude(r, status)
    BY <2>1, <2>4 DEF Call, Respond, Ask, Park, HearAnswer, Consume, Continue, Delegate, Dispatch,
                      BeginTask, EndTask, TasksDone, Conclude, Goes
  <2>5. CASE \/ CheckFails(r) \/ Cancelled(r) \/ KillLands(r) \/ Fails(r)
             \/ Finish(r) \/ Close(r) \/ Leave(r)
    BY <2>1, <2>2, <2>5 DEF CheckFails, Cancelled, KillLands, EndsCancelled, Ends, Suspends, Fails,
                            Finish, Close, Leave, Goes
  <2> QED BY <2>3, <2>4, <2>5 DEF RunStep
<1>4. \A s \in Runtimes \ {r} : run[s].pc = "idle"
  <2>1. Alive(r)
    BY <1>2 DEF LifeInvariant, ServerShaped
  <2> QED BY <2>1, OthersIdle DEF LifeInvariant, ServerShaped
<1> QED BY <1>1, <1>3, <1>4 DEF RunEffect, InStep

\* With one server at a time the answers are well used in every step.
LEMMA AnswerStep ==
  ASSUME OneAtATime, TypeOK, TypeOK', LifeInvariant, CopiesSound, AnswerInvariant, [Next]_vars
  PROVE  AnswerInvariant' /\ (AnswersWellUsed \/ UNCHANGED vars)
<1>1. ASSUME NEW r \in Runtimes, RunStep(r) \/ Fails(r) PROVE AnswerInvariant' /\ AnswersWellUsed
  BY <1>1, RunInStep, EffectsWell DEF AnswerInvariant
<1>2. ASSUME OthersEffect PROVE AnswerInvariant' /\ AnswersWellUsed
  BY <1>2, EffectsWell DEF OthersEffect, AnswerInvariant
<1>3. ASSUME NEW r \in Runtimes,
             \/ UseCopy(r) \/ RequestBegins(r) \/ StopJoined(r) \/ StopSweep(r) \/ PauseJoined(r)
             \/ ServerStep(r)
      PROVE  AnswerInvariant' /\ AnswersWellUsed
  <2>1. OthersEffect
    BY <1>3, QuietAnswers, WriteAnswers DEF UseCopy, RequestBegins
  <2> QED BY <1>2, <2>1
<1>4. CASE LeaseExpires
  <2>1. row' = row /\ run' = run /\ flags' = flags
    BY <1>4 DEF LeaseExpires
  <2> QED BY <2>1 DEF AnswerInvariant, AnswersWellUsed, AnswersUndone
<1>5. CASE UNCHANGED vars
  BY <1>5 DEF vars, AnswerInvariant
<1> QED BY <1>1, <1>3, <1>4, <1>5 DEF Next

LEMMA AnswerInit == Init => AnswerInvariant
BY DEF Init, AnswerInvariant, InStep, Blank, NoRun, NoMission

\* Once accepted, an answer is undone only where a run writes a copy that still
\* has its question open: at its beginning, at its end, and after a kill.
THEOREM AnswersHold == ASSUME OneAtATime PROVE Spec => AnswersUndoneOnlyByStaleRuns
<1>1. OneAtATime /\ TypeOK /\ TypeOK' /\ LifeInvariant /\ CopiesSound /\ AnswerInvariant /\ [Next]_vars
        => AnswerInvariant' /\ [AnswersWellUsed]_vars
  BY AnswerStep
<1>2. AnswersWellUsed <=>
        \A q \in Questions :
          row'.answers[q] # row.answers[q] /\ (row.answers[q] = "consumed" \/ row'.answers[q] = "none") =>
            \E r \in Runtimes : run[r].mem.question = q /\
              \/ run[r].pc = "discovering" /\ run'[r].pc = "resuming"
              \/ run[r].pc = "closing" /\ run'[r].pc = "leaving"
              \/ "killed" \in flags[r] /\ run'[r] # run[r]
  BY DEF AnswersWellUsed, AnswersUndone, ByStaleRun
<1>3. Spec => [](TypeOK /\ LifeInvariant /\ CopiesSound)
  BY TypeInit, TypeStep, LifeInit, LifeStep, SoundInit, SoundStep, PTL DEF Spec
<1> QED BY <1>1, <1>2, <1>3, AnswerInit, PTL DEF Spec, AnswersUndoneOnlyByStaleRuns

==============================================================================
