--------------------------- MODULE MissionRuntime ---------------------------
(***************************************************************************)
(* The life of one mission under app/runtime.py: the run() task, the       *)
(* requests that control it (stop, pause, resume, kill, answer, shutdown)  *)
(* and the restarts of the server around them.                             *)
(*                                                                         *)
(* A runtime lives in one asyncio loop, so a step is what runs between two *)
(* suspension points: an await on a model, a tool or a task, or an emit()  *)
(* to a WebSocket client.  Between two steps any other coroutine may run.  *)
(* The missions row is written as a whole from the Mission object a        *)
(* coroutine holds, however old; only answers are compare-and-swap.        *)
(*                                                                         *)
(* Tasks run inside the server (no SWARM_PROCESS_WORKERS), a provider is   *)
(* configured, and agents and tasks are reduced to "a task is in flight".  *)
(***************************************************************************)
EXTENDS Integers, FiniteSets

CONSTANTS Runtimes,      \* server processes in the order they boot
          Questions,     \* question ids in the order they are asked
          MaxUp,         \* how many servers share the database at once
          RequestsYield  \* may others run between the moment a request reads
                         \* the row and the moment it uses that copy?

ASSUME RuntimeAssumption ==
  /\ Runtimes \subseteq Nat \ {0}
  /\ Questions \subseteq Nat \ {0}
  /\ MaxUp \in Nat
  /\ RequestsYield \in BOOLEAN

VARIABLES row,      \* the missions row
          lease,    \* the worker_leases row of scope "mission"
          asked,    \* questions asked so far
          proc,     \* each server process
          flags,    \* its sets stopped, pausing, suspending, killed_agents
          run,      \* its run() task
          stopper,  \* its stop() request
          pauser,   \* its pause() request
          starter   \* its resume() or submit_answer() request

requests == <<stopper, pauser, starter>>

vars == <<row, lease, asked, proc, flags, run, requests>>

------------------------------------------------------------------------------
(* Data *)

\* Faulty: blocked missions count as unfinished.
ResumableIfBlocked == {"pending", "running", "waiting", "blocked"}

\* Faulty: so do paused ones.
ResumableIfPaused == {"pending", "running", "waiting", "paused"}

Resumable == {"pending", "running", "waiting"}

Terminal == {"completed", "failed", "stopped", "blocked"}

Answerable == {"waiting", "paused"}

\* What a Mission holds that control depends on; question 0 is none.
Missions == [status : {"absent", "paused"} \cup Resumable \cup Terminal,
             question : Questions \cup {0},
             answers : [Questions -> {"none", "accepted", "consumed"}]]

NoMission == [status |-> "absent", question |-> 0, answers |-> [q \in Questions |-> "none"]]

With(m, status) == [m EXCEPT !.status = status]

Leases == [owner : Runtimes \cup {0}, live : BOOLEAN]

\* The suspension points of run(): inside its try, where exceptions are turned
\* into a status, and outside.
Trying == {"discovering", "resuming", "calling", "deciding", "parked", "answered",
           "dispatching", "between", "concluding"}

\* task tells who called _run_tasks, killed that its agent was killed, cancelled
\* that task.cancel() has not been delivered yet.
Runs == [pc : {"idle", "created", "claimed", "closing", "leaving"} \cup Trying,
         mem : Missions, why : {"none", "create", "boot", "resume", "answer"},
         task : {"none", "recovery", "wait"}, killed : BOOLEAN, cancelled : BOOLEAN]

NoRun == [pc |-> "idle", mem |-> NoMission, why |-> "none", task |-> "none",
          killed |-> FALSE, cancelled |-> FALSE]

\* start(): a new task on a copy of the mission.
Started(m, why) == [NoRun EXCEPT !.pc = "created", !.mem = m, !.why = why]

Requests == [pc : {"none", "joining", "joined", "checkpoint", "answering", "starting"},
             copy : Missions, why : {"none", "resume", "answer"}]

NoRequest == [pc |-> "none", copy |-> NoMission, why |-> "none"]

Up(r) == proc[r] = "up"

Live(r) == run[r].pc # "idle"

At(r, pcs) == run[r].pc \in pcs /\ ~run[r].cancelled

\* check_stopped() raises; check_agent() also looks at the kill of its agent.
Flagged(r) == flags[r] \cap {"stopped", "pausing"} # {}

AgentFlagged(r) == Flagged(r) \/ run[r].killed

\* Faulty: answers are not read again from the row.
SyncedNever(m) == m

\* _sync_answers.
Synced(m) == [m EXCEPT !.question = row.question, !.answers = row.answers]

------------------------------------------------------------------------------
(* run(): the steps of the task *)

Init ==
  /\ row = NoMission
  /\ lease = [owner |-> 0, live |-> FALSE]
  /\ asked = 0
  /\ proc = [r \in Runtimes |-> "new"]
  /\ flags = [r \in Runtimes |-> {}]
  /\ run = [r \in Runtimes |-> NoRun]
  /\ stopper = [r \in Runtimes |-> "none"]
  /\ pauser = [r \in Runtimes |-> NoRequest]
  /\ starter = [r \in Runtimes |-> NoRequest]

\* save_mission: the whole of m, whatever the row says by now.
Save(m) == row' = m

Moves(r, new) ==
  /\ run' = [run EXCEPT ![r] = new]
  /\ UNCHANGED <<proc, flags, requests>>

Goes(r, pc) == Moves(r, [run[r] EXCEPT !.pc = pc])

\* The task is done, and with it the gather() of whoever joined it.
Returns(r) ==
  /\ run' = [run EXCEPT ![r] = NoRun]
  /\ stopper' = [stopper EXCEPT ![r] = IF @ = "joining" THEN "joined" ELSE @]
  /\ pauser' = [pauser EXCEPT ![r].pc = IF @ = "joining" THEN "joined" ELSE @]
  /\ UNCHANGED <<proc, starter>>

\* run() returns at once if another server's lease is live.
LeaseConflict(r) ==
  /\ At(r, {"created"})
  /\ lease.live /\ lease.owner # r
  /\ Returns(r)
  /\ UNCHANGED <<row, lease, asked, flags>>

\* Nothing renews this lease later.
ClaimLease(r) ==
  /\ At(r, {"created"})
  /\ lease.live => lease.owner = r
  /\ lease' = [owner |-> r, live |-> TRUE]
  /\ Goes(r, "claimed")
  /\ UNCHANGED <<row, asked>>

Hydrate(r) ==
  /\ At(r, {"claimed"}) /\ ~Flagged(r)
  /\ Moves(r, [run[r] EXCEPT !.pc = "discovering", !.mem = Synced(@)])
  /\ UNCHANGED <<row, lease, asked>>

Begin(r) ==
  LET m == With(run[r].mem, "running")
  IN  /\ At(r, {"discovering"})
      /\ Save(m)
      /\ Moves(r, [run[r] EXCEPT !.pc = "resuming", !.mem = m])
      /\ UNCHANGED <<lease, asked>>

\* mark_answer_consumed and the sync that follows it.
Consume(r, q, pc) ==
  LET answers == [row.answers EXCEPT ![q] = "consumed"]
  IN  /\ row.answers[q] # "none"
      /\ row' = [row EXCEPT !.answers = answers]
      /\ Moves(r, [run[r] EXCEPT !.pc = pc, !.mem.question = row.question,
                                 !.mem.answers = answers])
      /\ UNCHANGED <<lease, asked>>

ConsumeEarlier(r, q) ==
  /\ At(r, {"resuming"})
  /\ run[r].mem.answers[q] = "accepted"
  /\ Consume(r, q, "resuming")

Recovered(r) == At(r, {"resuming"}) /\ \A q \in Questions : run[r].mem.answers[q] # "accepted"

\* Faulty: the question is saved, the new status is not.
ParkRowAsIs(m) == m

\* _park_for_human_answer up to its wait.
ParkRow(m) == With(m, "waiting")

Park(r, m) ==
  /\ Save(ParkRow(m))
  /\ Moves(r, [run[r] EXCEPT !.pc = "parked", !.mem = With(m, "waiting")])
  /\ UNCHANGED lease

\* The open question of an earlier run is waited for again, at the start or
\* after the tasks that a recovery resumed.
ParkAgain(r) ==
  /\ Recovered(r)
  /\ run[r].mem.question # 0
  /\ Park(r, run[r].mem)
  /\ UNCHANGED asked

RecoverTasks(r) ==
  /\ Recovered(r)
  /\ run[r].mem.question = 0
  /\ Moves(r, [run[r] EXCEPT !.pc = "between", !.task = "recovery"])
  /\ UNCHANGED <<row, lease, asked>>

\* model_call starts: a controller decision, or the worker of the task.
Call(r) ==
  /\ At(r, {"deciding"}) /\ ~AgentFlagged(r)
  /\ Goes(r, "calling")
  /\ UNCHANGED <<row, lease, asked>>

\* model_call returns; _account_tokens saves the mission if usage is reported.
Respond(r) ==
  /\ At(r, {"calling"}) /\ ~AgentFlagged(r)
  /\ Save(run[r].mem) \/ UNCHANGED row
  /\ Goes(r, "deciding")
  /\ UNCHANGED <<lease, asked>>

\* "ask" by the controller or by a worker, and finish that needs approval.
Ask(r) ==
  LET q == asked + 1
  IN  /\ At(r, {"deciding"})
      /\ run[r].mem.question = 0
      /\ q \in Questions
      /\ asked' = q
      /\ Park(r, [run[r].mem EXCEPT !.question = q])

\* _await_answer finds the answer, and what runs up to the next emit.
HearAnswer(r) ==
  LET q == run[r].mem.question
  IN  /\ At(r, {"parked"}) /\ ~Flagged(r)
      /\ q # 0 /\ row.question = 0
      /\ Consume(r, q, "answered")

Continue(r) ==
  LET m == With(run[r].mem, "running")
  IN  /\ At(r, {"answered"})
      /\ Save(m)
      /\ Moves(r, [run[r] EXCEPT !.pc = "calling", !.mem = m])
      /\ UNCHANGED <<lease, asked>>

\* "wait": from here _run_tasks takes one task after the other.
Delegate(r) ==
  LET m == With(run[r].mem, "waiting")
  IN  /\ At(r, {"deciding"})
      /\ run[r].task = "none" /\ run[r].mem.question = 0
      /\ Save(m)
      /\ Moves(r, [run[r] EXCEPT !.pc = "between", !.task = "wait", !.mem = m])
      /\ UNCHANGED <<lease, asked>>

\* The task's own job is created, then claims the task's lease.
Dispatch(r) ==
  /\ At(r, {"between"}) /\ ~Flagged(r)
  /\ Goes(r, "dispatching")
  /\ UNCHANGED <<row, lease, asked>>

BeginTask(r) ==
  /\ At(r, {"dispatching"}) /\ ~AgentFlagged(r)
  /\ Goes(r, "calling")
  /\ UNCHANGED <<row, lease, asked>>

EndTask(r) ==
  /\ At(r, {"deciding"}) /\ ~AgentFlagged(r)
  /\ run[r].task # "none"
  /\ Goes(r, "between")
  /\ UNCHANGED <<row, lease, asked>>

TasksDone(r) ==
  LET m == IF run[r].task = "wait" THEN With(run[r].mem, "running") ELSE run[r].mem
      done == [run[r] EXCEPT !.task = "none", !.mem = m]
  IN  /\ At(r, {"between"}) /\ ~Flagged(r)
      /\ IF run[r].task = "recovery" /\ m.question # 0
         THEN Save(ParkRow(m))
              /\ Moves(r, [done EXCEPT !.pc = "parked", !.mem = With(m, "waiting")])
         ELSE (IF run[r].task = "wait" THEN Save(m) ELSE UNCHANGED row)
              /\ Moves(r, [done EXCEPT !.pc = "calling"])
      /\ UNCHANGED <<lease, asked>>

\* finish, verified, or blocked: so far only the object in memory knows.
Conclude(r, status) ==
  /\ At(r, {"deciding"})
  /\ run[r].task = "none"
  /\ status = "completed" => run[r].mem.question = 0
  /\ Moves(r, [run[r] EXCEPT !.pc = "concluding", !.mem.status = status])
  /\ UNCHANGED <<row, lease, asked>>

(* run(): how it ends *)

\* Leaving the try with a status: answers are synced at once, the row is saved
\* after the agents and tasks have been closed, one emit each.
Ends(r, status) ==
  /\ Moves(r, [run[r] EXCEPT !.pc = "closing", !.mem = With(Synced(@), status),
                             !.cancelled = FALSE])
  /\ UNCHANGED <<row, lease, asked>>

\* Faulty: a status that MissionStatus does not have.
SuspendedStatusNamed(m) == IF m.question # 0 THEN "waiting" ELSE "suspended"

\* A shutdown saves at once, in a status that the next boot resumes.
SuspendedStatus(m) ==
  IF row.question # 0 \/ m.status = "waiting" THEN "waiting" ELSE "running"

Suspends(r) ==
  LET m == With(Synced(run[r].mem), SuspendedStatus(run[r].mem))
  IN  /\ Save(m)
      /\ Moves(r, [run[r] EXCEPT !.pc = "leaving", !.mem = m, !.cancelled = FALSE])
      /\ UNCHANGED <<lease, asked>>

\* Faulty: any cancellation that is not a pause counts as a stop.
CancelledSuspendIsStop(r) == IF "pausing" \in flags[r] THEN "paused" ELSE "stopped"

\* except asyncio.CancelledError; a stop goes before a pause.
CancelledStatus(r) ==
  IF "stopped" \in flags[r] THEN "stopped"
  ELSE IF "pausing" \in flags[r] THEN "paused"
  ELSE IF "suspending" \in flags[r] THEN "suspended"
  ELSE "stopped"

EndsCancelled(r) ==
  IF CancelledStatus(r) = "suspended" THEN Suspends(r) ELSE Ends(r, CancelledStatus(r))

\* Faulty: the wait for an answer does not look at the flags.
CheckingUnlessParked == {"claimed", "calling", "deciding", "dispatching", "between"}

\* Where run() looks at the flags.
Checking == {"claimed", "calling", "deciding", "parked", "dispatching", "between"}

\* check_stopped: CancelledError for a stop, PauseRequested for a pause.
CheckFails(r) ==
  /\ At(r, Checking)
  /\ \/ "stopped" \in flags[r] /\ Ends(r, "stopped")
     \/ "stopped" \notin flags[r] /\ "pausing" \in flags[r] /\ Ends(r, "paused")

\* task.cancel() is delivered.  Before the lease is known to be held nothing is
\* cleaned up; while closing, the save is skipped.
Cancelled(r) ==
  /\ run[r].cancelled
  /\ \/ /\ run[r].pc \in {"created", "claimed"}
        /\ Returns(r)
        /\ UNCHANGED <<row, lease, asked, flags>>
     \/ run[r].pc \in Trying /\ EndsCancelled(r)
     \/ /\ run[r].pc = "closing"
        /\ Moves(r, [run[r] EXCEPT !.pc = "leaving", !.cancelled = FALSE])
        /\ UNCHANGED <<row, lease, asked>>

\* The task of a killed agent: _execute_task swallows the cancellation once it
\* is past its claim, whatever its worker is doing, even waiting for an answer;
\* before that it ends the mission like any other.
KillLands(r) ==
  /\ At(r, Trying) /\ run[r].killed
  /\ IF run[r].pc = "dispatching" \/ flags[r] \cap {"stopped", "suspending"} # {}
     THEN EndsCancelled(r)
     ELSE /\ Moves(r, [run[r] EXCEPT !.pc = "between", !.killed = FALSE])
          /\ UNCHANGED <<row, lease, asked>>

\* The runtime limit, a PolicyError, a ProviderError or any other exception;
\* discover() raises only ToolErrors, and these are ignored.
Fails(r) == At(r, Trying \ {"discovering"}) /\ Ends(r, "failed")

Finish(r) == At(r, {"concluding"}) /\ Ends(r, run[r].mem.status)

Close(r) ==
  /\ At(r, {"closing"})
  /\ Save(run[r].mem)
  /\ Goes(r, "leaving")
  /\ UNCHANGED <<lease, asked>>

\* _checkpoint_pause discards the flag; the lease is released if still ours.
Leave(r) ==
  /\ run[r].pc = "leaving"
  /\ lease' = IF lease.owner = r THEN [lease EXCEPT !.live = FALSE] ELSE lease
  /\ flags' = [flags EXCEPT ![r] = IF run[r].mem.status = "paused" THEN @ \ {"pausing"} ELSE @]
  /\ Returns(r)
  /\ UNCHANGED <<row, asked>>

------------------------------------------------------------------------------
(* Requests *)

\* POST /missions.
Create(r) ==
  /\ Up(r)
  /\ row.status = "absent"
  /\ Save(With(NoMission, "pending"))
  /\ run' = [run EXCEPT ![r] = Started(With(NoMission, "pending"), "create")]
  /\ UNCHANGED <<lease, asked, proc, flags, requests>>

\* Faulty: the row is stopped without waiting for the task.
StopBeginUnjoined(r) ==
  /\ Up(r) /\ stopper[r] = "none" /\ row.status # "absent"
  /\ flags' = [flags EXCEPT ![r] = (@ \cup {"stopped"}) \ {"pausing"}]
  /\ stopper' = [stopper EXCEPT ![r] = "sweeping"]
  /\ UNCHANGED <<row, lease, asked, proc, run, pauser, starter>>

\* stop(): the flag, and the cancellation of a live task.
StopBegin(r) ==
  /\ Up(r) /\ stopper[r] = "none" /\ row.status # "absent"
  /\ flags' = [flags EXCEPT ![r] = (@ \cup {"stopped"}) \ {"pausing"}]
  /\ run' = [run EXCEPT ![r].cancelled = Live(r)]
  /\ stopper' = [stopper EXCEPT ![r] = IF Live(r) THEN "joining" ELSE "sweeping"]
  /\ UNCHANGED <<row, lease, asked, proc, pauser, starter>>

\* Faulty: the stop is over when the task is.
JoinedMeansStopped == "none"

AfterJoin == IF row.status \in Terminal THEN "none" ELSE "sweeping"

StopJoined(r) ==
  /\ stopper[r] = "joined"
  /\ stopper' = [stopper EXCEPT ![r] = AfterJoin]
  /\ UNCHANGED <<row, lease, asked, proc, flags, run, pauser, starter>>

\* The row is read again after the emits, and saved without another.
StopSweep(r) ==
  /\ stopper[r] = "sweeping"
  /\ row' = IF row.status \in Terminal THEN row ELSE With(row, "stopped")
  /\ stopper' = [stopper EXCEPT ![r] = "none"]
  /\ UNCHANGED <<lease, asked, proc, flags, run, pauser, starter>>

PauseBegin(r) ==
  /\ Up(r) /\ pauser[r].pc = "none" /\ row.status \in Resumable
  /\ Live(r)
  /\ flags' = [flags EXCEPT ![r] = @ \cup {"pausing"}]
  /\ pauser' = [pauser EXCEPT ![r].pc = "joining"]
  /\ UNCHANGED <<row, lease, asked, proc, run, stopper, starter>>

PauseJoined(r) ==
  /\ pauser[r].pc = "joined"
  /\ flags' = [flags EXCEPT ![r] = @ \ {"pausing"}]
  /\ pauser' = [pauser EXCEPT ![r] = NoRequest]
  /\ UNCHANGED <<row, lease, asked, proc, run, stopper, starter>>

\* With no live task pause() makes the checkpoint itself, on a copy of the row.
PauseOffline(r) ==
  /\ Up(r) /\ pauser[r].pc = "none" /\ row.status \in Resumable
  /\ ~Live(r)
  /\ pauser' = [pauser EXCEPT ![r] = [pc |-> "checkpoint", copy |-> row, why |-> "none"]]
  /\ UNCHANGED <<row, lease, asked, proc, flags, run, stopper, starter>>

PauseCheckpoint(r) ==
  /\ pauser[r].pc = "checkpoint"
  /\ Save(With(pauser[r].copy, "paused"))
  /\ flags' = [flags EXCEPT ![r] = @ \ {"pausing"}]
  /\ pauser' = [pauser EXCEPT ![r] = NoRequest]
  /\ UNCHANGED <<lease, asked, proc, run, stopper, starter>>

ResumeBegin(r) ==
  /\ Up(r) /\ starter[r].pc = "none" /\ row.status = "paused"
  /\ ~Live(r)
  /\ flags' = [flags EXCEPT ![r] = @ \ {"pausing"}]
  /\ starter' = [starter EXCEPT ![r] = [pc |-> "starting", copy |-> row, why |-> "resume"]]
  /\ UNCHANGED <<row, lease, asked, proc, run, stopper, pauser>>

\* accept_answer: compare-and-swap on the whole row.
Accepted(m, q) == [m EXCEPT !.question = 0, !.answers[q] = "accepted"]

AnswerAccept(r) ==
  LET m == Accepted(row, row.question)
  IN  /\ Up(r) /\ starter[r].pc = "none"
      /\ row.question # 0 /\ row.status \in Answerable
      /\ Save(m)
      /\ starter' = [starter EXCEPT ![r] = [pc |-> "answering", copy |-> m, why |-> "answer"]]
      /\ UNCHANGED <<lease, asked, proc, flags, run, stopper, pauser>>

\* submit_answer after its emit: only a mission that was waiting with no live
\* task here needs a new one.
AnswerRoute(r) ==
  /\ starter[r].pc = "answering"
  /\ starter' = [starter EXCEPT ![r] =
       IF ~Live(r) /\ @.copy.status = "waiting" THEN [@ EXCEPT !.pc = "starting"] ELSE NoRequest]
  /\ UNCHANGED <<row, lease, asked, proc, flags, run, stopper, pauser>>

StartRun(r) ==
  /\ starter[r].pc = "starting"
  /\ run' = IF Live(r) THEN run
            ELSE [run EXCEPT ![r] = Started(starter[r].copy, starter[r].why)]
  /\ starter' = [starter EXCEPT ![r] = NoRequest]
  /\ UNCHANGED <<row, lease, asked, proc, flags, stopper, pauser>>

\* kill_agent on the agent of the task in flight.
Kill(r) ==
  /\ Up(r) /\ row.status \notin Terminal /\ "stopped" \notin flags[r]
  /\ run[r].pc \in Trying \ {"between"} /\ run[r].task # "none" /\ ~run[r].killed
  /\ flags' = [flags EXCEPT ![r] = @ \cup {"killed"}]
  /\ run' = [run EXCEPT ![r].killed = TRUE]
  /\ UNCHANGED <<row, lease, asked, proc, requests>>

------------------------------------------------------------------------------
(* Servers *)

\* lifespan up to its yield: resume_incomplete.
Boot(r) ==
  /\ proc[r] = "new"
  /\ \A s \in Runtimes : s < r => proc[s] # "new"
  /\ Cardinality({s \in Runtimes : proc[s] \in {"up", "stopping"}}) < MaxUp
  /\ proc' = [proc EXCEPT ![r] = "up"]
  /\ run' = IF row.status \in Resumable
            THEN [run EXCEPT ![r] = Started(row, "boot")] ELSE run
  /\ UNCHANGED <<row, lease, asked, flags, requests>>

\* suspend_all: requests have been answered by the time lifespan ends.
Shutdown(r) ==
  /\ Up(r)
  /\ stopper[r] = "none" /\ pauser[r].pc = "none" /\ starter[r].pc = "none"
  /\ proc' = [proc EXCEPT ![r] = "stopping"]
  /\ flags' = [flags EXCEPT ![r] = IF Live(r) THEN @ \cup {"suspending"} ELSE @]
  /\ run' = [run EXCEPT ![r].cancelled = Live(r)]
  /\ UNCHANGED <<row, lease, asked, requests>>

Exit(r) ==
  /\ proc[r] = "stopping" /\ ~Live(r)
  /\ proc' = [proc EXCEPT ![r] = "dead"]
  /\ UNCHANGED <<row, lease, asked, flags, run, requests>>

Crash(r) ==
  /\ proc[r] \in {"up", "stopping"}
  /\ proc' = [proc EXCEPT ![r] = "dead"]
  /\ run' = [run EXCEPT ![r] = NoRun]
  /\ stopper' = [stopper EXCEPT ![r] = "none"]
  /\ pauser' = [pauser EXCEPT ![r] = NoRequest]
  /\ starter' = [starter EXCEPT ![r] = NoRequest]
  /\ UNCHANGED <<row, lease, asked, flags>>

\* Sixty seconds after the claim.
LeaseExpires ==
  /\ lease.live
  /\ lease' = [lease EXCEPT !.live = FALSE]
  /\ UNCHANGED <<row, asked, proc, flags, run, requests>>

------------------------------------------------------------------------------

\* What run() does of itself.
RunStep(r) ==
  \/ LeaseConflict(r) \/ ClaimLease(r) \/ Hydrate(r) \/ Begin(r)
  \/ \E q \in Questions : ConsumeEarlier(r, q)
  \/ ParkAgain(r) \/ RecoverTasks(r)
  \/ Call(r) \/ Respond(r) \/ Ask(r) \/ HearAnswer(r) \/ Continue(r)
  \/ Delegate(r) \/ Dispatch(r) \/ BeginTask(r) \/ EndTask(r) \/ TasksDone(r)
  \/ \E status \in {"completed", "blocked"} : Conclude(r, status)
  \/ CheckFails(r) \/ Cancelled(r) \/ KillLands(r) \/ Finish(r) \/ Close(r) \/ Leave(r)

RequestBegins(r) ==
  \/ Create(r) \/ StopBegin(r) \/ PauseBegin(r) \/ PauseOffline(r)
  \/ ResumeBegin(r) \/ AnswerAccept(r) \/ Kill(r)

\* A request uses the copy of the row it has read.
UseCopy(r) == PauseCheckpoint(r) \/ AnswerRoute(r) \/ StartRun(r)

ServerStep(r) == Boot(r) \/ Shutdown(r) \/ Exit(r) \/ Crash(r)

CopyInUse == \E r \in Runtimes : pauser[r].pc = "checkpoint" \/ starter[r].pc # "none"

\* The pause of a mission that never began has no agent or task to close first,
\* hence no emit before its save.
PausesAtOnce == \E r \in Runtimes : pauser[r].pc = "checkpoint" /\ pauser[r].copy.status = "pending"

Next ==
  \/ \E r \in Runtimes : UseCopy(r)
  \/ /\ RequestsYield \/ ~CopyInUse
     /\ ~PausesAtOnce
     /\ \/ LeaseExpires
        \/ \E r \in Runtimes :
             \/ RunStep(r) \/ Fails(r)
             \/ RequestBegins(r) \/ StopJoined(r) \/ StopSweep(r) \/ PauseJoined(r)
             \/ ServerStep(r)

\* The event loop runs what can run, and the clock does.  Whether people make
\* requests, models answer with an error or servers die is not for us to say,
\* nor is the runtime limit needed for anything below.
Fairness ==
  /\ WF_vars(LeaseExpires)
  /\ \A r \in Runtimes :
       /\ WF_vars(RunStep(r))
       /\ WF_vars(UseCopy(r))
       /\ WF_vars(StopJoined(r))
       /\ WF_vars(StopSweep(r))
       /\ WF_vars(PauseJoined(r))
       /\ WF_vars(Exit(r))

Spec == Init /\ [][Next]_vars

FairSpec == Spec /\ Fairness

------------------------------------------------------------------------------
(* Properties *)

\* The row, every copy of it and every control variable have their types.
TypeOK ==
  /\ row \in Missions
  /\ lease \in Leases
  /\ asked \in Questions \cup {0}
  /\ proc \in [Runtimes -> {"new", "up", "stopping", "dead"}]
  /\ flags \in [Runtimes -> SUBSET {"stopped", "pausing", "suspending", "killed"}]
  /\ run \in [Runtimes -> Runs]
  /\ stopper \in [Runtimes -> {"none", "joining", "joined", "sweeping"}]
  /\ pauser \in [Runtimes -> Requests]
  /\ starter \in [Runtimes -> Requests]

\* No request, restart or late save ever revives or relabels a mission that is
\* over: "terminal missions are not resumed".
TerminalFinal ==
  [][row.status \in Terminal => row'.status = row.status]_vars

\* "Paused missions do not auto-resume after restart", and "answers while
\* user-paused stay paused until explicit resume": only a run that a resume
\* request has started takes a mission out of pause, and not to an end.
PausedUntilResume ==
  [][row.status = "paused" /\ row'.status # "paused" =>
       \/ row'.status = "stopped"
       \/ row'.status \in Resumable /\ \E r \in Runtimes :
            run[r].pc = "discovering" /\ run[r].why = "resume"]_vars

\* A mission is stopped because somebody stopped it or killed one of its agents;
\* shutdowns, crashes and restarts never turn into a stop.  (The flags of a dead
\* process, which no action reads, tell what it had been asked.)
StoppedOnlyOnRequest ==
  row.status = "stopped" => \E r \in Runtimes : flags[r] \cap {"stopped", "killed"} # {}

\* Once a mission is over nothing works on it, no model call, no tool, no task,
\* and a run that is still about to save it would save the same status.
QuietWhenTerminal ==
  row.status \in Terminal =>
    \A r \in Runtimes :
      /\ run[r].pc \notin Trying
      /\ run[r].pc = "closing" => run[r].mem.status = row.status

\* The question a run waits on is the one in the row, in a status in which
\* submit_answer takes the answer, or it has been answered already.
ParkedAnswerable ==
  \A r \in Runtimes : run[r].pc = "parked" =>
    \/ row.status = "waiting" /\ row.question = run[r].mem.question /\ row.question # 0
    \/ row.answers[run[r].mem.question] # "none"

\* An answer only advances, from accepted to consumed, and its question is never
\* open again, but for the three moments at which a run writes a copy of the row
\* that has the question open still: when it begins, after the discovery of the
\* tools; when it has ended and has closed its agents and tasks; and after the
\* agent that asked was killed while it waited.  No park, continuation, charge,
\* delegation, shutdown, pause, stop or restart ever undoes an answer.
AnswersUndoneOnlyByStaleRuns ==
  [][\A q \in Questions :
       row'.answers[q] # row.answers[q] /\ (row.answers[q] = "consumed" \/ row'.answers[q] = "none") =>
         \E r \in Runtimes : run[r].mem.question = q /\
           \/ run[r].pc = "discovering" /\ run'[r].pc = "resuming"
           \/ run[r].pc = "closing" /\ run'[r].pc = "leaving"
           \/ "killed" \in flags[r] /\ run'[r] # run[r]]_vars

\* A stop always takes effect, wherever run() is when it arrives.
StopTakesEffect ==
  \A r \in Runtimes :
    ("stopped" \in flags[r] /\ Up(r)) ~> (row.status \in Terminal \/ ~Up(r))

\* A pause request is always answered, without waiting for the runtime limit.
PauseIsAnswered ==
  \A r \in Runtimes : (pauser[r].pc = "joining") ~> (pauser[r].pc = "none")

\* "A matching POST /answers/{question_id} atomically accepts the answer": what
\* was accepted stays accepted.
AnswersKept ==
  [][\A q \in Questions : row.answers[q] # "none" => row'.answers[q] # "none"]_vars

\* "Unfinished missions resume when a configured runtime restarts."
RestartRecovers ==
  \A r \in Runtimes :
    (Up(r) /\ row.status \in Resumable)
      ~> (row.status \notin Resumable \/ ~Up(r) \/ run[r].pc \in Trying)

\* "Per-agent kill cancels that agent's in-flight work and lets the mission
\* continue": it takes a stop to stop the mission.
KillLetsMissionContinue ==
  row.status = "stopped" => \E r \in Runtimes : "stopped" \in flags[r]

==============================================================================
