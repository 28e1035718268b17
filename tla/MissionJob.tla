----------------------------- MODULE MissionJob -----------------------------
(***************************************************************************)
(* A specialist's task in a worker process: app/mission_jobs.py, and       *)
(* _execute_process_task, _refresh_process_task, _execute_task and the     *)
(* durable controls of app/runtime.py.                                     *)
(*                                                                         *)
(* The server's run() enqueues a job for the task and polls it.  A process *)
(* of the pool (a kid) claims the job, builds a runtime of its own from    *)
(* the rows and works; it learns of stop, pause and kill only by reading   *)
(* the database before it acts (check_agent).  Each of its reads and each  *)
(* of its saves is a step, and the server or another process may come in   *)
(* between; check_agent's reads are one.  Both sides save whole missions   *)
(* from the object they loaded.                                            *)
(*                                                                         *)
(* One mission with one specialist; each attempt at its work is a task.    *)
(* An operation on the queue or on a lease is one step and its time a flag *)
(* (WorkQueueTx and WorkerPool are about their reads and writes).  What    *)
(* happens inside run() is MissionRuntime's subject: here a request and    *)
(* run()'s answer to it are one step.                                      *)
(***************************************************************************)
EXTENDS Naturals, FiniteSets

CONSTANTS Kids,       \* processes of the pool
          Nobody,
          Dead,       \* the owner of what a process that died held
          Tasks,      \* attempts, 1..n
          MaxSpent,   \* the cost of a mission's model calls is counted up to here
          Scopes      \* bounds, see scope

ASSUME MissionJobAssumption ==
  /\ Nobody \notin Kids /\ Dead \notin Kids /\ Nobody # Dead
  /\ Tasks \subseteq Nat \ {0}
  /\ MaxSpent \in Nat
  /\ Scopes \subseteq [tasks : SUBSET Tasks, faults : Nat, disturbed : BOOLEAN]

VARIABLES scope,     \* the attempts made, how many kids die or stall, and whether others move
                     \* between a kid's read and the saves that rest on it
          prompt,    \* has no row changed there so far?
          mission,   \* the row: status, token_spent
          control,   \* the latest control event of the log, none if that is a resume
          agent,     \* the specialist's row
          slain,     \* is there an agent.killed event?
          task,      \* the rows of tasks
          job,       \* the work_items, each with the owner of its live lease
          lease,     \* the owners of the live task leases
          server,    \* run() and the objects it holds
          kid,       \* each process and the objects it holds
          faults

vars == <<scope, prompt, mission, control, agent, slain, task, job, lease, server, kid, faults>>

Ended == {"completed", "failed", "stopped"}
InFlight == {"pending", "running"}
TaskStatus == InFlight \cup Ended \cup {"absent", "blocked"}

Missions == [status : {"running", "waiting", "paused"} \cup Ended, spent : 0 .. MaxSpent]
AgentStatus == {"created", "running", "paused", "blocked"} \cup Ended
Holders == Kids \cup {Nobody, Dead}
Jobs == [status : {"absent", "pending", "claimed", "completed", "failed"}, owner : Holders]

\* "idle": the server is up and runs nothing; cur is the task being polled.
Servers == [pc : {"down", "idle", "dispatching", "deciding", "polling"},
            spent : 0 .. MaxSpent, cur : Tasks \cup {0}]

\* One more call.
PlusOne(spent) == IF spent < MaxSpent THEN spent + 1 ELSE spent

Resting(pc) == [pc |-> pc, spent |-> 0, cur |-> 0]

\* Where a process is in its handler, in the code's order.
Finding == {"mission", "task", "agent"}            \* _find_entities, three times over
Starting == {"agents", "tasks", "projected", "restoring", "entering", "leasing"}
Working == {"checking", "renewing", "beginning", "begun", "calling", "charging", "recording",
            "saving", "saved", "releasing"}
Ending == {"failing", "failed", "reporting"}

\* outcome: what the handler will have returned or raised.  agent, tasks: the rows as
\* hydrate() read them, left: those it has still to save.
Processes == [pc : {"free"} \cup Finding \cup Starting \cup Working \cup Ending,
              task : Tasks \cup {0}, status : {"running", "waiting"}, spent : 0 .. MaxSpent,
              outcome : {"none", "completed", "failed", "cancelled"},
              agent : AgentStatus, tasks : [Tasks -> TaskStatus], left : SUBSET Tasks]

Free == [pc |-> "free", task |-> 0, status |-> "running", spent |-> 0, outcome |-> "none",
         agent |-> "created", tasks |-> [t \in Tasks |-> "absent"], left |-> {}]

NoJob == [status |-> "absent", owner |-> Nobody]

Init ==
  /\ scope \in Scopes
  /\ prompt = TRUE
  /\ mission = [status |-> "running", spent |-> 0]
  /\ control = "none"
  /\ agent = "created"
  /\ slain = FALSE
  /\ task = [t \in Tasks |-> "absent"]
  /\ job = [t \in Tasks |-> NoJob]
  /\ lease = [t \in Tasks |-> Nobody]
  /\ server = [pc |-> "dispatching", spent |-> 0, cur |-> 0]
  /\ kid = [k \in Kids |-> Free]
  /\ faults = 0

Rows == <<mission, control, agent, slain, task>>

------------------------------------------------------------------------------
\* The server.

Cur == server.cur

\* Tasks the server holds as unfinished; it does not see what a kid has saved.
StopTask == task' = IF Cur = 0 THEN task ELSE [task EXCEPT ![Cur] = "stopped"]

\* run() dispatches the next attempt: assign, save WAITING, enqueue.
Dispatch(t) ==
  /\ server.pc = "dispatching"
  /\ agent \in {"created", "running"}
  /\ t \in scope.tasks /\ task[t] = "absent" /\ \A u \in Tasks : u < t => task[u] # "absent"
  /\ task' = [task EXCEPT ![t] = "pending"]
  /\ job' = [job EXCEPT ![t].status = "pending"]
  /\ mission' = [status |-> "waiting", spent |-> server.spent]
  /\ server' = [server EXCEPT !.pc = "polling", !.cur = t]
  /\ UNCHANGED <<control, agent, slain, lease, kid, faults>>

\* Nobody is left to work.
NothingToDispatch ==
  /\ server.pc = "dispatching"
  /\ agent \notin {"created", "running"}
  /\ server' = [server EXCEPT !.pc = "deciding"]
  /\ UNCHANGED <<Rows, job, lease, kid, faults>>

JobEnded == job[Cur].status \in {"completed", "failed"}

\* The job's result is what the task says, unless the task was rewritten since.
ResultAccepted == job[Cur].status = "completed" /\ task[Cur] \in {"completed", "blocked"}

\* The loop of _execute_process_task sees the job's end: task and agent are read
\* again, the mission is not.
PollDone ==
  /\ server.pc = "polling" /\ JobEnded /\ ResultAccepted
  /\ mission' = [status |-> "running", spent |-> server.spent]
  /\ server' = [server EXCEPT !.pc = "deciding", !.cur = 0]
  /\ UNCHANGED <<control, agent, slain, task, job, lease, kid, faults>>

\* run() ends the mission with its object and what it knows of tasks and agents.
Finish(status, unfinished) ==
  /\ mission' = [status |-> status, spent |-> server.spent]
  /\ control' = status
  /\ server' = Resting("idle")
  /\ task' = IF Cur # 0 /\ task[Cur] \in InFlight THEN [task EXCEPT ![Cur] = unfinished] ELSE task
  /\ agent' = IF agent \in {"created", "running"} THEN unfinished ELSE agent
  /\ UNCHANGED <<slain, job, lease, kid, faults>>

PollFailed ==
  /\ server.pc = "polling" /\ JobEnded /\ ~ResultAccepted
  /\ Finish("failed", "failed")

\* A controller call is charged to the server's own object.
Decide ==
  /\ server.pc = "deciding"
  /\ server' = [server EXCEPT !.spent = PlusOne(@)]
  /\ mission' = [mission EXCEPT !.spent = PlusOne(server.spent)]
  /\ UNCHANGED <<control, agent, slain, task, job, lease, kid, faults>>

Conclude == server.pc = "deciding" /\ \E s \in {"completed", "failed"} : Finish(s, "failed")

\* stop() of a mission that runs; of one that is paused.
Stop ==
  /\ server.pc \in {"dispatching", "deciding", "polling"}
  /\ StopTask
  /\ agent' = IF agent \in {"created", "running"} \/ Cur # 0 THEN "stopped" ELSE agent
  /\ mission' = [status |-> "stopped", spent |-> server.spent]
  /\ control' = "stopped"
  /\ server' = Resting("idle")
  /\ UNCHANGED <<slain, job, lease, kid, faults>>

StopPaused ==
  /\ server.pc = "idle" /\ mission.status = "paused"
  /\ agent' = IF agent \in {"created", "running", "paused"} THEN "stopped" ELSE agent
  /\ mission' = [mission EXCEPT !.status = "stopped"]
  /\ control' = "stopped"
  /\ UNCHANGED <<slain, task, job, lease, server, kid, faults>>

\* pause(): the checkpoint stops the task, and the attempt is made again on resume.
Pause ==
  /\ server.pc \in {"dispatching", "deciding", "polling"}
  /\ StopTask
  /\ agent' = IF agent \in {"created", "running"} \/ Cur # 0 THEN "paused" ELSE agent
  /\ mission' = [status |-> "paused", spent |-> server.spent]
  /\ control' = "paused"
  /\ server' = Resting("idle")
  /\ UNCHANGED <<slain, job, lease, kid, faults>>

\* The start of run() on a mission that has agents: attempts in flight are stopped
\* and will be made again.
Recover ==
  LET cutShort == \E t \in Tasks : task[t] \in InFlight
  IN  /\ mission' = [mission EXCEPT !.status = "running"]
      /\ control' = "none"
      /\ task' = [t \in Tasks |-> IF task[t] \in InFlight THEN "stopped" ELSE task[t]]
      /\ agent' = IF cutShort \/ agent = "paused" THEN "created" ELSE agent
      /\ server' = [pc |-> "dispatching", spent |-> mission.spent, cur |-> 0]
      /\ UNCHANGED <<slain, job, lease, kid, faults>>

Resume == server.pc = "idle" /\ mission.status = "paused" /\ Recover

\* resume_incomplete().
Boot ==
  /\ server.pc = "down"
  /\ IF mission.status \in {"running", "waiting"}
     THEN Recover
     ELSE server' = Resting("idle") /\ UNCHANGED <<Rows, job, lease, kid, faults>>

\* kill_agent() cancels the polling coroutine, which does not swallow the
\* cancellation as _execute_task does: run() takes it for a stop.
Kill ==
  /\ server.pc = "polling" /\ ~slain
  /\ task' = [task EXCEPT ![Cur] = "stopped"]
  /\ agent' = "stopped"
  /\ slain' = TRUE
  /\ mission' = [status |-> "stopped", spent |-> server.spent]
  /\ control' = "stopped"
  /\ server' = Resting("idle")
  /\ UNCHANGED <<job, lease, kid, faults>>

\* The lifespan's end: suspend_all(), then the pool's processes are ended.
Shutdown ==
  LET Outlived(owner) == IF owner = Nobody THEN Nobody ELSE Dead
  IN
  /\ server.pc # "down"
  /\ mission' = IF server.pc = "idle" THEN mission
                ELSE [status |-> IF server.pc = "polling" THEN "waiting" ELSE "running",
                      spent |-> server.spent]
  /\ server' = Resting("down")
  /\ kid' = [k \in Kids |-> Free]
  /\ job' = [t \in Tasks |-> [job[t] EXCEPT !.owner = Outlived(@)]]
  /\ lease' = [t \in Tasks |-> Outlived(lease[t])]
  /\ UNCHANGED <<control, agent, slain, task, faults>>

\* The server's process dies; the pool's processes do not.
Crash ==
  /\ server.pc # "down"
  /\ server' = Resting("down")
  /\ UNCHANGED <<Rows, job, lease, kid, faults>>

------------------------------------------------------------------------------
\* A process of the pool.

\* Faulty: only what this process was told itself.
MayGoOnUntold(k) == ~slain

\* Faulty: the attempt itself is not looked at.
MayGoOnAnyTask(k) ==
  /\ control \notin Ended \cup {"paused"}
  /\ mission.status \notin Ended \cup {"paused"}
  /\ ~slain
  /\ agent \notin Ended \cup {"paused"}

\* check_agent() with durable_controls: may the kid go on?
MayGoOn(k) ==
  /\ control \notin Ended \cup {"paused"}
  /\ mission.status \notin Ended \cup {"paused"}
  /\ ~slain
  /\ agent \notin Ended \cup {"paused"}
  /\ task[kid[k].task] \in InFlight

\* Faulty: only a live lease keeps a process away.
ClaimableIfPending(t) == job[t].status = "pending"

Claimable(t) == job[t].status \in {"pending", "claimed"} /\ job[t].owner = Nobody

\* What a step makes of kid k: where it goes on, or how its handler will have ended.
Becomes(k, process) == kid' = [kid EXCEPT ![k] = process]

Goes(k, pc) == Becomes(k, [kid[k] EXCEPT !.pc = pc])

Ends(k, pc, outcome) == Becomes(k, [kid[k] EXCEPT !.pc = pc, !.outcome = outcome])

\* The kid claims a job.
Claim(k, t) ==
  /\ kid[k].pc = "free" /\ Claimable(t)
  /\ job' = [job EXCEPT ![t] = [status |-> "claimed", owner |-> k]]
  /\ Becomes(k, [Free EXCEPT !.pc = "mission", !.task = t])
  /\ UNCHANGED <<Rows, lease, server, faults>>

\* Before it works the kid wants all three runnable.
Runnable(k) ==
  CASE kid[k].pc = "mission" -> mission.status \in {"running", "waiting"}
    [] kid[k].pc = "task"    -> task[kid[k].task] \in InFlight
    [] kid[k].pc = "agent"   -> agent \in {"created", "running"}

\* Faulty: a failure is recorded over a result.
MayFailAlways(k) == TRUE

\* _record_task_failure: nothing is recorded over a control or a result.
MayFail(k) ==
  CASE kid[k].pc = "mission" -> mission.status \notin Ended \cup {"paused"}
    [] kid[k].pc = "task"    -> task[kid[k].task] \notin {"stopped", "completed", "blocked"}
    [] kid[k].pc = "agent"   -> agent \notin Ended \cup {"paused"}

\* After its work the kid wants the result to be there.
Confirmed(k) == kid[k].pc = "task" => task[kid[k].task] \in {"completed", "blocked"}

Wanted(k) ==
  CASE kid[k].outcome = "none"      -> Runnable(k)
    [] kid[k].outcome = "failed"    -> MayFail(k)
    [] kid[k].outcome = "completed" -> Confirmed(k)

\* What follows the three reads.
Found(outcome) ==
  CASE outcome = "none" -> "agents" [] outcome = "failed" -> "failing"
    [] outcome = "completed" -> "reporting"

\* _find_entities reads mission, task and agent one after the other; a kid that does not
\* find what it wants raises, or has nothing to record.
FindEntity(k) ==
  LET pc == kid[k].pc
      next == CASE pc = "mission" -> "task" [] pc = "task" -> "agent"
                [] pc = "agent" -> Found(kid[k].outcome)
  IN  /\ pc \in Finding
      /\ IF ~Wanted(k)
         THEN Ends(k, "reporting", "failed")
         ELSE IF pc = "mission" /\ kid[k].outcome = "none"
         THEN Becomes(k, [kid[k] EXCEPT !.pc = next, !.status = mission.status,
                                        !.spent = mission.spent])
         ELSE Goes(k, next)
      /\ UNCHANGED <<Rows, job, lease, server, faults>>

\* hydrate() reads the agents, then the tasks,
Project(k) ==
  /\ \/ kid[k].pc = "agents"
        /\ Becomes(k, [kid[k] EXCEPT !.pc = "tasks", !.agent = agent])
     \/ kid[k].pc = "tasks"
        /\ Becomes(k, [kid[k] EXCEPT !.pc = "projected", !.tasks = task,
                                      !.left = {t \in Tasks : task[t] # "absent"}])
  /\ UNCHANGED <<Rows, job, lease, server, faults>>

\* and saves them all again as it read them.
RestoreAgent(k) ==
  /\ kid[k].pc = "projected"
  /\ agent' = kid[k].agent
  /\ Becomes(k, [kid[k] EXCEPT !.pc = "restoring", !.agent = "created"])
  /\ UNCHANGED <<mission, control, slain, task, job, lease, server, faults>>

RestoreTask(k, t) ==
  LET left == kid[k].left \ {t}
  IN  /\ kid[k].pc = "restoring"
      /\ t \in kid[k].left /\ \A u \in left : t <= u
      /\ task' = [task EXCEPT ![t] = kid[k].tasks[t]]
      /\ IF left # {} THEN Becomes(k, [kid[k] EXCEPT !.left = left])
         ELSE Becomes(k, [kid[k] EXCEPT !.pc = "entering", !.left = {}, !.tasks = Free.tasks])
      /\ UNCHANGED <<mission, control, agent, slain, job, lease, server, faults>>

\* What check_agent() guards, and what follows where it raises nothing.
AfterCheck == [entering |-> "leasing", checking |-> "renewing", calling |-> "charging",
               recording |-> "saving"]

\* The check passes (where the kid calls a model, after the call has returned).
Check(k) ==
  /\ kid[k].pc \in DOMAIN AfterCheck /\ MayGoOn(k)
  /\ Goes(k, AfterCheck[kid[k].pc])
  /\ UNCHANGED <<Rows, job, lease, server, faults>>

\* The check raises CancelledError or PauseRequested, recorded nowhere but in the job.
Controlled(k) ==
  /\ kid[k].pc \in DOMAIN AfterCheck /\ ~MayGoOn(k)
  /\ Ends(k, IF kid[k].pc = "entering" THEN "reporting" ELSE "releasing", "cancelled")
  /\ UNCHANGED <<Rows, job, lease, server, faults>>

\* claim_work, by a runtime that has claimed nothing before.
LeaseTask(k) ==
  /\ kid[k].pc = "leasing" /\ lease[kid[k].task] = Nobody
  /\ lease' = [lease EXCEPT ![kid[k].task] = k]
  /\ Goes(k, "checking")
  /\ UNCHANGED <<Rows, job, server, faults>>

\* The task is still leased by a process that lost the job, or died.
TaskLeased(k) ==
  /\ kid[k].pc = "leasing" /\ lease[kid[k].task] # Nobody
  /\ Ends(k, "mission", "failed")
  /\ UNCHANGED <<Rows, job, lease, server, faults>>

\* renew_work.
Renew(k) ==
  /\ kid[k].pc = "renewing"
  /\ IF lease[kid[k].task] = k THEN Goes(k, "beginning") ELSE Ends(k, "releasing", "failed")
  /\ UNCHANGED <<Rows, job, lease, server, faults>>

\* The task is RUNNING, then the agent.
BeginTask(k) ==
  /\ kid[k].pc = "beginning"
  /\ task' = [task EXCEPT ![kid[k].task] = "running"]
  /\ Goes(k, "begun")
  /\ UNCHANGED <<mission, control, agent, slain, job, lease, server, faults>>

BeginAgent(k) ==
  /\ kid[k].pc = "begun"
  /\ agent' = "running"
  /\ Goes(k, "calling")
  /\ UNCHANGED <<mission, control, slain, task, job, lease, server, faults>>

\* A call or a tool fails.
WorkFails(k) ==
  /\ kid[k].pc = "calling"
  /\ Ends(k, "releasing", "failed")
  /\ UNCHANGED <<Rows, job, lease, server, faults>>

\* _account_tokens saves the whole mission as the kid has it; more calls may follow.
Charge(k) ==
  /\ kid[k].pc = "charging"
  /\ mission' = [status |-> kid[k].status, spent |-> PlusOne(kid[k].spent)]
  /\ \E pc \in {"calling", "recording"} :
       Becomes(k, [kid[k] EXCEPT !.pc = pc, !.spent = PlusOne(kid[k].spent)])
  /\ UNCHANGED <<control, agent, slain, task, job, lease, server, faults>>

\* The result is saved under the lock of the kid's own runtime, task and agent in turn.
SaveTask(k) ==
  /\ kid[k].pc = "saving"
  /\ \E end \in {"completed", "blocked"} :
       /\ task' = [task EXCEPT ![kid[k].task] = end]
       /\ Becomes(k, [kid[k] EXCEPT !.pc = "saved", !.agent = end])
  /\ UNCHANGED <<mission, control, agent, slain, job, lease, server, faults>>

SaveAgent(k) ==
  /\ kid[k].pc = "saved"
  /\ agent' = kid[k].agent
  /\ Becomes(k, [kid[k] EXCEPT !.pc = "releasing", !.outcome = "completed",
                                !.agent = "created"])
  /\ UNCHANGED <<mission, control, slain, task, job, lease, server, faults>>

\* release_work; then a result is confirmed, a failure recorded, a control only reported.
Release(k) ==
  /\ kid[k].pc = "releasing"
  /\ lease' = [lease EXCEPT ![kid[k].task] = IF @ = k THEN Nobody ELSE @]
  /\ Goes(k, IF kid[k].outcome = "cancelled" THEN "reporting" ELSE "mission")
  /\ UNCHANGED <<Rows, job, server, faults>>

\* The failure is recorded, in the task and in the agent.
FailTask(k) ==
  /\ kid[k].pc = "failing"
  /\ task' = [task EXCEPT ![kid[k].task] = "failed"]
  /\ Goes(k, "failed")
  /\ UNCHANGED <<mission, control, agent, slain, job, lease, server, faults>>

FailAgent(k) ==
  /\ kid[k].pc = "failed"
  /\ agent' = "failed"
  /\ Goes(k, "reporting")
  /\ UNCHANGED <<mission, control, slain, task, job, lease, server, faults>>

\* queue.complete() and queue.fail() accept the live owner only.
Report(k) ==
  LET t == kid[k].task
      status == IF kid[k].outcome = "completed" THEN "completed" ELSE "failed"
  IN  /\ kid[k].pc = "reporting"
      /\ job' = IF job[t].owner = k THEN [job EXCEPT ![t] = [NoJob EXCEPT !.status = status]]
                ELSE job
      /\ Becomes(k, Free)
      /\ UNCHANGED <<Rows, lease, server, faults>>

\* A process dies and is replaced when the pool is started again.
Die(k) ==
  /\ faults < scope.faults /\ kid[k].pc # "free"
  /\ Becomes(k, Free)
  /\ job' = [t \in Tasks |-> [job[t] EXCEPT !.owner = IF @ = k THEN Dead ELSE @]]
  /\ lease' = [t \in Tasks |-> IF lease[t] = k THEN Dead ELSE lease[t]]
  /\ faults' = faults + 1
  /\ UNCHANGED <<Rows, server>>

Lapses(t) == job' = [job EXCEPT ![t].owner = Nobody]

\* A dead process's job lapses in time.
LapseJob(t) ==
  /\ job[t].owner = Dead /\ Lapses(t)
  /\ UNCHANGED <<Rows, lease, server, kid, faults>>

\* The heartbeat of a live one is late.
Stall(t) ==
  /\ faults < scope.faults
  /\ job[t].owner \in Kids /\ Lapses(t)
  /\ faults' = faults + 1
  /\ UNCHANGED <<Rows, lease, server, kid>>

\* Task leases are renewed once and then run out whatever their holder does.
LapseTaskLease(t) ==
  /\ lease[t] # Nobody
  /\ lease' = [lease EXCEPT ![t] = Nobody]
  /\ UNCHANGED <<Rows, job, server, kid, faults>>

------------------------------------------------------------------------------

KidStep(k) ==
  \/ FindEntity(k) \/ Project(k) \/ RestoreAgent(k)
  \/ \E t \in Tasks : RestoreTask(k, t)
  \/ Check(k) \/ Controlled(k) \/ LeaseTask(k) \/ TaskLeased(k) \/ Renew(k)
  \/ BeginTask(k) \/ BeginAgent(k) \/ WorkFails(k) \/ Charge(k) \/ SaveTask(k) \/ SaveAgent(k)
  \/ Release(k) \/ FailTask(k) \/ FailAgent(k) \/ Report(k)

\* The kid has read what its next saves rest on.
Relying(k) ==
  \/ kid[k].pc \in {"tasks", "projected", "restoring", "renewing", "beginning", "begun",
                    "charging", "saving", "saved", "failing", "failed"}
  \/ kid[k].pc \in {"task", "agent"} /\ kid[k].outcome = "failed"

\* Where scope says so, nobody else moves while a kid relies on what it read; prompt tells
\* whether a row has changed there.
Watched(others) ==
  LET alone == \A k \in others : ~Relying(k)
  IN  /\ alone \/ scope.disturbed
      /\ prompt' = (prompt /\ (alone \/ UNCHANGED Rows))
      /\ scope' = scope

KidTurn(k) == KidStep(k) /\ Watched(Kids \ {k})

Claims == (\E k \in Kids, t \in Tasks : Claim(k, t)) /\ Watched(Kids)

Polls == (PollDone \/ PollFailed) /\ Watched(Kids)

ServerStep ==
  \/ \E t \in Tasks : Dispatch(t)
  \/ NothingToDispatch \/ PollDone \/ PollFailed \/ Decide \/ Conclude
  \/ Stop \/ StopPaused \/ Pause \/ Resume \/ Boot \/ Kill \/ Shutdown \/ Crash

Accident ==
  \/ \E t \in Tasks : LapseJob(t) \/ Stall(t) \/ LapseTaskLease(t)
  \/ \E k \in Kids : Die(k)

Next ==
  \/ \E k \in Kids : KidTurn(k)
  \/ Claims
  \/ ServerStep /\ Watched(Kids)
  \/ Accident /\ Watched(Kids)

Spec == Init /\ [][Next]_vars

\* The calls of a task come to an end, in a result or a failure.
LastCall(k) ==
  /\ kid[k].pc \in {"calling", "charging"}
  /\ KidTurn(k)
  /\ kid'[k].pc \notin {"calling", "charging"}

\* Processes run, and a task's calls are limited; an idle process takes what it can
\* claim, leases of the dead run out, and the server polls.
FairSpec ==
  /\ Spec
  /\ \A k \in Kids : WF_vars(KidTurn(k)) /\ SF_vars(LastCall(k))
  /\ WF_vars(Claims) /\ WF_vars(Polls)
  /\ \A t \in Tasks : WF_vars(LapseJob(t) /\ Watched(Kids))

------------------------------------------------------------------------------

TypeOK ==
  /\ scope \in Scopes /\ prompt \in BOOLEAN
  /\ mission \in Missions
  /\ control \in {"none", "paused"} \cup Ended
  /\ agent \in AgentStatus
  /\ slain \in BOOLEAN
  /\ task \in [Tasks -> TaskStatus]
  /\ job \in [Tasks -> Jobs]
  /\ lease \in [Tasks -> Holders]
  /\ server \in Servers
  /\ kid \in [Kids -> Processes]
  /\ faults \in 0 .. scope.faults

\* Until a row changes between a process's read and the saves that rest on it, a stop, a
\* failure or a completion is final, and a pause ends only by a resume or a stop, whatever
\* the process goes on to save (mission_jobs.py:165).
ControlsHold ==
  [][prompt' =>
       /\ mission.status \in Ended => mission'.status = mission.status
       /\ mission.status = "paused" /\ mission'.status # "paused" =>
            control' \in {"none", "stopped"} ]_vars

\* Until then, an attempt that was stopped, by a person or a restart, never gets a result.
StoppedAttemptsStay ==
  [][prompt' => \A t \in Tasks : task[t] = "stopped" => task'[t] = "stopped"]_vars

\* A completed job's task has its result, or was stopped since.
JobsFinished ==
  \A t \in Tasks :
    job[t].status = "completed" => task[t] \in {"completed", "blocked", "stopped"}

\* Until then, so it is, whoever else still works on the task; the run goes on after a poll
\* only on a result (runtime.py:1395).
CompletedJobsFinished == prompt => JobsFinished

\* What the calls of a mission cost is never forgotten (runtime.py:903).
SpendingKept == [][mission'.spent >= mission.spent]_vars

\* Killing a specialist leaves the mission running.
KillSparesMission == [][~slain /\ slain' => mission'.status = mission.status]_vars

\* The server does not poll a job for ever, though processes die or lose their leases.
PollingEnds == server.pc = "polling" ~> server.pc # "polling"
=============================================================================
