-------------------------- MODULE MissionJob_proofs --------------------------
(***************************************************************************)
(* Proofs about MissionJob, for any number of worker processes, attempts,  *)
(* deaths and stalls, and any cost.                                        *)
(***************************************************************************)
EXTENDS MissionJob, TLAPS

-----------------------------------------------------------------------------
(* Type correctness *)

\* What a process holds fits the place where it is.
KidShaped(k) ==
  /\ kid[k].pc # "free" => kid[k].task \in Tasks
  /\ kid[k].pc \in Finding => kid[k].outcome \in {"none", "failed", "completed"}
  /\ kid[k].pc \in {"failing", "failed"} => kid[k].outcome = "failed"

KidsShaped == \A k \in Kids : KidShaped(k)

Places == {"free"} \cup Finding \cup Starting \cup Working \cup Ending

LEMMA SpentTypes == \A n \in 0 .. MaxSpent : PlusOne(n) \in 0 .. MaxSpent
  BY MissionJobAssumption DEF PlusOne

LEMMA ZeroSpent == 0 \in 0 .. MaxSpent
  BY MissionJobAssumption

LEMMA FreeTypes == Free \in Processes
<1>1. [t \in Tasks |-> "absent"] \in [Tasks -> TaskStatus]
  BY DEF TaskStatus
<1>2. "created" \in AgentStatus
  BY DEF AgentStatus
<1> QED BY <1>1, <1>2, ZeroSpent DEF Free, Processes

LEMMA ScopeTypes == ASSUME NEW s \in Scopes PROVE s.faults \in Nat
  BY MissionJobAssumption

LEMMA TypeInit == Init => TypeOK
<1> SUFFICES ASSUME Init PROVE TypeOK
  OBVIOUS
<1>1. scope \in Scopes /\ prompt \in BOOLEAN /\ faults = 0
  BY DEF Init
<1>2. faults \in 0 .. scope.faults
  BY <1>1, ScopeTypes
<1>3. mission \in Missions /\ server \in Servers
  BY ZeroSpent DEF Init, Missions, Servers
<1>4. task \in [Tasks -> TaskStatus] /\ agent \in AgentStatus /\ lease \in [Tasks -> Holders]
  BY DEF Init, TaskStatus, AgentStatus, Holders
<1>5. NoJob \in Jobs
  BY DEF NoJob, Jobs, Holders
<1>6. job \in [Tasks -> Jobs] /\ kid \in [Kids -> Processes]
  BY <1>5, FreeTypes DEF Init
<1> QED BY <1>1, <1>2, <1>3, <1>4, <1>6 DEF Init, TypeOK

\* The bounds stay as they are, and what was disturbed once stays so.
LEMMA WatchedTypes ==
  ASSUME TypeOK, NEW others, Watched(others)
  PROVE  scope' = scope /\ prompt' \in BOOLEAN /\ (prompt' => prompt)
  BY DEF Watched, TypeOK

\* A task that the server lets go is stopped.
LEMMA StopTaskTypes == ASSUME TypeOK, StopTask PROVE task' \in [Tasks -> TaskStatus]
  BY DEF TypeOK, StopTask, Cur, Servers, TaskStatus, InFlight, Ended

\* The recovery that a resume and a boot share.
LEMMA RecoverTypes ==
  ASSUME TypeOK, Recover, scope' = scope, prompt' \in BOOLEAN
  PROVE  TypeOK'
<1>1. mission' \in Missions
  BY DEF TypeOK, Recover, Missions
<1>2. server' \in Servers
  BY DEF TypeOK, Recover, Servers, Missions
<1>3. task' \in [Tasks -> TaskStatus]
  BY DEF TypeOK, Recover, TaskStatus, InFlight, Ended
<1>4. agent' \in AgentStatus
  BY DEF TypeOK, Recover, AgentStatus
<1> QED BY <1>1, <1>2, <1>3, <1>4 DEF TypeOK, Recover

LEMMA FinishTypes ==
  ASSUME TypeOK, NEW s \in Ended, NEW u \in Ended, Finish(s, u),
         scope' = scope, prompt' \in BOOLEAN
  PROVE  TypeOK'
<1>1. mission' \in Missions
  BY DEF TypeOK, Finish, Missions, Servers
<1>2. server' \in Servers
  BY ZeroSpent DEF TypeOK, Finish, Resting, Servers
<1>3. task' \in [Tasks -> TaskStatus]
  BY DEF TypeOK, Finish, TaskStatus, Cur, Servers
<1>4. agent' \in AgentStatus
  BY DEF TypeOK, Finish, AgentStatus
<1> QED BY <1>1, <1>2, <1>3, <1>4 DEF TypeOK, Finish

\* The server's steps.
LEMMA ServerTypes ==
  ASSUME TypeOK, ServerStep, scope' = scope, prompt' \in BOOLEAN
  PROVE  TypeOK'
<1>0. /\ mission.spent \in 0 .. MaxSpent /\ server.spent \in 0 .. MaxSpent
      /\ mission.status \in {"running", "waiting", "paused"} \cup Ended
      /\ Resting("idle") \in Servers /\ Resting("down") \in Servers
  BY ZeroSpent DEF TypeOK, Missions, Servers, Resting
<1>1. ASSUME NEW t \in Tasks, Dispatch(t) PROVE TypeOK'
  <2>1. mission' \in Missions
    BY <1>0, <1>1 DEF Dispatch, Missions
  <2>2. server' \in Servers
    BY <1>1 DEF TypeOK, Dispatch, Servers
  <2>3. task' \in [Tasks -> TaskStatus] /\ job' \in [Tasks -> Jobs]
    BY <1>1 DEF TypeOK, Dispatch, TaskStatus, InFlight, Jobs
  <2> QED BY <1>1, <2>1, <2>2, <2>3 DEF TypeOK, Dispatch
<1>2. CASE NothingToDispatch
  <2>1. server' \in Servers
    BY <1>2 DEF TypeOK, NothingToDispatch, Servers
  <2> QED BY <1>2, <2>1 DEF TypeOK, NothingToDispatch, Rows
<1>3. CASE PollDone
  <2>1. mission' \in Missions
    BY <1>0, <1>3 DEF PollDone, Missions
  <2>2. server' \in Servers
    BY <1>3 DEF TypeOK, PollDone, Servers
  <2> QED BY <1>3, <2>1, <2>2 DEF TypeOK, PollDone
<1>4. CASE PollFailed \/ Conclude
  BY <1>4, FinishTypes DEF PollFailed, Conclude, Ended
<1>5. CASE Decide
  <2>1. PlusOne(server.spent) \in 0 .. MaxSpent
    BY <1>0, SpentTypes
  <2>2. mission' \in Missions
    BY <1>5, <2>1 DEF TypeOK, Decide, Missions
  <2>3. server' \in Servers
    BY <1>5, <2>1 DEF TypeOK, Decide, Servers
  <2> QED BY <1>5, <2>2, <2>3 DEF TypeOK, Decide
<1>6. CASE Stop
  <2>1. mission' \in Missions /\ agent' \in AgentStatus
    BY <1>0, <1>6 DEF TypeOK, Stop, Missions, AgentStatus, Ended
  <2> QED BY <1>0, <1>6, <2>1, StopTaskTypes DEF TypeOK, Stop, Ended
<1>7. CASE StopPaused
  <2>1. mission' \in Missions /\ agent' \in AgentStatus
    BY <1>7 DEF TypeOK, StopPaused, Missions, AgentStatus, Ended
  <2> QED BY <1>7, <2>1 DEF TypeOK, StopPaused, Ended
<1>8. CASE Pause
  <2>1. mission' \in Missions /\ agent' \in AgentStatus
    BY <1>0, <1>8 DEF TypeOK, Pause, Missions, AgentStatus
  <2> QED BY <1>0, <1>8, <2>1, StopTaskTypes DEF TypeOK, Pause
<1>9. CASE Resume
  BY <1>9, RecoverTypes DEF Resume
<1>10. CASE Boot
  <2>1. CASE mission.status \in {"running", "waiting"}
    BY <1>10, <2>1, RecoverTypes DEF Boot
  <2>2. CASE mission.status \notin {"running", "waiting"}
    BY <1>0, <1>10, <2>2 DEF Boot, TypeOK, Rows
  <2> QED BY <2>1, <2>2
<1>11. CASE Kill
  <2>1. mission' \in Missions /\ agent' \in AgentStatus
    BY <1>0, <1>11 DEF TypeOK, Kill, Missions, AgentStatus, Ended
  <2>2. task' \in [Tasks -> TaskStatus]
    BY <1>11 DEF TypeOK, Kill, TaskStatus, Ended
  <2> QED BY <1>0, <1>11, <2>1, <2>2 DEF TypeOK, Kill, Ended
<1>12. CASE Shutdown
  <2>1. mission' \in Missions
    BY <1>0, <1>12 DEF TypeOK, Shutdown, Missions
  <2>2. kid' \in [Kids -> Processes]
    BY <1>12, FreeTypes DEF Shutdown
  <2>3. job' \in [Tasks -> Jobs] /\ lease' \in [Tasks -> Holders]
    BY <1>12 DEF Shutdown, TypeOK, Jobs, Holders
  <2> QED BY <1>0, <1>12, <2>1, <2>2, <2>3 DEF TypeOK, Shutdown
<1>13. CASE Crash
  BY <1>0, <1>13 DEF TypeOK, Crash, Rows
<1> QED BY <1>1, <1>2, <1>3, <1>4, <1>5, <1>6, <1>7, <1>8, <1>9, <1>10, <1>11, <1>12, <1>13
    DEF ServerStep

-----------------------------------------------------------------------------
(* A process's steps *)

\* Where a process stands after a step, and the others.
Moved(k, p) ==
  kid' \in [Kids -> Processes] /\ kid'[k] = p /\ \A l \in Kids \ {k} : kid'[l] = kid[l]

LEMMA Moves ==
  ASSUME TypeOK, NEW k \in Kids, NEW p \in Processes, Becomes(k, p)
  PROVE  Moved(k, p)
  BY DEF Becomes, Moved, TypeOK

\* Steps that change nothing of what a process holds.
LEMMA GoesTo ==
  ASSUME TypeOK, NEW k \in Kids, NEW pc \in Places, Goes(k, pc)
  PROVE  /\ Moved(k, kid'[k])
         /\ kid'[k].pc = pc /\ kid'[k].task = kid[k].task /\ kid'[k].outcome = kid[k].outcome
         /\ kid'[k].agent = kid[k].agent /\ kid'[k].tasks = kid[k].tasks
         /\ kid'[k].left = kid[k].left
<1> DEFINE p == [kid[k] EXCEPT !.pc = pc]
<1>1. kid[k] \in Processes
  BY DEF TypeOK
<1>2. p \in Processes
  BY <1>1 DEF Processes, Places
<1>3. Becomes(k, p)
  BY DEF Goes
<1>4. Moved(k, p)
  BY <1>2, <1>3, Moves
<1>5. /\ p.pc = pc /\ p.task = kid[k].task /\ p.outcome = kid[k].outcome
      /\ p.agent = kid[k].agent /\ p.tasks = kid[k].tasks /\ p.left = kid[k].left
  BY <1>1 DEF Processes
<1>6. kid'[k] = p
  BY <1>4 DEF Moved
<1> HIDE DEF p
<1> QED BY <1>4, <1>5, <1>6

\* Steps that settle how the handler ends, and where they lead.
LEMMA EndsAt ==
  ASSUME TypeOK, NEW k \in Kids, NEW pc \in Places,
         NEW outcome \in {"none", "completed", "failed", "cancelled"}, Ends(k, pc, outcome)
  PROVE  /\ Moved(k, kid'[k])
         /\ kid'[k].pc = pc /\ kid'[k].task = kid[k].task /\ kid'[k].outcome = outcome
<1> DEFINE p == [kid[k] EXCEPT !.pc = pc, !.outcome = outcome]
<1>1. kid[k] \in Processes
  BY DEF TypeOK
<1>2. p \in Processes
  BY <1>1 DEF Processes, Places
<1>3. Moved(k, p)
  BY <1>2, Moves DEF Ends
<1>4. p.pc = pc /\ p.task = kid[k].task /\ p.outcome = outcome
  BY <1>1 DEF Processes
<1>5. kid'[k] = p
  BY <1>3 DEF Moved
<1> HIDE DEF p
<1> QED BY <1>3, <1>4, <1>5

\* The reads of _find_entities.
LEMMA FindSteps ==
  ASSUME TypeOK, KidsShaped, NEW k \in Kids, FindEntity(k)
  PROVE  /\ Moved(k, kid'[k]) /\ KidShaped(k)' /\ kid'[k].task = kid[k].task
         /\ \/ kid'[k].pc = "reporting" /\ kid'[k].outcome = "failed"
            \/ /\ Wanted(k) /\ kid'[k].outcome = kid[k].outcome
               /\ kid[k].pc = "mission" => kid'[k].pc = "task"
               /\ kid[k].pc = "task" => kid'[k].pc = "agent"
               /\ kid[k].pc = "agent" => kid'[k].pc = Found(kid[k].outcome)
<1>1. kid[k] \in Processes /\ kid[k].pc \in Finding /\ kid[k].task \in Tasks
      /\ kid[k].outcome \in {"none", "failed", "completed"}
  BY DEF TypeOK, FindEntity, KidsShaped, KidShaped, Finding
<1> DEFINE next == CASE kid[k].pc = "mission" -> "task" [] kid[k].pc = "task" -> "agent"
                     [] kid[k].pc = "agent" -> Found(kid[k].outcome)
<1>2. /\ kid[k].pc = "mission" => next = "task"
      /\ kid[k].pc = "task" => next = "agent"
      /\ kid[k].pc = "agent" => next = Found(kid[k].outcome)
  OBVIOUS
<1>3. /\ Found(kid[k].outcome) \in {"agents", "failing", "reporting"}
      /\ Found(kid[k].outcome) = "failing" => kid[k].outcome = "failed"
  BY <1>1 DEF Found
<1>4. /\ next \in Places /\ next # "failed"
      /\ next = "failing" => kid[k].outcome = "failed"
  BY <1>1, <1>2, <1>3 DEF Places, Finding, Starting, Ending
<1>5. CASE ~Wanted(k)
  <2>1. Ends(k, "reporting", "failed")
    BY <1>5 DEF FindEntity, Ends
  <2>2. Moved(k, kid'[k]) /\ kid'[k].pc = "reporting" /\ kid'[k].task = kid[k].task
        /\ kid'[k].outcome = "failed"
    BY <2>1, EndsAt DEF Places, Ending
  <2> QED BY <1>1, <2>2 DEF KidShaped, Finding
<1>6. CASE Wanted(k) /\ kid[k].pc = "mission" /\ kid[k].outcome = "none"
  <2> DEFINE p == [kid[k] EXCEPT !.pc = next, !.status = mission.status, !.spent = mission.spent]
  <2>1. Becomes(k, p)
    BY <1>6 DEF FindEntity
  <2>2. mission.status \in {"running", "waiting"} /\ mission.spent \in 0 .. MaxSpent
    BY <1>6 DEF Wanted, Runnable, TypeOK, Missions
  <2>3. next = "task"
    BY <1>2, <1>6
  <2>4. p \in Processes /\ p.pc = "task" /\ p.task = kid[k].task /\ p.outcome = kid[k].outcome
    BY <1>1, <2>2, <2>3 DEF Processes, Finding
  <2>5. Moved(k, p)
    BY <2>1, <2>4, Moves
  <2>6. kid'[k] = p
    BY <2>5 DEF Moved
  <2> HIDE DEF p
  <2> QED BY <1>1, <1>6, <2>4, <2>5, <2>6 DEF KidShaped
<1>7. CASE Wanted(k) /\ ~(kid[k].pc = "mission" /\ kid[k].outcome = "none")
  <2>1. Goes(k, next)
    BY <1>7 DEF FindEntity
  <2> HIDE DEF next
  <2>2. Moved(k, kid'[k]) /\ kid'[k].pc = next /\ kid'[k].task = kid[k].task
        /\ kid'[k].outcome = kid[k].outcome
    BY <1>4, <2>1, GoesTo
  <2>3. KidShaped(k)'
    BY <1>1, <1>4, <2>2 DEF KidShaped
  <2> QED BY <1>2, <1>7, <2>2, <2>3
<1> QED BY <1>5, <1>6, <1>7

\* hydrate().
LEMMA RestoreSteps ==
  ASSUME TypeOK, KidsShaped, NEW k \in Kids,
         Project(k) \/ RestoreAgent(k) \/ \E t \in Tasks : RestoreTask(k, t)
  PROVE  /\ Moved(k, kid'[k]) /\ KidShaped(k)' /\ kid'[k].task = kid[k].task
         /\ kid'[k].outcome = kid[k].outcome
         /\ kid'[k].pc \in {"tasks", "projected", "restoring", "entering"}
         /\ task' \in [Tasks -> TaskStatus] /\ agent' \in AgentStatus
<1>1. kid[k] \in Processes /\ task \in [Tasks -> TaskStatus] /\ agent \in AgentStatus
  BY DEF TypeOK
<1>2. ASSUME NEW p \in Processes, Becomes(k, p), p.task = kid[k].task,
             p.outcome = kid[k].outcome, kid[k].pc # "free",
             p.pc \in {"tasks", "projected", "restoring", "entering"}
      PROVE  /\ Moved(k, kid'[k]) /\ KidShaped(k)' /\ kid'[k].task = kid[k].task
             /\ kid'[k].outcome = kid[k].outcome
             /\ kid'[k].pc \in {"tasks", "projected", "restoring", "entering"}
  <2>1. Moved(k, p) /\ kid'[k] = p
    BY <1>2, Moves DEF Moved
  <2>2. kid[k].task \in Tasks
    BY <1>2 DEF KidsShaped, KidShaped
  <2> QED BY <1>2, <2>1, <2>2 DEF KidShaped, Finding
<1>3. CASE kid[k].pc = "agents" /\ Project(k)
  <2> DEFINE p == [kid[k] EXCEPT !.pc = "tasks", !.agent = agent]
  <2>1. p \in Processes /\ p.task = kid[k].task /\ p.outcome = kid[k].outcome /\ p.pc = "tasks"
    BY <1>1 DEF Processes, Starting
  <2>2. Becomes(k, p)
    BY <1>3 DEF Project
  <2>3. task' = task /\ agent' = agent
    BY <1>3 DEF Project, Rows
  <2> HIDE DEF p
  <2> QED BY <1>1, <1>2, <1>3, <2>1, <2>2, <2>3
<1>4. CASE kid[k].pc = "tasks" /\ Project(k)
  <2> DEFINE left == {t \in Tasks : task[t] # "absent"}
             p == [kid[k] EXCEPT !.pc = "projected", !.tasks = task, !.left = left]
  <2>1. left \in SUBSET Tasks
    OBVIOUS
  <2>2. Becomes(k, p)
    BY <1>4 DEF Project
  <2> HIDE DEF left
  <2>3. p \in Processes /\ p.task = kid[k].task /\ p.outcome = kid[k].outcome
        /\ p.pc = "projected"
    BY <1>1, <2>1 DEF Processes, Starting
  <2>4. task' = task /\ agent' = agent
    BY <1>4 DEF Project, Rows
  <2> HIDE DEF p
  <2> QED BY <1>1, <1>2, <1>4, <2>2, <2>3, <2>4
<1>5. CASE RestoreAgent(k)
  <2> DEFINE p == [kid[k] EXCEPT !.pc = "restoring", !.agent = "created"]
  <2>1. p \in Processes /\ p.task = kid[k].task /\ p.outcome = kid[k].outcome
        /\ p.pc = "restoring"
    BY <1>1 DEF Processes, Starting, AgentStatus
  <2>2. Becomes(k, p) /\ kid[k].pc # "free"
    BY <1>5 DEF RestoreAgent
  <2>3. task' = task /\ agent' \in AgentStatus
    BY <1>1, <1>5 DEF RestoreAgent, Processes
  <2> HIDE DEF p
  <2> QED BY <1>1, <1>2, <2>1, <2>2, <2>3
<1>6. ASSUME NEW t \in Tasks, RestoreTask(k, t)
      PROVE  /\ Moved(k, kid'[k]) /\ KidShaped(k)' /\ kid'[k].task = kid[k].task
             /\ kid'[k].outcome = kid[k].outcome
             /\ kid'[k].pc \in {"tasks", "projected", "restoring", "entering"}
             /\ task' \in [Tasks -> TaskStatus] /\ agent' \in AgentStatus
  <2> DEFINE left == kid[k].left \ {t}
             p == [kid[k] EXCEPT !.left = left]
             q == [kid[k] EXCEPT !.pc = "entering", !.left = {}, !.tasks = Free.tasks]
  <2>1. /\ kid[k].pc = "restoring" /\ (Becomes(k, p) \/ Becomes(k, q))
        /\ task' = [task EXCEPT ![t] = kid[k].tasks[t]] /\ agent' = agent
    BY <1>6 DEF RestoreTask
  <2>2. left \in SUBSET Tasks /\ kid[k].tasks \in [Tasks -> TaskStatus]
    BY <1>1 DEF Processes
  <2>3. task' \in [Tasks -> TaskStatus]
    BY <1>1, <2>1, <2>2
  <2> HIDE DEF left
  <2>4. Free.tasks \in [Tasks -> TaskStatus]
    BY FreeTypes DEF Processes
  <2>5. /\ p \in Processes /\ p.task = kid[k].task /\ p.outcome = kid[k].outcome
        /\ p.pc = "restoring"
    BY <1>1, <2>1, <2>2 DEF Processes
  <2>6. /\ q \in Processes /\ q.task = kid[k].task /\ q.outcome = kid[k].outcome
        /\ q.pc = "entering"
    BY <1>1, <2>4 DEF Processes, Starting
  <2> HIDE DEF p, q
  <2> QED BY <1>1, <1>2, <2>1, <2>3, <2>5, <2>6
<1> QED BY <1>3, <1>4, <1>5, <1>6 DEF Project

\* The other steps of a process.
LEMMA WorkSteps ==
  ASSUME TypeOK, KidsShaped, NEW k \in Kids,
         \/ Check(k) \/ Controlled(k) \/ LeaseTask(k) \/ TaskLeased(k) \/ Renew(k)
         \/ BeginTask(k) \/ BeginAgent(k) \/ WorkFails(k) \/ Release(k)
         \/ FailTask(k) \/ FailAgent(k)
  PROVE  /\ Moved(k, kid'[k]) /\ KidShaped(k)' /\ kid'[k].task = kid[k].task
         /\ kid'[k].pc \in {"leasing", "renewing", "charging", "saving", "checking", "beginning",
                            "begun", "calling", "failed", "mission", "releasing", "reporting"}
         /\ kid'[k].pc = "reporting" => kid'[k].outcome # "completed"
         /\ kid'[k].pc \in {"renewing", "beginning", "charging", "saving"} => Check(k) \/ Renew(k)
<1>1. kid[k] \in Processes
  BY DEF TypeOK
<1>2. kid[k].pc # "free" => kid[k].task \in Tasks
  BY DEF KidsShaped, KidShaped
<1>3. ASSUME NEW pc \in Places \ Finding, Goes(k, pc), kid[k].pc # "free",
             pc \in {"failing", "failed"} => kid[k].outcome = "failed"
      PROVE  /\ Moved(k, kid'[k]) /\ KidShaped(k)' /\ kid'[k].task = kid[k].task
             /\ kid'[k].pc = pc /\ kid'[k].outcome = kid[k].outcome
  BY <1>2, <1>3, GoesTo DEF KidShaped
<1>4. ASSUME NEW pc \in Places, NEW outcome \in {"completed", "failed", "cancelled"},
             Ends(k, pc, outcome), kid[k].pc # "free", pc \notin {"task", "agent"},
             pc \in {"mission", "failing", "failed"} => outcome = "failed"
      PROVE  /\ Moved(k, kid'[k]) /\ KidShaped(k)' /\ kid'[k].task = kid[k].task
             /\ kid'[k].pc = pc /\ kid'[k].outcome = outcome
  BY <1>2, <1>4, EndsAt DEF KidShaped, Finding
<1>5. CASE Check(k)
  <2>1. /\ kid[k].pc \in {"entering", "checking", "calling", "recording"}
        /\ AfterCheck[kid[k].pc] \in {"leasing", "renewing", "charging", "saving"}
    BY <1>5 DEF Check, AfterCheck
  <2>2. AfterCheck[kid[k].pc] \in Places \ Finding
    BY <2>1 DEF Places, Finding, Starting, Working, Ending
  <2>3. Goes(k, AfterCheck[kid[k].pc])
    BY <1>5 DEF Check
  <2> QED BY <1>3, <1>5, <2>1, <2>2, <2>3
<1>6. CASE Controlled(k)
  <2>1. Ends(k, "reporting", "cancelled") \/ Ends(k, "releasing", "cancelled")
    BY <1>6 DEF Controlled
  <2>2. kid[k].pc # "free"
    BY <1>6 DEF Controlled, AfterCheck
  <2>3. "reporting" \in Places /\ "releasing" \in Places
    BY DEF Places, Working, Ending
  <2> QED BY <1>4, <2>1, <2>2, <2>3
<1>7. CASE LeaseTask(k)
  <2>1. Goes(k, "checking") /\ kid[k].pc # "free" /\ "checking" \in Places \ Finding
    BY <1>7 DEF LeaseTask, Places, Finding, Working
  <2> QED BY <1>3, <2>1
<1>8. CASE TaskLeased(k)
  <2>1. Ends(k, "mission", "failed") /\ kid[k].pc # "free" /\ "mission" \in Places
    BY <1>8 DEF TaskLeased, Places, Finding
  <2> QED BY <1>4, <2>1
<1>9. CASE Renew(k)
  <2>1. kid[k].pc # "free" /\ "beginning" \in Places \ Finding /\ "releasing" \in Places
    BY <1>9 DEF Renew, Places, Finding, Working
  <2>2. Goes(k, "beginning") \/ Ends(k, "releasing", "failed")
    BY <1>9 DEF Renew
  <2> QED BY <1>3, <1>4, <1>9, <2>1, <2>2
<1>10. CASE BeginTask(k)
  <2>1. Goes(k, "begun") /\ kid[k].pc # "free" /\ "begun" \in Places \ Finding
    BY <1>10 DEF BeginTask, Places, Finding, Working
  <2> QED BY <1>3, <2>1
<1>11. CASE BeginAgent(k)
  <2>1. Goes(k, "calling") /\ kid[k].pc # "free" /\ "calling" \in Places \ Finding
    BY <1>11 DEF BeginAgent, Places, Finding, Working
  <2> QED BY <1>3, <2>1
<1>12. CASE WorkFails(k)
  <2>1. Ends(k, "releasing", "failed") /\ kid[k].pc # "free" /\ "releasing" \in Places \ Finding
    BY <1>12 DEF WorkFails, Places, Finding, Working
  <2> QED BY <1>4, <2>1
<1>13. CASE Release(k)
  <2>1. kid[k].pc = "releasing" /\ kid[k].task \in Tasks
    BY <1>2, <1>13 DEF Release
  <2>2. CASE kid[k].outcome = "cancelled"
    <3>1. Goes(k, "reporting") /\ "reporting" \in Places \ Finding
      BY <1>13, <2>2 DEF Release, Places, Finding, Ending
    <3> QED BY <1>3, <2>1, <2>2, <3>1
  <2>3. CASE kid[k].outcome # "cancelled"
    <3>1. Goes(k, "mission") /\ "mission" \in Places
      BY <1>13, <2>3 DEF Release, Places, Finding
    <3>2. kid[k].outcome \in {"none", "completed", "failed"}
      BY <1>1, <2>3 DEF Processes
    <3>3. /\ Moved(k, kid'[k]) /\ kid'[k].task = kid[k].task /\ kid'[k].pc = "mission"
          /\ kid'[k].outcome = kid[k].outcome
      BY <3>1, GoesTo
    <3> QED BY <2>1, <3>2, <3>3 DEF KidShaped, Finding
  <2> QED BY <2>2, <2>3
<1>14. CASE FailTask(k)
  <2>1. Goes(k, "failed") /\ kid[k].pc = "failing" /\ "failed" \in Places \ Finding
        /\ kid[k].outcome = "failed"
    BY <1>14 DEF FailTask, Places, Finding, Ending, KidsShaped, KidShaped
  <2> QED BY <1>3, <2>1
<1>15. CASE FailAgent(k)
  <2>1. Goes(k, "reporting") /\ kid[k].pc = "failed" /\ "reporting" \in Places \ Finding
        /\ kid[k].outcome = "failed"
    BY <1>15 DEF FailAgent, Places, Finding, Ending, KidsShaped, KidShaped
  <2> QED BY <1>3, <2>1
<1> QED BY <1>5, <1>6, <1>7, <1>8, <1>9, <1>10, <1>11, <1>12, <1>13, <1>14, <1>15

\* Charges, results, reports, claims and deaths.
LEMMA RowSteps ==
  ASSUME TypeOK, KidsShaped, NEW k \in Kids,
         \/ Charge(k) \/ SaveTask(k) \/ SaveAgent(k) \/ Report(k) \/ Die(k)
         \/ \E t \in Tasks : Claim(k, t)
  PROVE  /\ Moved(k, kid'[k]) /\ KidShaped(k)'
         /\ kid'[k].pc \in {"calling", "recording", "saved", "releasing", "free", "mission"}
<1>1. kid[k] \in Processes
  BY DEF TypeOK
<1>2. ASSUME NEW p \in Processes, Becomes(k, p),
             \/ p.pc \in {"calling", "recording", "saved", "releasing"} /\ p.task \in Tasks
             \/ p.pc = "free"
             \/ p.pc = "mission" /\ p.task \in Tasks /\ p.outcome = "none"
      PROVE  /\ Moved(k, kid'[k]) /\ KidShaped(k)'
             /\ kid'[k].pc \in {"calling", "recording", "saved", "releasing", "free", "mission"}
  <2>1. Moved(k, p) /\ kid'[k] = p
    BY <1>2, Moves DEF Moved
  <2> QED BY <1>2, <2>1 DEF KidShaped, Finding
<1>3. CASE Charge(k)
  <2>1. PICK pc \in {"calling", "recording"} :
          Becomes(k, [kid[k] EXCEPT !.pc = pc, !.spent = PlusOne(kid[k].spent)])
    BY <1>3 DEF Charge
  <2>2. kid[k].pc = "charging" /\ kid[k].task \in Tasks
    BY <1>3 DEF Charge, KidsShaped, KidShaped
  <2>3. PlusOne(kid[k].spent) \in 0 .. MaxSpent
    BY <1>1, SpentTypes DEF Processes
  <2> DEFINE p == [kid[k] EXCEPT !.pc = pc, !.spent = PlusOne(kid[k].spent)]
  <2>4. p \in Processes /\ p.pc \in {"calling", "recording"} /\ p.task \in Tasks
    BY <1>1, <2>2, <2>3 DEF Processes, Working
  <2> HIDE DEF p
  <2>5. Becomes(k, p)
    BY <2>1 DEF p
  <2> QED BY <1>2, <2>4, <2>5
<1>4. CASE SaveTask(k)
  <2>1. PICK end \in {"completed", "blocked"} :
          Becomes(k, [kid[k] EXCEPT !.pc = "saved", !.agent = end])
    BY <1>4 DEF SaveTask
  <2>2. kid[k].task \in Tasks
    BY <1>4 DEF SaveTask, KidsShaped, KidShaped
  <2> DEFINE p == [kid[k] EXCEPT !.pc = "saved", !.agent = end]
  <2>3. p \in Processes /\ p.pc = "saved" /\ p.task \in Tasks
    BY <1>1, <2>2 DEF Processes, Working, AgentStatus, Ended
  <2> HIDE DEF p
  <2>4. Becomes(k, p)
    BY <2>1 DEF p
  <2> QED BY <1>2, <2>3, <2>4
<1>5. CASE SaveAgent(k)
  <2> DEFINE p == [kid[k] EXCEPT !.pc = "releasing", !.outcome = "completed", !.agent = "created"]
  <2>1. kid[k].task \in Tasks
    BY <1>5 DEF SaveAgent, KidsShaped, KidShaped
  <2>2. p \in Processes /\ p.pc = "releasing" /\ p.task \in Tasks
    BY <1>1, <2>1 DEF Processes, Working, AgentStatus
  <2>3. Becomes(k, p)
    BY <1>5 DEF SaveAgent
  <2> HIDE DEF p
  <2> QED BY <1>2, <2>2, <2>3
<1>6. CASE Report(k) \/ Die(k)
  <2>1. Becomes(k, Free)
    BY <1>6 DEF Report, Die
  <2>2. Free.pc = "free"
    BY DEF Free
  <2> QED BY <1>2, <2>1, <2>2, FreeTypes
<1>7. ASSUME NEW t \in Tasks, Claim(k, t)
      PROVE  /\ Moved(k, kid'[k]) /\ KidShaped(k)'
             /\ kid'[k].pc \in {"calling", "recording", "saved", "releasing", "free", "mission"}
  <2> DEFINE p == [Free EXCEPT !.pc = "mission", !.task = t]
  <2>1. p \in Processes
    BY FreeTypes DEF Processes, Finding
  <2>2. p.pc = "mission" /\ p.task = t /\ p.outcome = "none"
    BY DEF Free
  <2>3. Becomes(k, p)
    BY <1>7, Zenon DEF Claim
  <2> HIDE DEF p
  <2> QED BY <1>2, <2>1, <2>2, <2>3
<1> QED BY <1>3, <1>4, <1>5, <1>6, <1>7

KidOrSo(k) == KidStep(k) \/ Die(k) \/ \E t \in Tasks : Claim(k, t)

\* A step of one process moves that process only, and not the server.
LEMMA OwnStep ==
  ASSUME TypeOK, KidsShaped, NEW k \in Kids, KidOrSo(k)
  PROVE  Moved(k, kid'[k]) /\ KidShaped(k)' /\ server' = server
<1>1. server' = server
  BY Zenon DEF KidOrSo, KidStep, FindEntity, Project, RestoreAgent, RestoreTask, Check, Controlled,
         LeaseTask, TaskLeased, Renew, BeginTask, BeginAgent, WorkFails, Charge, SaveTask,
         SaveAgent, Release, FailTask, FailAgent, Report, Claim, Die
<1>2. Moved(k, kid'[k]) /\ KidShaped(k)'
  BY FindSteps, RestoreSteps, WorkSteps, RowSteps DEF KidOrSo, KidStep
<1> QED BY <1>1, <1>2

\* What a process writes is of the rows' types.
LEMMA ProcessTypes ==
  ASSUME TypeOK, KidsShaped, NEW k \in Kids, KidOrSo(k), scope' = scope, prompt' \in BOOLEAN
  PROVE  TypeOK'
<1>1. kid' \in [Kids -> Processes] /\ server' = server
  BY OwnStep DEF Moved
<1>2. kid[k] \in Processes
  BY DEF TypeOK
<1>3. task' \in [Tasks -> TaskStatus]
  <2>1. CASE \E t \in Tasks : RestoreTask(k, t)
    BY <2>1, RestoreSteps
  <2>2. CASE BeginTask(k) \/ SaveTask(k) \/ FailTask(k)
    BY <2>2 DEF BeginTask, SaveTask, FailTask, TypeOK, TaskStatus, InFlight, Ended
  <2>3. CASE ~((\E t \in Tasks : RestoreTask(k, t)) \/ BeginTask(k) \/ SaveTask(k) \/ FailTask(k))
    <3>1. task' = task
      BY <2>3, Zenon DEF KidOrSo, KidStep, FindEntity, Project, RestoreAgent, Check, Controlled,
                  LeaseTask, TaskLeased, Renew, BeginAgent, WorkFails, Charge, SaveAgent,
                  Release, FailAgent, Report, Claim, Die, Rows
    <3> QED BY <3>1 DEF TypeOK
  <2> QED BY <2>1, <2>2, <2>3
<1>4. agent' \in AgentStatus
  <2>1. CASE RestoreAgent(k)
    BY <2>1, RestoreSteps
  <2>2. CASE BeginAgent(k) \/ SaveAgent(k) \/ FailAgent(k)
    BY <1>2, <2>2 DEF BeginAgent, SaveAgent, FailAgent, AgentStatus, Ended, Processes
  <2>3. CASE ~(RestoreAgent(k) \/ BeginAgent(k) \/ SaveAgent(k) \/ FailAgent(k))
    <3>1. agent' = agent
      BY <2>3, Zenon DEF KidOrSo, KidStep, FindEntity, Project, RestoreTask, Check, Controlled,
                  LeaseTask, TaskLeased, Renew, BeginTask, WorkFails, Charge, SaveTask,
                  Release, FailTask, Report, Claim, Die, Rows
    <3> QED BY <3>1 DEF TypeOK
  <2> QED BY <2>1, <2>2, <2>3
<1>5. mission' \in Missions /\ control' = control /\ slain' = slain
  <2>1. CASE Charge(k)
    <3>1. kid[k].status \in {"running", "waiting"} /\ PlusOne(kid[k].spent) \in 0 .. MaxSpent
      BY <1>2, SpentTypes DEF Processes
    <3>2. mission' = [status |-> kid[k].status, spent |-> PlusOne(kid[k].spent)]
          /\ control' = control /\ slain' = slain
      BY <2>1 DEF Charge
    <3> QED BY <3>1, <3>2 DEF Missions
  <2>2. CASE ~Charge(k)
    <3>1. mission' = mission /\ control' = control /\ slain' = slain
      BY <2>2, Zenon DEF KidOrSo, KidStep, FindEntity, Project, RestoreAgent, RestoreTask, Check,
                  Controlled, LeaseTask, TaskLeased, Renew, BeginTask, BeginAgent, WorkFails,
                  SaveTask, SaveAgent, Release, FailTask, FailAgent, Report, Claim, Die, Rows
    <3> QED BY <3>1 DEF TypeOK
  <2> QED BY <2>1, <2>2
<1>6. job' \in [Tasks -> Jobs] /\ lease' \in [Tasks -> Holders]
  <2>1. CASE LeaseTask(k) \/ Release(k)
    BY <2>1 DEF LeaseTask, Release, TypeOK, Holders
  <2>2. CASE Report(k) \/ \E t \in Tasks : Claim(k, t)
    <3>1. lease' = lease
      BY <2>2, Zenon DEF Report, Claim
    <3>2. CASE Report(k)
      <4>1. PICK status \in {"completed", "failed"} :
              job' = job \/ job' = [job EXCEPT ![kid[k].task] = [NoJob EXCEPT !.status = status]]
        BY <3>2, Zenon DEF Report
      <4>2. [NoJob EXCEPT !.status = status] \in Jobs
        BY DEF NoJob, Jobs, Holders
      <4> QED BY <3>1, <4>1, <4>2 DEF TypeOK
    <3>3. CASE \E t \in Tasks : Claim(k, t)
      <4>1. PICK t \in Tasks : job' = [job EXCEPT ![t] = [status |-> "claimed", owner |-> k]]
        BY <3>3, Zenon DEF Claim
      <4>2. [status |-> "claimed", owner |-> k] \in Jobs
        BY DEF Jobs, Holders
      <4> QED BY <3>1, <4>1, <4>2 DEF TypeOK
    <3> QED BY <2>2, <3>2, <3>3
  <2>3. CASE Die(k)
    BY <2>3 DEF Die, TypeOK, Jobs, Holders
  <2>4. CASE ~(LeaseTask(k) \/ Release(k) \/ Report(k) \/ Die(k) \/ \E t \in Tasks : Claim(k, t))
    <3>1. job' = job /\ lease' = lease
      BY <2>4, Zenon DEF KidOrSo, KidStep, FindEntity, Project, RestoreAgent, RestoreTask, Check,
                  Controlled, TaskLeased, Renew, BeginTask, BeginAgent, WorkFails, Charge,
                  SaveTask, SaveAgent, FailTask, FailAgent
    <3> QED BY <3>1 DEF TypeOK
  <2> QED BY <2>1, <2>2, <2>3, <2>4
<1>7. faults' \in 0 .. scope.faults
  <2>1. CASE Die(k)
    <3>1. faults < scope.faults /\ faults' = faults + 1
      BY <2>1 DEF Die
    <3>2. faults \in 0 .. scope.faults /\ scope.faults \in Nat
      BY ScopeTypes DEF TypeOK
    <3> QED BY <3>1, <3>2
  <2>2. CASE ~Die(k)
    <3>1. faults' = faults
      BY <2>2, Zenon DEF KidOrSo, KidStep, FindEntity, Project, RestoreAgent, RestoreTask, Check,
                  Controlled, LeaseTask, TaskLeased, Renew, BeginTask, BeginAgent, WorkFails,
                  Charge, SaveTask, SaveAgent, Release, FailTask, FailAgent, Report, Claim
    <3> QED BY <3>1 DEF TypeOK
  <2> QED BY <2>1, <2>2
<1> QED BY <1>1, <1>3, <1>4, <1>5, <1>6, <1>7 DEF TypeOK

\* Leases that run out.
LEMMA LapseTypes ==
  ASSUME TypeOK, NEW t \in Tasks, LapseJob(t) \/ Stall(t) \/ LapseTaskLease(t),
         scope' = scope, prompt' \in BOOLEAN
  PROVE  TypeOK'
<1>1. [job EXCEPT ![t].owner = Nobody] \in [Tasks -> Jobs]
      /\ [lease EXCEPT ![t] = Nobody] \in [Tasks -> Holders]
  BY DEF TypeOK, Jobs, Holders
<1>2. faults < scope.faults => faults + 1 \in 0 .. scope.faults
  BY ScopeTypes DEF TypeOK
<1>3. CASE LapseJob(t)
  BY <1>1, <1>3 DEF LapseJob, Lapses, TypeOK, Rows
<1>4. CASE Stall(t)
  BY <1>1, <1>2, <1>4 DEF Stall, Lapses, TypeOK, Rows
<1>5. CASE LapseTaskLease(t)
  BY <1>1, <1>5 DEF LapseTaskLease, TypeOK, Rows
<1> QED BY <1>3, <1>4, <1>5

-----------------------------------------------------------------------------
(* The invariant *)

Finished == {"completed", "blocked", "stopped"}

\* While no row changes behind it, what a process read before its saves still holds.
Trusted(k) ==
  /\ kid[k].pc \in {"renewing", "beginning", "charging", "saving"} => MayGoOn(k)
  /\ kid[k].pc = "projected" => kid[k].tasks = task
  /\ kid[k].pc = "restoring" => \A t \in kid[k].left : kid[k].tasks[t] = task[t]
  /\ kid[k].pc \in {"agent", "failing"} /\ kid[k].outcome = "failed" =>
       task[kid[k].task] \notin Finished

\* A process reports success only of a task that has its result, or was stopped since.
Durable(k) ==
  kid[k].pc \in {"agent", "reporting"} /\ kid[k].outcome = "completed" =>
    task[kid[k].task] \in Finished

\* A mission that the server runs has not ended, nor is it paused.
RunIsLive ==
  server.pc \in {"dispatching", "deciding", "polling"} => mission.status \in {"running", "waiting"}

JobInvariant ==
  /\ TypeOK /\ KidsShaped /\ RunIsLive
  /\ prompt => JobsFinished /\ \A k \in Kids : Trusted(k) /\ Durable(k)

\* Where a process's own step leaves what it read.
LEMMA OwnTrust ==
  ASSUME TypeOK, KidsShaped, NEW k \in Kids, KidOrSo(k), Trusted(k), Durable(k)
  PROVE  Trusted(k)' /\ Durable(k)'
<1>1. CASE FindEntity(k)
  <2>1. task' = task
    BY <1>1, Zenon DEF FindEntity, Rows
  <2>2. /\ kid[k].pc \in Finding /\ kid[k].outcome \in {"none", "failed", "completed"}
    BY <1>1 DEF FindEntity, KidsShaped, KidShaped, Finding
  <2>3. /\ kid'[k].task = kid[k].task
        /\ \/ kid'[k].pc = "reporting" /\ kid'[k].outcome = "failed"
           \/ /\ Wanted(k) /\ kid'[k].outcome = kid[k].outcome
              /\ kid[k].pc = "mission" => kid'[k].pc = "task"
              /\ kid[k].pc = "task" => kid'[k].pc = "agent"
              /\ kid[k].pc = "agent" => kid'[k].pc = Found(kid[k].outcome)
    BY <1>1, FindSteps
  <2>4. CASE kid'[k].pc = "reporting" /\ kid'[k].outcome = "failed"
    BY <2>4 DEF Trusted, Durable
  <2>5. CASE kid'[k].pc = "task"
    BY <2>5 DEF Trusted, Durable
  <2>6. CASE Wanted(k) /\ kid'[k].outcome = kid[k].outcome /\ kid[k].pc = "task"
             /\ kid'[k].pc = "agent"
    <3>1. /\ kid[k].outcome = "failed" => MayFail(k)
          /\ kid[k].outcome = "completed" => Confirmed(k)
      BY <2>6 DEF Wanted
    <3>2. /\ kid[k].outcome = "failed" => task[kid[k].task] \notin Finished
          /\ kid[k].outcome = "completed" => task[kid[k].task] \in Finished
      BY <2>6, <3>1 DEF MayFail, Confirmed, Finished
    <3> QED BY <2>1, <2>3, <2>6, <3>2 DEF Trusted, Durable
  <2>7. CASE kid'[k].outcome = kid[k].outcome /\ kid[k].pc = "agent"
             /\ kid'[k].pc = Found(kid[k].outcome)
    <3>1. /\ kid'[k].pc \in {"agents", "failing", "reporting"}
          /\ kid'[k].pc = "failing" => kid[k].outcome = "failed"
          /\ kid'[k].pc = "reporting" => kid[k].outcome = "completed"
      BY <2>2, <2>7 DEF Found
    <3> QED BY <2>1, <2>3, <2>7, <3>1 DEF Trusted, Durable
  <2> QED BY <2>2, <2>3, <2>4, <2>5, <2>6, <2>7 DEF Finding
<1>2. CASE Project(k)
  <2>1. task' = task /\ kid[k] \in Processes
    BY <1>2 DEF Project, Rows, TypeOK
  <2>2. CASE Becomes(k, [kid[k] EXCEPT !.pc = "tasks", !.agent = agent])
    <3>1. kid'[k].pc = "tasks"
      BY <2>1, <2>2 DEF Becomes, TypeOK, Processes
    <3> QED BY <3>1 DEF Trusted, Durable
  <2>3. CASE Becomes(k, [kid[k] EXCEPT !.pc = "projected", !.tasks = task,
                                       !.left = {t \in Tasks : task[t] # "absent"}])
    <3>1. kid'[k].pc = "projected" /\ kid'[k].tasks = task
      BY <2>1, <2>3 DEF Becomes, TypeOK, Processes
    <3> QED BY <2>1, <3>1 DEF Trusted, Durable
  <2> QED BY <1>2, <2>2, <2>3 DEF Project
<1>3. CASE RestoreAgent(k)
  <2>1. task' = task /\ kid[k] \in Processes /\ kid[k].pc = "projected"
    BY <1>3 DEF RestoreAgent, TypeOK
  <2>2. kid'[k].pc = "restoring" /\ kid'[k].tasks = kid[k].tasks
    BY <1>3, <2>1 DEF RestoreAgent, Becomes, TypeOK, Processes
  <2> QED BY <2>1, <2>2 DEF Trusted, Durable
<1>4. ASSUME NEW t \in Tasks, RestoreTask(k, t) PROVE Trusted(k)' /\ Durable(k)'
  <2> DEFINE left == kid[k].left \ {t}
  <2>1. kid[k].pc = "restoring" /\ t \in kid[k].left /\ kid[k] \in Processes
        /\ task' = [task EXCEPT ![t] = kid[k].tasks[t]]
    BY <1>4 DEF RestoreTask, TypeOK
  <2>2. \/ Becomes(k, [kid[k] EXCEPT !.left = left])
        \/ Becomes(k, [kid[k] EXCEPT !.pc = "entering", !.left = {}, !.tasks = Free.tasks])
    BY <1>4, Zenon DEF RestoreTask
  <2>3. task' = task
    BY <2>1 DEF Trusted, TypeOK
  <2> HIDE DEF left
  <2>4. \/ kid'[k].pc = "restoring" /\ kid'[k].left = left /\ kid'[k].tasks = kid[k].tasks
        \/ kid'[k].pc = "entering"
    <3>1. CASE Becomes(k, [kid[k] EXCEPT !.left = left])
      BY <2>1, <3>1 DEF Becomes, TypeOK, Processes
    <3>2. CASE Becomes(k, [kid[k] EXCEPT !.pc = "entering", !.left = {}, !.tasks = Free.tasks])
      <4>1. kid'[k].pc = "entering"
        BY <2>1, <3>2 DEF Becomes, TypeOK, Processes
      <4> QED BY <4>1
    <3> QED BY <2>2, <3>1, <3>2
  <2> QED BY <2>1, <2>3, <2>4 DEF Trusted, Durable, left
<1>5. CASE Check(k) \/ Renew(k)
  <2>1. UNCHANGED Rows /\ kid[k] \in Processes
    BY <1>5, Zenon DEF Check, Renew, TypeOK
  <2>2. kid[k].pc = "renewing" \/ MayGoOn(k)
    BY <1>5 DEF Check, Renew
  <2>3. kid'[k].task = kid[k].task
        /\ kid'[k].pc \in {"leasing", "renewing", "charging", "saving", "beginning", "releasing"}
    <3>1. CASE Check(k)
      <4>1. /\ AfterCheck[kid[k].pc] \in {"leasing", "renewing", "charging", "saving"}
            /\ Goes(k, AfterCheck[kid[k].pc])
        BY <3>1 DEF Check, AfterCheck
      <4> QED BY <4>1, GoesTo DEF Places, Starting, Working
    <3>2. CASE Renew(k)
      <4>1. Goes(k, "beginning") \/ Ends(k, "releasing", "failed")
        BY <3>2 DEF Renew
      <4> QED BY <4>1, GoesTo, EndsAt DEF Places, Working
    <3> QED BY <1>5, <3>1, <3>2
  <2>4. MayGoOn(k)
    BY <2>2 DEF Trusted
  <2>5. MayGoOn(k)'
    BY <2>1, <2>3, <2>4, Zenon DEF MayGoOn, Rows
  <2> QED BY <2>3, <2>5 DEF Trusted, Durable
<1>6. CASE \/ Controlled(k) \/ LeaseTask(k) \/ TaskLeased(k) \/ BeginTask(k) \/ BeginAgent(k)
           \/ WorkFails(k) \/ Release(k) \/ FailTask(k) \/ FailAgent(k)
  <2>1. CASE Check(k) \/ Renew(k)
    BY <1>5, <2>1
  <2>2. CASE ~(Check(k) \/ Renew(k))
    <3>1. /\ kid'[k].pc \in {"leasing", "renewing", "charging", "saving", "checking", "beginning",
                             "begun", "calling", "failed", "mission", "releasing", "reporting"}
          /\ kid'[k].pc = "reporting" => kid'[k].outcome # "completed"
          /\ kid'[k].pc \notin {"renewing", "beginning", "charging", "saving"}
      BY <1>6, <2>2, WorkSteps
    <3> QED BY <3>1 DEF Trusted, Durable
  <2> QED BY <2>1, <2>2
<1>7. CASE \/ Charge(k) \/ SaveTask(k) \/ SaveAgent(k) \/ Report(k) \/ Die(k)
           \/ \E t \in Tasks : Claim(k, t)
  <2>1. kid'[k].pc \in {"calling", "recording", "saved", "releasing", "free", "mission"}
    BY <1>7, RowSteps
  <2> QED BY <2>1 DEF Trusted, Durable
<1> QED BY <1>1, <1>2, <1>3, <1>4, <1>5, <1>6, <1>7, Zenon DEF KidOrSo, KidStep

\* A process changes a task's row only while the task is not finished.
LEMMA ProcessKeeps ==
  ASSUME TypeOK, KidsShaped, NEW k \in Kids, KidOrSo(k), Trusted(k), NEW t \in Tasks,
         task[t] \in Finished
  PROVE  task'[t] = task[t]
<1>1. kid[k] \in Processes /\ task \in [Tasks -> TaskStatus]
  BY DEF TypeOK
<1>2. ASSUME NEW u \in Tasks, RestoreTask(k, u) PROVE task'[t] = task[t]
  <2>1. task' = [task EXCEPT ![u] = kid[k].tasks[u]] /\ kid[k].tasks[u] = task[u]
    BY <1>2 DEF RestoreTask, Trusted
  <2> QED BY <1>1, <2>1
<1>3. CASE BeginTask(k) \/ SaveTask(k)
  <2>1. MayGoOn(k)
    BY <1>3 DEF BeginTask, SaveTask, Trusted
  <2>2. kid[k].task # t
    BY <2>1 DEF MayGoOn, InFlight, Finished
  <2> QED BY <1>1, <1>3, <2>2 DEF BeginTask, SaveTask
<1>4. CASE FailTask(k)
  <2>1. kid[k].pc = "failing" /\ kid[k].outcome = "failed"
    BY <1>4 DEF FailTask, KidsShaped, KidShaped
  <2>2. kid[k].task # t
    BY <2>1 DEF Trusted
  <2> QED BY <1>1, <1>4, <2>2 DEF FailTask
<1>5. CASE ~((\E u \in Tasks : RestoreTask(k, u)) \/ BeginTask(k) \/ SaveTask(k) \/ FailTask(k))
  <2>1. task' = task
    BY <1>5, Zenon DEF KidOrSo, KidStep, FindEntity, Project, RestoreAgent, Check, Controlled,
                       LeaseTask, TaskLeased, Renew, BeginAgent, WorkFails, Charge, SaveAgent,
                       Release, FailAgent, Report, Claim, Die, Rows
  <2> QED BY <2>1
<1> QED BY <1>2, <1>3, <1>4, <1>5

\* The server stops a task, or fails what is not finished.
LEMMA ServerKeeps ==
  ASSUME TypeOK, ServerStep, NEW t \in Tasks, task[t] \in Finished
  PROVE  task'[t] = task[t] \/ task'[t] = "stopped"
<1> USE DEF TypeOK, Finished
<1>1. CASE \E u \in Tasks : Dispatch(u)
  BY <1>1 DEF Dispatch
<1>2. CASE PollFailed \/ Conclude
  BY <1>2 DEF PollFailed, Conclude, Finish, InFlight
<1>3. CASE Stop \/ Pause \/ Kill
  BY <1>3 DEF Stop, Pause, Kill, StopTask
<1>4. CASE Resume \/ Boot
  BY <1>4 DEF Resume, Boot, Recover, Rows, InFlight
<1>5. CASE NothingToDispatch \/ PollDone \/ Decide \/ StopPaused \/ Shutdown \/ Crash
  <2>1. task' = task
    BY <1>5, Zenon DEF NothingToDispatch, PollDone, Decide, StopPaused, Shutdown, Crash, Rows
  <2> QED BY <2>1
<1> QED BY <1>1, <1>2, <1>3, <1>4, <1>5 DEF ServerStep

\* The server leaves the processes alone, or ends them all, and completes no job.
LEMMA ServerLeaves ==
  ASSUME TypeOK, ServerStep
  PROVE  /\ kid' = kid \/ kid' = [k \in Kids |-> Free]
         /\ \A t \in Tasks : job'[t].status = "completed" => job[t].status = "completed"
<1>1. CASE \E t \in Tasks : Dispatch(t)
  <2>1. PICK t \in Tasks : Dispatch(t)
    BY <1>1
  <2>2. job' = [job EXCEPT ![t].status = "pending"] /\ kid' = kid
    BY <2>1 DEF Dispatch
  <2> QED BY <2>2 DEF TypeOK, Jobs
<1>2. CASE Shutdown
  <2>1. kid' = [k \in Kids |-> Free]
    BY <1>2 DEF Shutdown
  <2>2. \A t \in Tasks : job'[t].status = job[t].status
    BY <1>2 DEF Shutdown, TypeOK, Jobs
  <2> QED BY <2>1, <2>2
<1>3. CASE \/ NothingToDispatch \/ PollDone \/ PollFailed \/ Decide \/ Conclude \/ Stop
           \/ StopPaused \/ Pause \/ Resume \/ Boot \/ Kill \/ Crash
  <2>1. kid' = kid /\ job' = job
    BY <1>3, Zenon DEF NothingToDispatch, PollDone, PollFailed, Decide, Conclude, Finish, Stop,
                       StopPaused, Pause, Resume, Boot, Recover, Kill, Crash
  <2> QED BY <2>1
<1> QED BY <1>1, <1>2, <1>3 DEF ServerStep

\* A process completes the job of its own task, and only by its report.
LEMMA ProcessCompletes ==
  ASSUME TypeOK, KidsShaped, NEW k \in Kids, KidOrSo(k), NEW t \in Tasks,
         job'[t].status = "completed", job[t].status # "completed"
  PROVE  kid[k].pc = "reporting" /\ kid[k].outcome = "completed" /\ kid[k].task = t
<1>1. job \in [Tasks -> Jobs]
  BY DEF TypeOK
<1>2. CASE Report(k)
  <2> DEFINE status == IF kid[k].outcome = "completed" THEN "completed" ELSE "failed"
             report == [NoJob EXCEPT !.status = status]
  <2>1. kid[k].pc = "reporting"
        /\ (job' = [job EXCEPT ![kid[k].task] = report] \/ job' = job)
    BY <1>2, Zenon DEF Report
  <2>2. report.status = status
    BY DEF NoJob
  <2> HIDE DEF report
  <2>3. kid[k].task = t /\ status = "completed"
    BY <1>1, <2>1, <2>2
  <2> QED BY <2>1, <2>3
<1>3. ASSUME NEW u \in Tasks, Claim(k, u) PROVE FALSE
  <2>1. job' = [job EXCEPT ![u] = [status |-> "claimed", owner |-> k]]
    BY <1>3, Zenon DEF Claim
  <2> QED BY <1>1, <2>1
<1>4. CASE Die(k)
  <2>1. job'[t].status = job[t].status
    BY <1>1, <1>4 DEF Die, Jobs
  <2> QED BY <2>1
<1>5. CASE ~(Report(k) \/ Die(k) \/ \E u \in Tasks : Claim(k, u))
  <2>1. job' = job
    BY <1>5, Zenon DEF KidOrSo, KidStep, FindEntity, Project, RestoreAgent, RestoreTask, Check,
                       Controlled, LeaseTask, TaskLeased, Renew, BeginTask, BeginAgent,
                       WorkFails, Charge, SaveTask, SaveAgent, Release, FailTask, FailAgent
  <2> QED BY <2>1
<1> QED BY <1>2, <1>3, <1>4, <1>5

\* What a process may make of the mission's row.
LEMMA ProcessRow ==
  ASSUME TypeOK, NEW k \in Kids, KidOrSo(k)
  PROVE  /\ control' = control
         /\ \/ mission' = mission
            \/ kid[k].pc = "charging" /\ mission'.status \in {"running", "waiting"}
<1>1. CASE Charge(k)
  <2>1. kid[k].status \in {"running", "waiting"}
    BY DEF TypeOK, Processes
  <2>2. /\ mission' = [status |-> kid[k].status, spent |-> PlusOne(kid[k].spent)]
        /\ control' = control /\ kid[k].pc = "charging"
    BY <1>1 DEF Charge
  <2> QED BY <2>1, <2>2
<1>2. CASE ~Charge(k)
  BY <1>2, Zenon DEF KidOrSo, KidStep, FindEntity, Project, RestoreAgent, RestoreTask, Check,
                     Controlled, LeaseTask, TaskLeased, Renew, BeginTask, BeginAgent, WorkFails,
                     SaveTask, SaveAgent, Release, FailTask, FailAgent, Report, Claim, Die, Rows
<1> QED BY <1>1, <1>2

LapseStep == \E t \in Tasks : LapseJob(t) \/ Stall(t) \/ LapseTaskLease(t)

LEMMA LapseLeaves ==
  ASSUME TypeOK, LapseStep
  PROVE  /\ kid' = kid /\ server' = server /\ UNCHANGED Rows
         /\ \A t \in Tasks : job'[t].status = job[t].status
<1>1. PICK t \in Tasks : LapseJob(t) \/ Stall(t) \/ LapseTaskLease(t)
  BY DEF LapseStep
<1>2. job' = job \/ job' = [job EXCEPT ![t].owner = Nobody]
  BY <1>1, Zenon DEF LapseJob, Stall, LapseTaskLease, Lapses
<1>3. \A u \in Tasks : job'[u].status = job[u].status
  BY <1>2 DEF TypeOK, Jobs
<1>4. kid' = kid /\ server' = server /\ UNCHANGED Rows
  BY <1>1, Zenon DEF LapseJob, Stall, LapseTaskLease
<1> QED BY <1>3, <1>4

\* Whoever relies on what it read has the rows as it read them, or prompt is gone.
Heeded(others) == prompt' => \A k \in others : Relying(k) => UNCHANGED Rows

\* Every step is the server's, a process's or a lease's, and is watched.
LEMMA StepKinds ==
  ASSUME TypeOK, Next
  PROVE  /\ scope' = scope /\ prompt' \in BOOLEAN /\ (prompt' => prompt)
         /\ \/ ServerStep /\ Heeded(Kids)
            \/ \E k \in Kids : KidOrSo(k) /\ Heeded(Kids \ {k})
            \/ LapseStep /\ Heeded(Kids)
<1>1. ASSUME NEW others \in SUBSET Kids, Watched(others) PROVE Heeded(others)
  BY <1>1, Zenon DEF Watched, Heeded
<1>2. ASSUME NEW k \in Kids, Watched(Kids) PROVE Heeded(Kids \ {k})
  BY <1>1, <1>2 DEF Heeded
<1>3. CASE \E k \in Kids : KidTurn(k)
  BY <1>1, <1>3, WatchedTypes DEF KidTurn, KidOrSo
<1>4. CASE Claims
  BY <1>2, <1>4, WatchedTypes DEF Claims, KidOrSo
<1>5. CASE ServerStep /\ Watched(Kids)
  BY <1>1, <1>5, WatchedTypes
<1>6. CASE Accident /\ Watched(Kids)
  BY <1>1, <1>2, <1>6, WatchedTypes DEF Accident, KidOrSo, LapseStep
<1> QED BY <1>3, <1>4, <1>5, <1>6 DEF Next

\* Another's step leaves what a process relies on.
LEMMA TrustKept ==
  ASSUME TypeOK, NEW k \in Kids, Trusted(k), kid'[k] = kid[k],
         Relying(k) => UNCHANGED Rows
  PROVE  Trusted(k)'
<1>1. CASE Relying(k)
  <2>1. UNCHANGED Rows /\ kid'[k] = kid[k]
    BY <1>1
  <2>2. MayGoOn(k) => MayGoOn(k)'
    BY <2>1, Zenon DEF MayGoOn, Rows
  <2>3. task' = task
    BY <2>1 DEF Rows
  <2> QED BY <2>1, <2>2, <2>3 DEF Trusted
<1>2. CASE ~Relying(k)
  BY <1>2 DEF Relying, Trusted
<1> QED BY <1>1, <1>2

\* Nor is a finished task begun, failed or given up again.
LEMMA DurableKept ==
  ASSUME TypeOK, KidsShaped, NEW k \in Kids, Durable(k), kid'[k] = kid[k],
         \A t \in Tasks : task[t] \in Finished => task'[t] \in Finished
  PROVE  Durable(k)'
<1>1. kid[k].pc \in {"agent", "reporting"} => kid[k].task \in Tasks
  BY DEF KidsShaped, KidShaped
<1> QED BY <1>1 DEF Durable

LEMMA FreeTrusts == ASSUME NEW k \in Kids, kid[k] = Free PROVE Trusted(k) /\ Durable(k)
  BY DEF Trusted, Durable, Free

LEMMA JobInvariantInit == Init => JobInvariant
<1> SUFFICES ASSUME Init PROVE JobInvariant
  OBVIOUS
<1>1. KidsShaped /\ \A k \in Kids : Trusted(k) /\ Durable(k)
  BY FreeTrusts DEF Init, Free, KidsShaped, KidShaped, Finding
<1>2. RunIsLive /\ JobsFinished
  BY DEF Init, NoJob, RunIsLive, JobsFinished
<1> QED BY <1>1, <1>2, TypeInit DEF JobInvariant

\* Who runs the mission has it running.
LEMMA RunStaysLive == ASSUME TypeOK, KidsShaped, RunIsLive, [Next]_vars PROVE RunIsLive'
<1> USE DEF RunIsLive
<1>1. CASE \E t \in Tasks : Dispatch(t)
  BY <1>1 DEF Dispatch
<1>2. CASE NothingToDispatch \/ PollDone \/ Decide
  BY <1>2 DEF NothingToDispatch, PollDone, Decide, Rows, TypeOK, Missions
<1>3. CASE PollFailed \/ Conclude \/ Stop \/ Pause \/ Kill
  BY <1>3 DEF PollFailed, Conclude, Finish, Stop, Pause, Kill, Resting
<1>4. CASE StopPaused
  BY <1>4 DEF StopPaused
<1>5. CASE Resume \/ Boot
  BY <1>5 DEF Resume, Boot, Recover, Resting, TypeOK, Missions
<1>6. CASE Shutdown \/ Crash
  BY <1>6 DEF Shutdown, Crash, Resting
<1>7. ASSUME NEW k \in Kids, KidOrSo(k) PROVE RunIsLive'
  BY <1>7, OwnStep, ProcessRow
<1>8. CASE LapseStep
  BY <1>8, LapseLeaves DEF Rows
<1>9. CASE UNCHANGED vars
  BY <1>9 DEF vars
<1> QED BY <1>1, <1>2, <1>3, <1>4, <1>5, <1>6, <1>7, <1>8, <1>9, StepKinds DEF ServerStep

LEMMA JobInvariantStep == JobInvariant /\ [Next]_vars => JobInvariant'
<1> SUFFICES ASSUME JobInvariant, [Next]_vars PROVE JobInvariant'
  OBVIOUS
<1>0. TypeOK /\ KidsShaped /\ RunIsLive
      /\ (prompt => JobsFinished /\ \A k \in Kids : Trusted(k) /\ Durable(k))
  BY DEF JobInvariant
<1>1. RunIsLive'
  BY <1>0, RunStaysLive
<1>2. CASE UNCHANGED vars
  BY <1>0, <1>2 DEF vars, JobInvariant, TypeOK, KidsShaped, KidShaped, RunIsLive, JobsFinished,
                    Trusted, Durable, MayGoOn
<1> SUFFICES ASSUME Next PROVE JobInvariant'
  BY <1>2
<1> DEFINE Kept == prompt' => \A t \in Tasks : task[t] \in Finished => task'[t] \in Finished
<1>3. /\ scope' = scope /\ prompt' \in BOOLEAN /\ (prompt' => prompt)
      /\ \/ ServerStep /\ Heeded(Kids)
         \/ \E k \in Kids : KidOrSo(k) /\ Heeded(Kids \ {k})
         \/ LapseStep /\ Heeded(Kids)
  BY <1>0, StepKinds
<1>4. ASSUME TypeOK', KidsShaped',
             prompt' => JobsFinished' /\ \A k \in Kids : Trusted(k)' /\ Durable(k)'
      PROVE  JobInvariant'
  BY <1>1, <1>4 DEF JobInvariant
<1>5. ASSUME ServerStep, Heeded(Kids) PROVE JobInvariant'
  <2>1. TypeOK'
    BY <1>0, <1>3, <1>5, ServerTypes
  <2>2. Kept
    BY <1>0, <1>5, ServerKeeps DEF Finished
  <2>3. kid' = kid \/ kid' = [k \in Kids |-> Free]
    BY <1>0, <1>5, ServerLeaves
  <2>4. CASE kid' = kid
    <3>1. KidsShaped'
      BY <1>0, <2>4 DEF KidsShaped, KidShaped
    <3>2. ASSUME prompt', NEW k \in Kids PROVE Trusted(k)' /\ Durable(k)'
      BY <1>0, <1>3, <1>5, <2>2, <2>4, <3>2, TrustKept, DurableKept DEF Heeded
    <3>3. prompt' => JobsFinished'
      BY <1>0, <1>3, <1>5, <2>2, ServerLeaves DEF JobsFinished, Finished
    <3> QED BY <1>4, <2>1, <3>1, <3>2, <3>3
  <2>5. CASE kid' = [k \in Kids |-> Free]
    <3>1. KidsShaped'
      BY <2>5 DEF KidsShaped, KidShaped, Free, Finding
    <3>2. ASSUME NEW k \in Kids PROVE Trusted(k)' /\ Durable(k)'
      BY <2>5 DEF Trusted, Durable, Free
    <3>3. prompt' => JobsFinished'
      BY <1>0, <1>3, <1>5, <2>2, ServerLeaves DEF JobsFinished, Finished
    <3> QED BY <1>4, <2>1, <3>1, <3>2, <3>3
  <2> QED BY <2>3, <2>4, <2>5
<1>6. ASSUME NEW l \in Kids, KidOrSo(l), Heeded(Kids \ {l}) PROVE JobInvariant'
  <2>1. TypeOK'
    BY <1>0, <1>3, <1>6, ProcessTypes
  <2>2. KidShaped(l)' /\ \A k \in Kids \ {l} : kid'[k] = kid[k]
    BY <1>0, <1>6, OwnStep DEF Moved
  <2>3. KidsShaped'
    BY <1>0, <2>2 DEF KidsShaped, KidShaped
  <2>4. Kept
    BY <1>0, <1>3, <1>6, ProcessKeeps
  <2>5. ASSUME prompt', NEW k \in Kids PROVE Trusted(k)' /\ Durable(k)'
    <3>1. CASE k = l
      BY <1>0, <1>3, <1>6, <2>5, <3>1, OwnTrust
    <3>2. CASE k # l
      BY <1>0, <1>3, <1>6, <2>2, <2>4, <2>5, <3>2, TrustKept, DurableKept DEF Heeded
    <3> QED BY <3>1, <3>2
  <2>6. ASSUME prompt', NEW t \in Tasks, job'[t].status = "completed"
        PROVE  task'[t] \in Finished
    <3>1. CASE job[t].status = "completed"
      BY <1>0, <1>3, <2>4, <2>6, <3>1 DEF JobsFinished, Finished
    <3>2. CASE job[t].status # "completed"
      <4>1. kid[l].pc = "reporting" /\ kid[l].outcome = "completed" /\ kid[l].task = t
        BY <1>0, <1>6, <2>6, <3>2, ProcessCompletes
      <4>2. task[t] \in Finished
        BY <1>0, <1>3, <2>6, <4>1 DEF Durable
      <4> QED BY <2>4, <2>6, <4>2
    <3> QED BY <3>1, <3>2
  <2>7. prompt' => JobsFinished'
    BY <2>6 DEF JobsFinished, Finished
  <2> QED BY <1>4, <2>1, <2>3, <2>5, <2>7
<1>7. ASSUME LapseStep, Heeded(Kids) PROVE JobInvariant'
  <2>1. /\ kid' = kid /\ server' = server /\ UNCHANGED Rows
        /\ \A t \in Tasks : job'[t].status = job[t].status
    BY <1>0, <1>7, LapseLeaves
  <2>2. TypeOK'
    BY <1>0, <1>3, <1>7, LapseTypes DEF LapseStep
  <2>3. KidsShaped' /\ task' = task
    BY <1>0, <2>1 DEF KidsShaped, KidShaped, Rows
  <2>4. ASSUME prompt', NEW k \in Kids PROVE Trusted(k)' /\ Durable(k)'
    BY <1>0, <1>3, <2>1, <2>3, <2>4, TrustKept, DurableKept
  <2>5. prompt' => JobsFinished'
    BY <1>0, <1>3, <2>1, <2>3 DEF JobsFinished
  <2> QED BY <1>4, <2>2, <2>3, <2>4, <2>5
<1> QED BY <1>3, <1>5, <1>6, <1>7

-----------------------------------------------------------------------------
(* The theorems *)

\* The inductive invariant: types, and, until a row changes behind a process, that what it
\* read still holds where it saves, and what jobs and rows say of each other.
THEOREM JobInvariantHolds == Spec => []JobInvariant
BY JobInvariantInit, JobInvariantStep, PTL DEF Spec

\* Type correctness of rows, jobs, leases, the server and the processes.
THEOREM TypeCorrect == Spec => []TypeOK
<1>1. JobInvariant => TypeOK
  BY DEF JobInvariant
<1> QED BY <1>1, JobInvariantHolds, PTL

\* Until a row changes between a process's read and the saves that rest on it, a completed
\* job's task has its result, or was stopped since (runtime.py:1395).
THEOREM CompletedJobsFinishedHolds == Spec => []CompletedJobsFinished
<1>1. JobInvariant => CompletedJobsFinished
  BY DEF JobInvariant, CompletedJobsFinished
<1> QED BY <1>1, JobInvariantHolds, PTL

\* Until then no process undoes a stop, a pause or an end, whatever it saves of the mission
\* it loaded at its start (mission_jobs.py:165).
THEOREM ControlsHoldHolds == Spec => ControlsHold
<1> DEFINE A == prompt' =>
                  /\ mission.status \in Ended => mission'.status = mission.status
                  /\ mission.status = "paused" /\ mission'.status # "paused" =>
                       control' \in {"none", "stopped"}
<1>1. ASSUME JobInvariant, [Next]_vars PROVE [A]_vars
  <2> USE <1>1 DEF JobInvariant
  <2>0. CASE mission' = mission
    BY <2>0
  <2>1. ASSUME mission.status \in {"running", "waiting"} PROVE A
    BY <2>1 DEF Ended
  <2>2. CASE (\E t \in Tasks : Dispatch(t)) \/ PollDone \/ PollFailed \/ Decide \/ Conclude
    <3>1. server.pc \in {"dispatching", "deciding", "polling"}
      BY <2>2, Zenon DEF Dispatch, PollDone, PollFailed, Decide, Conclude
    <3> QED BY <2>1, <3>1 DEF RunIsLive
  <2>3. CASE Stop \/ Pause \/ Kill
    BY <2>1, <2>3 DEF RunIsLive, Stop, Pause, Kill
  <2>4. CASE StopPaused
    BY <2>4 DEF StopPaused, Ended
  <2>5. CASE Resume
    BY <2>5 DEF Resume, Recover, Ended
  <2>6. CASE Boot
    BY <2>0, <2>1, <2>6 DEF Boot, Rows
  <2>7. CASE Shutdown
    BY <2>0, <2>1, <2>7 DEF RunIsLive, Shutdown, TypeOK, Servers
  <2>8. CASE NothingToDispatch \/ Crash
    BY <2>0, <2>8, Zenon DEF NothingToDispatch, Crash, Rows
  <2>9. ASSUME NEW k \in Kids, KidOrSo(k), prompt' => prompt PROVE A
    <3>1. prompt => (kid[k].pc = "charging" => MayGoOn(k))
      BY DEF Trusted
    <3>2. mission' = mission \/ kid[k].pc = "charging"
      BY <2>9, ProcessRow
    <3> QED BY <2>9, <3>1, <3>2 DEF MayGoOn
  <2>10. CASE LapseStep
    BY <2>0, <2>10, LapseLeaves DEF Rows
  <2>11. CASE UNCHANGED vars
    BY <2>11 DEF vars
  <2> HIDE DEF A
  <2> QED BY <2>2, <2>3, <2>4, <2>5, <2>6, <2>7, <2>8, <2>9, <2>10, <2>11, StepKinds
      DEF ServerStep
<1> QED BY <1>1, JobInvariantHolds, PTL DEF Spec, ControlsHold

\* Until then an attempt that was stopped never gets a result, nor is it begun, failed or
\* restored as it was (mission_jobs.py:167).
THEOREM StoppedAttemptsStayHolds == Spec => StoppedAttemptsStay
<1> DEFINE A == prompt' => \A t \in Tasks : task[t] = "stopped" => task'[t] = "stopped"
<1>1. ASSUME JobInvariant, [Next]_vars PROVE [A]_vars
  <2>0. TypeOK /\ KidsShaped /\ (prompt => \A k \in Kids : Trusted(k))
    BY <1>1 DEF JobInvariant
  <2>1. CASE UNCHANGED vars
    BY <2>1 DEF vars
  <2>2. CASE ServerStep
    <3>1. ASSUME NEW t \in Tasks, task[t] = "stopped" PROVE task'[t] = "stopped"
      BY <2>0, <2>2, <3>1, ServerKeeps DEF Finished
    <3> QED BY <3>1
  <2>3. ASSUME NEW k \in Kids, KidOrSo(k), prompt' => prompt PROVE A
    BY <2>0, <2>3, ProcessKeeps DEF Finished
  <2>4. CASE LapseStep
    <3>1. task' = task
      BY <2>0, <2>4, LapseLeaves DEF Rows
    <3> QED BY <3>1
  <2> QED BY <1>1, <2>0, <2>1, <2>2, <2>3, <2>4, StepKinds
<1> QED BY <1>1, JobInvariantHolds, PTL DEF Spec, StoppedAttemptsStay
=============================================================================
