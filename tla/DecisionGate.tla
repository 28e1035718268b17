---------------------------- MODULE DecisionGate ----------------------------
(***************************************************************************)
(* What stands between a controller's decision and its effect: the org and *)
(* finish branches of run(), _enforce_human_approval and _verify_finish in *)
(* app/runtime.py, PolicyGate's finish and approval clauses in             *)
(* app/policy.py, app/verifier.py and app/evidence.py.                     *)
(*                                                                         *)
(* A finish is a claim: the policy looks at it, a human may have to        *)
(* approve, the local check looks at the mission's tasks and at the        *)
(* evidence named, the evidence is run step by step, and a model judges.   *)
(* The controller waits at each of these, and meanwhile agents are killed, *)
(* what the evidence looks at changes, and the server may die.             *)
(***************************************************************************)
EXTENDS Naturals, Sequences, SequencesExt

CONSTANTS Specialists,
          Claims,      \* [blank, markers, steps]: a summary, what it asserts, evidence_steps
          TaskSteps,   \* the evidence steps a specialist's output names
          MaxSteps,    \* MAX_STEPS of evidence.py
          OptedIn,     \* SWARM_EVIDENCE
          HostsListed, \* SWARM_EVIDENCE_HTTP_HOSTS
          TestsAllowed,\* is SWARM_EVIDENCE_TEST_COMMAND one of the allowed ones?
          LocalOnly,   \* mission.privacy
          RequireApproval,  \* mission.limits.require_finish_approval
          MaxCrashes

Irreversible == {"replace", "reparent", "retire"}

\* "web": http://, https://, deployed to.  "file": created file, wrote file.
\* "deed": purchased, payment sent, emailed, browsed, ssh: nothing covers it.
Markers == {"web", "file", "deed"}
Kinds == {"pytest", "http", "file", "unknown"}
\* sound: well-formed, its paths allowed, its host listed.
Steps == UNION ({c.steps : c \in Claims} \cup {TaskSteps[s] : s \in Specialists})

ASSUME DecisionGateAssumption ==
  /\ \A c \in Claims : c.blank \in BOOLEAN /\ c.markers \subseteq Markers
  /\ \A e \in Steps : e.kind \in Kinds /\ e.sound \in BOOLEAN
  /\ MaxSteps \in Nat /\ MaxCrashes \in Nat
  /\ {OptedIn, HostsListed, TestsAllowed, LocalOnly, RequireApproval} \subseteq BOOLEAN

VARIABLES status,   \* of the mission's row
          pc,       \* where run() is
          task,     \* each specialist's task
          claim,    \* the decision being considered
          left,     \* the steps not yet run
          passed,   \* the steps that passed in this verification
          asked,    \* is an approval question pending?
          answers,  \* the approval answers of the row, oldest first
          world,    \* the steps that would pass if run now
          orgDone,  \* irreversible changes made, and those approved: a history
          crashes

vars == <<status, pc, task, claim, left, passed, asked, answers, world, orgDone, crashes>>

NoClaim == [blank |-> TRUE, markers |-> {}, steps |-> {}]
TaskStatus == {"absent", "pending", "completed", "blocked", "stopped"}
Ended == {"completed", "failed"}

Spawned == {s \in Specialists : task[s] # "absent"}
InFlight == {s \in Specialists : task[s] = "pending"}
Completed == {s \in Specialists : task[s] = "completed"}

Init ==
  /\ status = "running" /\ pc = "deciding"
  /\ task = [s \in Specialists |-> "absent"]
  /\ claim = NoClaim /\ left = {} /\ passed = {}
  /\ asked = FALSE /\ answers = <<>>
  /\ world \in SUBSET Steps
  /\ orgDone = {}
  /\ crashes = 0

\* A PolicyError or ProviderError ends the mission.
Fail == status' = "failed" /\ pc' = "ended"
GoTo(place) == pc' = place /\ UNCHANGED status

----------------------------------------------------------------------------
(* The controller's decisions *)

Spawn(s) ==
  /\ pc = "deciding" /\ task[s] = "absent"
  /\ task' = [task EXCEPT ![s] = "pending"]
  /\ UNCHANGED <<status, pc, claim, left, passed, asked, answers, world, orgDone, crashes>>

\* OrganizationDesigner.apply: validated, then done.
OrgChange(op) ==
  /\ pc = "deciding"
  /\ orgDone' = orgDone \cup {op}
  /\ UNCHANGED <<status, pc, task, claim, left, passed, asked, answers, world, crashes>>

\* wait: the tasks run, one after another.
TaskEnds(s, end) ==
  /\ pc = "deciding" /\ task[s] = "pending"
  /\ end \in {"completed", "blocked"}
  /\ task' = [task EXCEPT ![s] = end]
  /\ UNCHANGED <<status, pc, claim, left, passed, asked, answers, world, orgDone, crashes>>

Kill(s) ==
  /\ pc # "ended" /\ task[s] = "pending"
  /\ task' = [task EXCEPT ![s] = "stopped"]
  /\ UNCHANGED <<status, pc, claim, left, passed, asked, answers, world, orgDone, crashes>>

\* PolicyGate._authorize_finish
Refused(c) == InFlight # {} \/ c.blank

\* Faulty: any answer is taken for an approval.
Answered == answers # <<>>

\* _approval_granted: the latest approval answer counts, however old.
Granted == answers # <<>> /\ Last(answers) = "approve"
Withheld == answers # <<>> /\ Last(answers) # "approve"

Finish(c) ==
  /\ pc = "deciding"
  /\ claim' = c
  /\ \/ Refused(c) /\ Fail /\ UNCHANGED asked
     \/ ~Refused(c) /\ RequireApproval /\ Withheld /\ Fail /\ UNCHANGED asked
     \/ /\ ~Refused(c) /\ (RequireApproval => Granted)
        /\ GoTo("checking") /\ UNCHANGED asked
     \/ /\ ~Refused(c) /\ RequireApproval /\ answers = <<>>
        /\ asked' = TRUE /\ status' = "waiting" /\ pc' = "parked"
  /\ UNCHANGED <<task, left, passed, answers, world, orgDone, crashes>>

\* "unclear": neither an approve token nor a deny token.
Answer(a) ==
  /\ asked
  /\ a \in {"approve", "deny", "unclear"}
  /\ answers' = Append(answers, a) /\ asked' = FALSE
  /\ UNCHANGED <<status, pc, task, claim, left, passed, world, orgDone, crashes>>

\* Parked in _enforce_human_approval.
Interpret ==
  /\ pc = "parked" /\ ~asked
  /\ IF Granted THEN status' = "running" /\ pc' = "checking" ELSE Fail
  /\ UNCHANGED <<task, claim, left, passed, asked, answers, world, orgDone, crashes>>

\* Parked by a restart: the answer is marked consumed and the controller is
\* asked for a new decision.
Continue ==
  /\ pc = "reparked" /\ ~asked
  /\ status' = "running" /\ pc' = "deciding"
  /\ UNCHANGED <<task, claim, left, passed, asked, answers, world, orgDone, crashes>>

----------------------------------------------------------------------------
(* _verify_finish *)

\* Faulty: the steps beyond the limit are dropped.
CollectFew(c) ==
  LET all == c.steps \cup UNION {TaskSteps[s] : s \in Completed}
  IN CHOOSE S \in SUBSET all :
       Cardinality(S) = IF Cardinality(all) > MaxSteps THEN MaxSteps ELSE Cardinality(all)

\* collect_evidence_steps: those of the claim and of completed tasks.  It
\* keeps one more than the limit, which run() refuses.
Collect(c) == c.steps \cup UNION {TaskSteps[s] : s \in Completed}

Covered(steps) ==
  {m \in {"web"} : \E e \in steps : e.kind = "http"} \cup
  {m \in {"file"} : \E e \in steps : e.kind = "file"}

\* local_evidence_check
Unsupported(c) ==
  \/ c.blank
  \/ InFlight # {}
  \/ Spawned # {} /\ Completed = {}
  \/ ~(c.markers \subseteq Covered(Collect(c)))

\* check_claim_with_evidence: the steps are collected and checked at once,
\* before the first of them runs.
Check ==
  LET steps == Collect(claim) IN
  /\ pc = "checking"
  /\ passed' = {} /\ left' = steps
  /\ IF Unsupported(claim) \/ (steps # {} /\ (Cardinality(steps) > MaxSteps \/ ~OptedIn))
       THEN Fail
       ELSE GoTo("running steps")
  /\ UNCHANGED <<task, claim, asked, answers, world, orgDone, crashes>>

CanPass(e) ==
  /\ e.sound
  /\ e.kind = "pytest" => TestsAllowed
  /\ e.kind = "http" => ~LocalOnly /\ HostsListed
  /\ e.kind # "unknown"

\* A step's timeout and its error are failures; the others still run.
RunStep(e) ==
  /\ pc = "running steps" /\ e \in left
  /\ left' = left \ {e}
  /\ passed' = IF CanPass(e) /\ e \in world THEN passed \cup {e} ELSE passed
  /\ UNCHANGED <<status, pc, task, claim, asked, answers, world, orgDone, crashes>>

StepsDone ==
  /\ pc = "running steps" /\ left = {}
  /\ IF Collect(claim) \subseteq passed THEN GoTo("judging") ELSE Fail
  /\ UNCHANGED <<task, claim, left, passed, asked, answers, world, orgDone, crashes>>

\* The model's verdict; a missing or malformed one, or a failed call, is a
\* ProviderError.
Judge(verdict) ==
  /\ pc = "judging"
  /\ verdict \in {"pass", "fail", "inconclusive", "invalid"}
  /\ IF verdict = "pass" THEN status' = "completed" /\ pc' = "ended" ELSE Fail
  /\ UNCHANGED <<task, claim, left, passed, asked, answers, world, orgDone, crashes>>

----------------------------------------------------------------------------
\* A file, a page or a test changes.
WorldTurns(e) ==
  /\ pc # "ended"
  /\ world' = (world \ {e}) \cup ({e} \ world)
  /\ UNCHANGED <<status, pc, task, claim, left, passed, asked, answers, orgDone, crashes>>

\* The server restarts: the decision is gone, the rows are not.  Tasks in
\* flight become new attempts, which are run before the next decision unless
\* a question is pending.
Crash ==
  /\ crashes < MaxCrashes /\ pc # "ended"
  /\ crashes' = crashes + 1
  /\ pc' = IF asked THEN "reparked" ELSE "deciding"
  /\ status' = IF asked THEN "waiting" ELSE "running"
  /\ claim' = NoClaim /\ left' = {} /\ passed' = {}
  /\ UNCHANGED <<task, asked, answers, world, orgDone>>

Next ==
  \/ \E s \in Specialists : Spawn(s) \/ Kill(s) \/ \E end \in TaskStatus : TaskEnds(s, end)
  \/ \E op \in Irreversible : OrgChange(op)
  \/ \E c \in Claims : Finish(c)
  \/ \E a \in {"approve", "deny", "unclear"} : Answer(a)
  \/ Interpret \/ Continue
  \/ Check \/ StepsDone
  \/ \E e \in Steps : RunStep(e) \/ WorldTurns(e)
  \/ \E v \in {"pass", "fail", "inconclusive", "invalid"} : Judge(v)
  \/ Crash

Spec == Init /\ [][Next]_vars
----------------------------------------------------------------------------
(* Properties *)

\* Types of every variable.
TypeOK ==
  /\ status \in {"running", "waiting"} \cup Ended
  /\ pc \in {"deciding", "parked", "reparked", "checking", "running steps", "judging", "ended"}
  /\ task \in [Specialists -> TaskStatus]
  /\ claim \in Claims \cup {NoClaim}
  /\ left \subseteq Steps /\ passed \subseteq Steps /\ world \subseteq Steps
  /\ asked \in BOOLEAN
  /\ answers \in Seq({"approve", "deny", "unclear"})
  /\ orgDone \subseteq Irreversible
  /\ crashes \in 0 .. MaxCrashes

\* A mission that needs approval completes only with one, and never once a
\* human has denied it or answered neither, whatever restarts came between.
ApprovedBeforeDone ==
  status = "completed" /\ RequireApproval =>
    answers # <<>> /\ \A i \in 1 .. Len(answers) : answers[i] = "approve"

\* A completed mission rests on what was checked while it was being finished:
\* every step its claim and its specialists name passed, what the summary
\* says was put on the web or into a file has a step of that kind that
\* passed, nothing else was asserted, and some specialist, if there are any,
\* delivered.
DoneOnEvidence ==
  status = "completed" =>
    /\ claim.steps \subseteq passed
    /\ \A s \in Specialists : task[s] = "completed" => TaskSteps[s] \subseteq passed
    /\ "web" \in claim.markers => \E e \in passed : e.kind = "http" /\ ~LocalOnly
    /\ "file" \in claim.markers => \E e \in passed : e.kind = "file"
    /\ "deed" \notin claim.markers
    /\ \A s \in Specialists : task[s] # "pending"
    /\ (\E s \in Specialists : task[s] # "absent") =>
         \E s \in Specialists : task[s] = "completed"

\* policy.py:59: an irreversible organization change waits for a human's
\* approve or deny.
OrgChangesApproved == orgDone # {} => answers # <<>>
=============================================================================
