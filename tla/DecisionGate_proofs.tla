------------------------ MODULE DecisionGate_proofs ------------------------
(***************************************************************************)
(* Proofs about DecisionGate, for any specialists, any claims and steps of *)
(* evidence, any settings and any number of restarts.                      *)
(***************************************************************************)
EXTENDS DecisionGate, TLAPS

\* What is collected for a claim are steps.
LEMMA CollectTypes ==
  ASSUME NEW c \in Claims \cup {NoClaim}
  PROVE  Collect(c) \subseteq Steps
<1>1. c.steps \subseteq Steps
  BY DEF Steps, NoClaim
<1>2. \A s \in Specialists : TaskSteps[s] \subseteq Steps
  BY DEF Steps
<1> QED BY <1>1, <1>2 DEF Collect, Completed

\* An answer more is a sequence of answers.
LEMMA AppendTypes ==
  ASSUME NEW S, NEW q \in Seq(S), NEW x \in S
  PROVE  Append(q, x) \in Seq(S)
  OBVIOUS

\* The mission starts well typed.
LEMMA TypeInit == Init => TypeOK
<1> SUFFICES ASSUME Init PROVE TypeOK
  OBVIOUS
<1>1. 0 \in 0 .. MaxCrashes
  BY DecisionGateAssumption
<1>2. answers \in Seq({"approve", "deny", "unclear"})
  BY DEF Init
<1>3. task \in [Specialists -> TaskStatus]
  BY DEF Init, TaskStatus
<1> QED BY <1>1, <1>2, <1>3 DEF Init, TypeOK

\* No step leaves the types.
LEMMA TypeStep == TypeOK /\ [Next]_vars => TypeOK'
<1> SUFFICES ASSUME TypeOK, [Next]_vars PROVE TypeOK'
  OBVIOUS
<1>1. ASSUME NEW s \in Specialists,
             Spawn(s) \/ Kill(s) \/ \E end \in TaskStatus : TaskEnds(s, end)
      PROVE  TypeOK'
  BY <1>1 DEF Spawn, Kill, TaskEnds, TypeOK, TaskStatus
<1>2. ASSUME NEW op \in Irreversible, OrgChange(op) PROVE TypeOK'
  BY <1>2 DEF OrgChange, TypeOK
<1>3. ASSUME NEW c \in Claims, Finish(c) PROVE TypeOK'
  BY <1>3 DEF Finish, Fail, GoTo, TypeOK, Ended
<1>4. ASSUME NEW a \in {"approve", "deny", "unclear"}, Answer(a) PROVE TypeOK'
  <2>1. answers' \in Seq({"approve", "deny", "unclear"})
    BY <1>4, AppendTypes DEF Answer, TypeOK
  <2> QED BY <1>4, <2>1 DEF Answer, TypeOK
<1>5. CASE Interpret \/ Continue
  BY <1>5 DEF Interpret, Continue, Fail, TypeOK, Ended
<1>6. CASE Check
  <2>1. left' \subseteq Steps /\ passed' = {}
    BY <1>6, CollectTypes DEF Check, TypeOK
  <2> QED BY <1>6, <2>1 DEF Check, Fail, GoTo, TypeOK, Ended
<1>7. CASE StepsDone
  BY <1>7 DEF StepsDone, Fail, GoTo, TypeOK, Ended
<1>8. ASSUME NEW e \in Steps, RunStep(e) \/ WorldTurns(e) PROVE TypeOK'
  BY <1>8 DEF RunStep, WorldTurns, TypeOK
<1>9. ASSUME NEW v \in {"pass", "fail", "inconclusive", "invalid"}, Judge(v) PROVE TypeOK'
  BY <1>9 DEF Judge, Fail, TypeOK, Ended
<1>10. CASE Crash
  <2>1. crashes \in 0 .. MaxCrashes /\ crashes < MaxCrashes /\ MaxCrashes \in Nat
    BY <1>10, DecisionGateAssumption DEF Crash, TypeOK
  <2>2. crashes + 1 \in 0 .. MaxCrashes
    BY <2>1
  <2> QED BY <1>10, <2>2 DEF Crash, TypeOK
<1>11. CASE UNCHANGED vars
  BY <1>11 DEF vars, TypeOK
<1> QED
  BY <1>1, <1>2, <1>3, <1>4, <1>5, <1>6, <1>7, <1>8, <1>9, <1>10, <1>11 DEF Next

\* Type correctness: row, controller, tasks, verification and answers.
THEOREM TypeCorrect == Spec => []TypeOK
  BY TypeInit, TypeStep, PTL DEF Spec

-----------------------------------------------------------------------------
(* Approval *)

\* The controller has passed the approval of the claim it considers.
PastApproval ==
  pc \in {"checking", "running steps", "judging"} \/ status = "completed"

\* A question is put once: it is open only while run() is parked and nothing has
\* been answered, so there is never more than one answer, and the latest one, which
\* the code reads, is all of them.
ApprovalInvariant ==
  /\ TypeOK
  /\ asked => answers = <<>> /\ pc \in {"parked", "reparked"}
  /\ Len(answers) <= 1
  /\ status = "completed" => pc = "ended"
  /\ RequireApproval /\ PastApproval => Granted

\* Nothing is asked or answered at first.
LEMMA ApprovalInit == Init => ApprovalInvariant
  BY TypeInit DEF Init, ApprovalInvariant, PastApproval

\* The first answer is the only one.
LEMMA AnswerStep ==
  ASSUME ApprovalInvariant, NEW a \in {"approve", "deny", "unclear"}, Answer(a)
  PROVE  ApprovalInvariant'
<1>1. TypeOK'
  <2>1. TypeOK /\ [Next]_vars
    BY DEF ApprovalInvariant, Next
  <2> QED BY <2>1, TypeStep
<1>2. answers' = <<a>>
  BY DEF Answer, ApprovalInvariant
<1>3. pc' \in {"parked", "reparked"} /\ status' # "completed" /\ ~asked'
  BY DEF Answer, ApprovalInvariant, TypeOK
<1>4. Len(answers') <= 1
  BY <1>2
<1>5. ~PastApproval'
  BY <1>3 DEF PastApproval
<1> QED BY <1>1, <1>3, <1>4, <1>5 DEF ApprovalInvariant

\* A step that leaves controller, question and answers alone does not matter.
LEMMA ApprovalFrame ==
  ASSUME ApprovalInvariant, TypeOK', UNCHANGED <<status, pc, asked, answers>>
  PROVE  ApprovalInvariant'
<1>1. PastApproval' = PastApproval /\ Granted' = Granted
  BY DEF PastApproval, Granted
<1> QED BY <1>1 DEF ApprovalInvariant

\* Nor does one that ends the mission otherwise than as completed.
LEMMA ApprovalFail ==
  ASSUME ApprovalInvariant, TypeOK', Fail, UNCHANGED answers, ~asked'
  PROVE  ApprovalInvariant'
<1>1. ~PastApproval' /\ status' # "completed"
  BY DEF PastApproval, Fail
<1> QED BY <1>1 DEF ApprovalInvariant

\* The invariant is inductive.
LEMMA ApprovalStep == ApprovalInvariant /\ [Next]_vars => ApprovalInvariant'
<1> SUFFICES ASSUME ApprovalInvariant, [Next]_vars PROVE ApprovalInvariant'
  OBVIOUS
<1>0. TypeOK' /\ asked \in BOOLEAN
  BY TypeStep DEF ApprovalInvariant, TypeOK
<1>g. UNCHANGED answers => Granted' = Granted
  BY DEF Granted
<1>1. ASSUME NEW s \in Specialists,
             Spawn(s) \/ Kill(s) \/ \E end \in TaskStatus : TaskEnds(s, end)
      PROVE  ApprovalInvariant'
  <2>1. UNCHANGED <<status, pc, asked, answers>>
    BY <1>1 DEF Spawn, Kill, TaskEnds
  <2> QED BY <1>0, <2>1, ApprovalFrame
<1>2. ASSUME NEW op \in Irreversible, OrgChange(op) PROVE ApprovalInvariant'
  <2>1. UNCHANGED <<status, pc, asked, answers>>
    BY <1>2 DEF OrgChange
  <2> QED BY <1>0, <2>1, ApprovalFrame
<1>3. ASSUME NEW c \in Claims, Finish(c) PROVE ApprovalInvariant'
  <2>1. pc = "deciding" /\ UNCHANGED answers /\ ~asked
    BY <1>3 DEF Finish, ApprovalInvariant
  <2>2. CASE Fail /\ UNCHANGED asked
    BY <1>0, <2>1, <2>2, ApprovalFail
  <2>3. CASE (RequireApproval => Granted) /\ GoTo("checking") /\ UNCHANGED asked
    BY <1>0, <1>g, <2>1, <2>3 DEF GoTo, ApprovalInvariant, PastApproval
  <2>4. CASE answers = <<>> /\ status' = "waiting" /\ pc' = "parked"
    BY <1>0, <2>1, <2>4 DEF ApprovalInvariant, PastApproval
  <2> QED BY <1>3, <2>2, <2>3, <2>4 DEF Finish
<1>4. ASSUME NEW a \in {"approve", "deny", "unclear"}, Answer(a) PROVE ApprovalInvariant'
  BY <1>4, AnswerStep
<1>5. CASE Interpret
  <2>1. UNCHANGED answers /\ ~asked'
    BY <1>5 DEF Interpret
  <2>2. CASE Fail
    BY <1>0, <2>1, <2>2, ApprovalFail
  <2>3. CASE Granted /\ status' = "running" /\ pc' = "checking"
    BY <1>0, <1>g, <2>1, <2>3 DEF ApprovalInvariant
  <2> QED BY <1>5, <2>2, <2>3 DEF Interpret
<1>6. CASE Continue
  BY <1>0, <1>6 DEF Continue, ApprovalInvariant, PastApproval
<1>7. CASE Check \/ StepsDone
  <2>1. UNCHANGED <<asked, answers>> /\ ~asked /\ PastApproval
    BY <1>7 DEF Check, StepsDone, ApprovalInvariant, PastApproval
  <2>2. Fail \/ (UNCHANGED status /\ pc' \in {"running steps", "judging"})
    BY <1>7 DEF Check, StepsDone, GoTo
  <2>3. CASE UNCHANGED status /\ pc' \in {"running steps", "judging"}
    <3>1. status # "completed"
      BY <1>7 DEF Check, StepsDone, ApprovalInvariant
    <3> QED BY <1>0, <1>g, <2>1, <2>3, <3>1 DEF ApprovalInvariant, PastApproval
  <2> QED BY <1>0, <2>1, <2>2, <2>3, ApprovalFail
<1>8. ASSUME NEW e \in Steps, RunStep(e) \/ WorldTurns(e) PROVE ApprovalInvariant'
  <2>1. UNCHANGED <<status, pc, asked, answers>>
    BY <1>8 DEF RunStep, WorldTurns
  <2> QED BY <1>0, <2>1, ApprovalFrame
<1>9. ASSUME NEW v \in {"pass", "fail", "inconclusive", "invalid"}, Judge(v)
      PROVE  ApprovalInvariant'
  <2>1. UNCHANGED <<asked, answers>> /\ ~asked /\ PastApproval
    BY <1>9 DEF Judge, ApprovalInvariant, PastApproval
  <2>2. CASE Fail
    BY <1>0, <2>1, <2>2, ApprovalFail
  <2>3. CASE status' = "completed" /\ pc' = "ended"
    BY <1>0, <1>g, <2>1, <2>3 DEF ApprovalInvariant
  <2> QED BY <1>9, <2>2, <2>3 DEF Judge
<1>10. CASE Crash
  BY <1>0, <1>10 DEF Crash, ApprovalInvariant, PastApproval
<1>11. CASE UNCHANGED vars
  BY <1>0, <1>11, ApprovalFrame DEF vars
<1> QED
  BY <1>1, <1>2, <1>3, <1>4, <1>5, <1>6, <1>7, <1>8, <1>9, <1>10, <1>11 DEF Next

\* A completed mission that needs approval has it, and nobody ever said otherwise.
LEMMA ApprovalSuffices == ApprovalInvariant => ApprovedBeforeDone
<1> SUFFICES ASSUME ApprovalInvariant, status = "completed", RequireApproval
             PROVE  answers # <<>> /\ \A i \in 1 .. Len(answers) : answers[i] = "approve"
  BY DEF ApprovedBeforeDone
<1>1. answers # <<>> /\ Last(answers) = "approve"
  BY DEF ApprovalInvariant, PastApproval, Granted
<1>2. answers \in Seq({"approve", "deny", "unclear"}) /\ Len(answers) <= 1
  BY DEF ApprovalInvariant, TypeOK
<1>3. ASSUME NEW n \in Nat, n <= 1, n # 0 PROVE n = 1
  BY <1>3
<1>4. Len(answers) \in Nat /\ Len(answers) # 0
  BY <1>1, <1>2
<1>5. Len(answers) = 1
  BY <1>2, <1>3, <1>4
<1> QED BY <1>1, <1>5 DEF Last

\* A mission that needs a person's approval completes only with it, through any
\* restarts, kills and answers.
THEOREM ApprovedBeforeDoneHolds == Spec => []ApprovedBeforeDone
  BY ApprovalInit, ApprovalStep, ApprovalSuffices, PTL DEF Spec

-----------------------------------------------------------------------------
(* Evidence *)

\* What passed could pass.  From the check on nothing the check looked at changes,
\* and from the judge on everything collected has passed.
EvidenceInvariant ==
  /\ TypeOK
  /\ \A e \in passed : CanPass(e)
  /\ status = "completed" => pc = "ended"
  /\ pc \in {"running steps", "judging"} \/ status = "completed" => ~Unsupported(claim)
  /\ pc = "judging" \/ status = "completed" => Collect(claim) \subseteq passed

\* Nothing has passed at first.
LEMMA EvidenceInit == Init => EvidenceInvariant
  BY TypeInit DEF Init, EvidenceInvariant

\* Whether a claim is supported depends on the tasks alone, which stay as they are
\* once none is pending and run() is not deciding.
LEMMA KillStep ==
  ASSUME EvidenceInvariant, NEW s \in Specialists, Kill(s)
  PROVE  pc \notin {"running steps", "judging"} /\ status # "completed"
  BY DEF EvidenceInvariant, Kill, Unsupported, InFlight

\* The invariant is inductive.
LEMMA EvidenceStep == EvidenceInvariant /\ [Next]_vars => EvidenceInvariant'
<1> SUFFICES ASSUME EvidenceInvariant, [Next]_vars PROVE EvidenceInvariant'
  OBVIOUS
<1>0. TypeOK'
  BY TypeStep DEF EvidenceInvariant
<1> DEFINE Kept == UNCHANGED <<task, claim>>
<1>k. ASSUME Kept PROVE /\ Unsupported(claim)' = Unsupported(claim)
                        /\ Collect(claim)' = Collect(claim)
  BY <1>k DEF Unsupported, Collect, Spawned, InFlight, Completed
<1>p. \A e : CanPass(e)' = CanPass(e)
  BY DEF CanPass
<1>1. ASSUME NEW s \in Specialists, Spawn(s) \/ \E end \in TaskStatus : TaskEnds(s, end)
      PROVE  EvidenceInvariant'
  BY <1>0, <1>1, <1>p DEF Spawn, TaskEnds, EvidenceInvariant
<1>2. ASSUME NEW s \in Specialists, Kill(s) PROVE EvidenceInvariant'
  <2>1. UNCHANGED <<status, pc, passed>>
    BY <1>2 DEF Kill
  <2> QED BY <1>0, <1>2, <1>p, <2>1, KillStep DEF EvidenceInvariant
<1>3. ASSUME NEW op \in Irreversible, OrgChange(op) PROVE EvidenceInvariant'
  BY <1>0, <1>3, <1>p, <1>k DEF OrgChange, EvidenceInvariant
<1>4. ASSUME NEW c \in Claims, Finish(c) PROVE EvidenceInvariant'
  BY <1>0, <1>4, <1>p DEF Finish, Fail, GoTo, EvidenceInvariant
<1>5. ASSUME NEW a \in {"approve", "deny", "unclear"}, Answer(a) PROVE EvidenceInvariant'
  BY <1>0, <1>5, <1>p, <1>k DEF Answer, EvidenceInvariant
<1>6. CASE Interpret \/ Continue
  BY <1>0, <1>6, <1>p, <1>k DEF Interpret, Continue, Fail, EvidenceInvariant
<1>7. CASE Check
  <2>1. Kept /\ passed' = {}
    BY <1>7 DEF Check
  <2> QED BY <1>0, <1>7, <1>p, <1>k, <2>1 DEF Check, Fail, GoTo, EvidenceInvariant
<1>8. CASE StepsDone
  BY <1>0, <1>8, <1>p, <1>k DEF StepsDone, Fail, GoTo, EvidenceInvariant
<1>9. ASSUME NEW e \in Steps, RunStep(e) PROVE EvidenceInvariant'
  <2>1. Kept /\ pc = "running steps" /\ UNCHANGED <<status, pc>>
    BY <1>9 DEF RunStep
  <2>2. \A x \in passed' : CanPass(x)
    BY <1>9 DEF RunStep, EvidenceInvariant
  <2> QED BY <1>0, <1>p, <1>k, <2>1, <2>2 DEF EvidenceInvariant
<1>10. ASSUME NEW e \in Steps, WorldTurns(e) PROVE EvidenceInvariant'
  BY <1>0, <1>10, <1>p, <1>k DEF WorldTurns, EvidenceInvariant
<1>11. ASSUME NEW v \in {"pass", "fail", "inconclusive", "invalid"}, Judge(v)
       PROVE  EvidenceInvariant'
  BY <1>0, <1>11, <1>p, <1>k DEF Judge, Fail, EvidenceInvariant
<1>12. CASE Crash
  BY <1>0, <1>12, <1>p DEF Crash, EvidenceInvariant
<1>13. CASE UNCHANGED vars
  BY <1>0, <1>13, <1>p, <1>k DEF vars, EvidenceInvariant
<1> QED
  BY <1>1, <1>2, <1>3, <1>4, <1>5, <1>6, <1>7, <1>8, <1>9, <1>10, <1>11, <1>12, <1>13 DEF Next

\* A claim that is supported and whose steps passed rests on evidence.
LEMMA EvidenceSuffices == EvidenceInvariant => DoneOnEvidence
<1> SUFFICES ASSUME EvidenceInvariant, status = "completed" PROVE DoneOnEvidence
  BY DEF DoneOnEvidence
<1>1. ~Unsupported(claim) /\ Collect(claim) \subseteq passed /\ \A e \in passed : CanPass(e)
  BY DEF EvidenceInvariant
<1>2. claim.steps \subseteq passed
  BY <1>1 DEF Collect
<1>3. \A s \in Specialists : task[s] = "completed" => TaskSteps[s] \subseteq passed
  BY <1>1 DEF Collect, Completed
<1>4. \A m \in claim.markers : m \in Covered(Collect(claim))
  BY <1>1 DEF Unsupported
<1>5. "web" \in claim.markers => \E e \in passed : e.kind = "http" /\ ~LocalOnly
  BY <1>1, <1>4 DEF Covered, CanPass
<1>6. "file" \in claim.markers => \E e \in passed : e.kind = "file"
  BY <1>1, <1>4 DEF Covered
<1>7. "deed" \notin claim.markers
  BY <1>4 DEF Covered
<1>8. InFlight = {} /\ (Spawned # {} => Completed # {})
  BY <1>1 DEF Unsupported
<1> QED
  BY <1>2, <1>3, <1>5, <1>6, <1>7, <1>8 DEF DoneOnEvidence, InFlight, Spawned, Completed

\* A completed mission rests on what passed in the verification that completed it,
\* whatever its evidence, its tasks and the world it looks at did meanwhile.
THEOREM DoneOnEvidenceHolds == Spec => []DoneOnEvidence
  BY EvidenceInit, EvidenceStep, EvidenceSuffices, PTL DEF Spec
=============================================================================
