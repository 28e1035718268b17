---------------------------- MODULE OrgTree_proofs ----------------------------
(***************************************************************************)
(* Proofs about OrgTree, for any agents and limits and any sequence of     *)
(* changes, kills, pauses and crashes.                                     *)
(***************************************************************************)
EXTENDS OrgTree, FiniteSetTheorems, TLAPS

-----------------------------------------------------------------------------
(* Trees *)

\* Whoever is there, the controller excepted, has a parent that is there.
Placed(spec) ==
  \A a \in Agents \ {Root} : spec[a].status # "absent" =>
    spec[a].parent \in Agents /\ spec[spec[a].parent].status # "absent"

LEMMA TreePlaced == ASSUME NEW spec, Tree(spec) PROVE Placed(spec)
<1> SUFFICES ASSUME NEW a \in Agents \ {Root}, spec[a].status # "absent"
             PROVE  spec[a].parent \in Agents /\ spec[spec[a].parent].status # "absent"
  BY DEF Placed
<1>1. {a} \in SUBSET {b \in Agents \ {Root} : spec[b].status # "absent"} /\ {a} # {}
  OBVIOUS
<1> QED BY <1>1 DEF Tree

\* What does not change who is there, and below whom, keeps the tree.
LEMMA SameTree ==
  ASSUME NEW old, NEW new, Tree(old),
         \A a \in Agents : /\ new[a].parent = old[a].parent
                           /\ new[a].status = "absent" <=> old[a].status = "absent"
  PROVE  Tree(new)
<1> SUFFICES ASSUME NEW S \in SUBSET {a \in Agents \ {Root} : new[a].status # "absent"}, S # {}
             PROVE  \E a \in S : /\ new[a].parent \notin S
                                 /\ new[a].parent \in Agents
                                 /\ new[new[a].parent].status # "absent"
  BY DEF Tree
<1>1. S \in SUBSET {a \in Agents \ {Root} : old[a].status # "absent"}
  OBVIOUS
<1>2. PICK a \in S : /\ old[a].parent \notin S /\ old[a].parent \in Agents
                     /\ old[old[a].parent].status # "absent"
  BY <1>1 DEF Tree
<1>3. a \in Agents /\ new[a].parent = old[a].parent
  OBVIOUS
<1> QED BY <1>2, <1>3

\* A new agent below one that is there keeps the tree.
LEMMA SpawnKeepsTree ==
  ASSUME NEW old, NEW new, Tree(old), NEW n \in Agents, NEW p \in Agents,
         old[n].status = "absent", old[p].status # "absent",
         new[n].parent = p, new[n].status # "absent",
         \A a \in Agents : a # n => new[a] = old[a]
  PROVE  Tree(new)
<1> SUFFICES ASSUME NEW S \in SUBSET {a \in Agents \ {Root} : new[a].status # "absent"}, S # {}
             PROVE  \E a \in S : /\ new[a].parent \notin S
                                 /\ new[a].parent \in Agents
                                 /\ new[new[a].parent].status # "absent"
  BY DEF Tree
<1> DEFINE T == S \ {n}
<1>1. n # p /\ new[p].status # "absent"
  OBVIOUS
<1>2. CASE T = {}
  <2>1. S = {n}
    BY <1>2
  <2> QED BY <1>1, <2>1
<1>3. CASE T # {}
  <2>1. T \in SUBSET {a \in Agents \ {Root} : old[a].status # "absent"}
    OBVIOUS
  <2>2. PICK a \in T : /\ old[a].parent \notin T /\ old[a].parent \in Agents
                       /\ old[old[a].parent].status # "absent"
    BY <1>3, <2>1 DEF Tree
  <2>3. old[a].parent # n /\ new[a] = old[a] /\ new[old[a].parent] = old[old[a].parent]
    BY <2>2
  <2> QED BY <2>2, <2>3
<1> QED BY <1>2, <1>3

\* Moving an agent below one that is outside of what hangs below it keeps the tree.
LEMMA MoveKeepsTree ==
  ASSUME NEW new, Tree(agent), NEW a \in Present, NEW p \in Present,
         NEW Z \in SUBSET Agents, a \in Z, ClosedBelow(Z), p \notin Z,
         new[a].parent = p, new[a].status = agent[a].status,
         \A b \in Agents : b # a => new[b] = agent[b]
  PROVE  Tree(new)
<1> SUFFICES ASSUME NEW S \in SUBSET {b \in Agents \ {Root} : new[b].status # "absent"}, S # {}
             PROVE  \E b \in S : /\ new[b].parent \notin S
                                 /\ new[b].parent \in Agents
                                 /\ new[new[b].parent].status # "absent"
  BY DEF Tree
<1>1. \A b \in Agents : new[b].status = agent[b].status
  OBVIOUS
<1>2. S \in SUBSET {b \in Agents \ {Root} : agent[b].status # "absent"}
  BY <1>1
<1>3. p \in Agents /\ new[p].status # "absent"
  BY <1>1 DEF Present
<1>4. CASE a \notin S
  <2>1. PICK b \in S : /\ agent[b].parent \notin S /\ agent[b].parent \in Agents
                       /\ agent[agent[b].parent].status # "absent"
    BY <1>2 DEF Tree
  <2>2. new[b] = agent[b]
    BY <1>4
  <2> QED BY <1>1, <2>1, <2>2
<1>5. CASE a \in S /\ p \notin S
  BY <1>3, <1>5
<1>6. CASE a \in S /\ p \in S
  <2> DEFINE T == S \ Z
  <2>1. T # {} /\ T \in SUBSET {b \in Agents \ {Root} : agent[b].status # "absent"}
    BY <1>2, <1>6
  <2>2. PICK b \in T : /\ agent[b].parent \notin T /\ agent[b].parent \in Agents
                       /\ agent[agent[b].parent].status # "absent"
    BY <2>1 DEF Tree
  <2>3. b \in S /\ b \notin Z /\ b # a /\ b \in Present
    BY <1>2, <2>2 DEF Present
  <2>4. agent[b].parent \notin Z
    BY <2>2, <2>3 DEF ClosedBelow, Children
  <2>5. new[b] = agent[b] /\ agent[b].parent \notin S
    BY <2>2, <2>3, <2>4
  <2> QED BY <1>1, <2>2, <2>3, <2>5
<1> QED BY <1>4, <1>5, <1>6

\* What hangs below an agent: the agent, its children, theirs.
LEMMA SubtreeClosed ==
  ASSUME NEW a \in Agents
  PROVE  /\ Subtree(a) \in SUBSET Agents /\ a \in Subtree(a) /\ ClosedBelow(Subtree(a))
         /\ \A S \in SUBSET Agents : a \in S /\ ClosedBelow(S) => Subtree(a) \subseteq S
<1>1. Subtree(a) \in SUBSET Agents /\ a \in Subtree(a)
  BY DEF Subtree
<1>2. \A S \in SUBSET Agents : a \in S /\ ClosedBelow(S) => Subtree(a) \subseteq S
  BY DEF Subtree
<1>3. ASSUME NEW x \in Subtree(a), NEW c \in Children(x) PROVE c \in Subtree(a)
  <2>1. c \in Agents
    BY <1>3 DEF Children, Present
  <2>2. ASSUME NEW S \in SUBSET Agents, a \in S, ClosedBelow(S) PROVE c \in S
    BY <1>2, <1>3, <2>2 DEF ClosedBelow
  <2> QED BY <2>1, <2>2 DEF Subtree
<1> QED BY <1>1, <1>2, <1>3 DEF ClosedBelow

-----------------------------------------------------------------------------
(* The invariant *)

\* The rows lag behind the runtime by the agent last moved at most.
RowsBehind ==
  \A a \in Agents : /\ saved[a].status = agent[a].status
                    /\ saved[a] = agent[a] \/ (plan.step = "fix" /\ a = plan.moved)

\* Whom the rest of a change is about is there, or still to be spawned.
PlanAbout ==
  /\ plan.moves \subseteq Present \ {Root}
  /\ plan.step \in {"idle", "assign"} => plan.moves = {}
  /\ plan.step = "spawn" => plan.new \in Agents \ Present /\ plan.under \in Present
  /\ plan.step = "move" => plan.new \in Present
  /\ plan.step = "fix" => /\ plan.moved \in Present \ {Root}
                          /\ plan.fixing \subseteq Present \ {Root, plan.moved}
                          /\ plan.new # Nobody => plan.new \in Present
                          /\ plan.moves # {} => plan.new # Nobody

\* Below what is still to be moved there is neither the replacement nor its parent.
Target == IF plan.step = "spawn" THEN plan.under ELSE plan.new

Separated ==
  plan.moves # {} =>
    \E S \in SUBSET Agents : plan.moves \subseteq S /\ ClosedBelow(S) /\ Target \notin S

\* Only an agent that is live, and not the controller, has work to do.
BusyLive == \A a \in Agents : busy[a] => a # Root /\ a \in Live

OrgInvariant ==
  /\ TypeOK /\ Tree(agent) /\ Tree(saved)
  /\ Root \in Present /\ agent[Root].parent = Nobody
  /\ RowsBehind /\ PlanAbout /\ Separated /\ BusyLive

\* The plan of a step that is no change of plan.
LEMMA IdlePlans == Idle \in Plans /\ Assigning \in Plans
  BY DEF Idle, Assigning, Plans

\* What does not change who is there and below whom changes no place.
LEMMA SamePlaces ==
  ASSUME TypeOK,
         \A a \in Agents : /\ agent'[a].parent = agent[a].parent
                           /\ agent'[a].status = "absent" <=> agent[a].status = "absent"
  PROVE  /\ Present' = Present /\ \A x : Children(x)' = Children(x)
         /\ \A S : ClosedBelow(S)' <=> ClosedBelow(S)
<1>1. Present' = Present
  BY DEF Present
<1>2. ASSUME NEW x PROVE Children(x)' = Children(x)
  BY <1>1 DEF Children, Present
<1>3. ASSUME NEW S PROVE ClosedBelow(S)' <=> ClosedBelow(S)
  BY <1>2 DEF ClosedBelow
<1> QED BY <1>1, <1>2, <1>3

LEMMA OrgInvariantInit == Init => OrgInvariant
<1> SUFFICES ASSUME Init PROVE OrgInvariant
  OBVIOUS
<1>1. /\ agent[Root] = [parent |-> Nobody, depth |-> 0, status |-> "created"] /\ saved = agent
      /\ \A a \in Agents : a # Root => agent[a] = Absent
      /\ plan = Idle
  BY OrgAssumption DEF Init
<1>2. Present = {Root}
  BY <1>1, OrgAssumption DEF Present, Absent
<1>3. agent \in [Agents -> Specs]
  BY OrgAssumption DEF Init, Specs, Absent
<1>4. TypeOK
  BY <1>3, IdlePlans DEF Init, TypeOK
<1>5. Tree(agent)
  BY <1>1 DEF Tree, Absent
<1>6. BusyLive
  BY DEF Init, BusyLive
<1> QED BY <1>1, <1>2, <1>4, <1>5, <1>6 DEF OrgInvariant, RowsBehind, PlanAbout, Separated, Idle

\* save_agent() with another status, and what it leaves.
PutStatus(a, s) == Put(a, [agent[a] EXCEPT !.status = s])

StatusSaved(a, s) ==
  /\ agent' \in [Agents -> Specs] /\ saved' \in [Agents -> Specs]
  /\ Tree(agent') /\ Tree(saved')
  /\ \A b \in Agents : agent'[b].parent = agent[b].parent
  /\ \A b \in Agents : agent'[b].depth = agent[b].depth
  /\ \A b \in Agents : b # a => agent'[b].status = agent[b].status
  /\ agent'[a].status = s
  /\ \A b \in Agents : saved'[b].status = agent'[b].status
  /\ \A b \in Agents : saved'[b] = agent'[b] \/ (plan.step = "fix" /\ b = plan.moved)

LEMMA StatusStep ==
  ASSUME OrgInvariant, NEW a \in Present, NEW s \in {"created", "blocked", "done", "stopped"},
         PutStatus(a, s)
  PROVE  StatusSaved(a, s)
<1> USE DEF OrgInvariant
<1> DEFINE spec == [agent[a] EXCEPT !.status = s]
<1>0. a \in Agents
  BY DEF Present
<1>1. agent[a] \in Specs
  BY <1>0 DEF TypeOK
<1>2. spec \in Specs /\ spec.parent = agent[a].parent /\ spec.depth = agent[a].depth /\ spec.status = s
  BY <1>1 DEF Specs
<1>3. agent' = [agent EXCEPT ![a] = spec] /\ saved' = [saved EXCEPT ![a] = spec]
  BY DEF Put, PutStatus
<1> HIDE DEF spec
<1>4. agent' \in [Agents -> Specs] /\ saved' \in [Agents -> Specs]
  BY <1>2, <1>3 DEF TypeOK
<1>5. \A b \in Agents : agent'[b] = (IF b = a THEN spec ELSE agent[b])
                         /\ saved'[b] = (IF b = a THEN spec ELSE saved[b])
  BY <1>3 DEF TypeOK
<1>6. Tree(agent')
  BY <1>2, <1>5, SameTree DEF Present
<1>7. Tree(saved')
  <2>1. CASE saved[a] = agent[a]
    BY <1>2, <1>5, <2>1, SameTree DEF Present
  <2>2. CASE saved[a] # agent[a]
    <3>1. \A b \in Agents : b # a => saved[b] = agent[b]
      BY <2>2, <1>0 DEF RowsBehind
    <3>2. \A b \in Agents : saved'[b] = agent'[b]
      BY <1>5, <3>1
    <3> QED BY <1>6, <3>2, SameTree
  <2> QED BY <2>1, <2>2
<1>8. \A b \in Agents : /\ saved'[b].status = agent'[b].status
                        /\ saved'[b] = agent'[b] \/ (plan.step = "fix" /\ b = plan.moved)
  BY <1>5 DEF RowsBehind
<1>9. /\ \A b \in Agents : agent'[b].parent = agent[b].parent
      /\ \A b \in Agents : agent'[b].depth = agent[b].depth
      /\ \A b \in Agents : b # a => agent'[b].status = agent[b].status
      /\ agent'[a].status = s
  BY <1>0, <1>2, <1>5
<1> QED BY <1>4, <1>6, <1>7, <1>8, <1>9 DEF StatusSaved

\* Nobody comes, goes or moves.
SamePlace ==
  \A a \in Agents : /\ agent'[a].parent = agent[a].parent
                    /\ agent'[a].status = "absent" <=> agent[a].status = "absent"

LEMMA StatusPlace ==
  ASSUME NEW a \in Present, NEW s \in {"created", "blocked", "done", "stopped"}, StatusSaved(a, s)
  PROVE  SamePlace
<1>1. \A b \in Agents : agent'[b].parent = agent[b].parent
  BY DEF StatusSaved
<1>2. \A b \in Agents : agent'[b].status = "absent" <=> agent[b].status = "absent"
  BY DEF StatusSaved, Present
<1> QED BY <1>1, <1>2 DEF SamePlace

\* The steps that change no parent keep the tree.
LEMMA QuietStep ==
  ASSUME OrgInvariant, SamePlace, TypeOK', Tree(agent'), Tree(saved'), RowsBehind',
         PlanAbout', Separated', BusyLive'
  PROVE  OrgInvariant'
<1>1. Present' = Present
  BY SamePlaces DEF OrgInvariant, SamePlace
<1>2. agent'[Root].parent = Nobody
  BY OrgAssumption DEF OrgInvariant, SamePlace
<1> QED BY <1>1, <1>2 DEF OrgInvariant

\* A plan that stays as it is, or is dropped, fits as before.
LEMMA QuietPlan ==
  ASSUME OrgInvariant, SamePlace, plan' = plan \/ plan' = Assigning \/ plan' = Idle
  PROVE  PlanAbout' /\ Separated'
<1>1. Present' = Present /\ \A S : ClosedBelow(S)' <=> ClosedBelow(S)
  BY SamePlaces DEF OrgInvariant, SamePlace
<1>2. CASE plan' = plan
  BY <1>1, <1>2 DEF OrgInvariant, PlanAbout, Separated, Target
<1>3. CASE plan' = Assigning \/ plan' = Idle
  BY <1>3 DEF PlanAbout, Separated, Assigning, Idle
<1> QED BY <1>2, <1>3

\* All that a step which saves a status, and leaves the plan, has to show.
LEMMA StatusKeeps ==
  ASSUME OrgInvariant, NEW a \in Present, NEW s \in {"created", "blocked", "done", "stopped"},
         StatusSaved(a, s), UNCHANGED <<maxDepth, plan, cut>>,
         busy' \in [Agents -> BOOLEAN], excused' \subseteq Agents,
         \A b \in Agents : busy'[b] => busy[b] /\ (b = a => s # "stopped")
  PROVE  OrgInvariant'
<1>1. TypeOK'
  BY DEF OrgInvariant, TypeOK, StatusSaved
<1>2. RowsBehind'
  BY DEF RowsBehind, StatusSaved
<1>3. SamePlace
  BY StatusPlace
<1>4. BusyLive'
  <2> SUFFICES ASSUME NEW b \in Agents, busy'[b] PROVE b # Root /\ b \in Live'
    BY DEF BusyLive
  <2>1. b # Root /\ b \in Live /\ (b = a => s # "stopped")
    BY DEF OrgInvariant, BusyLive
  <2>2. CASE b = a
    BY <2>1, <2>2 DEF StatusSaved, Live
  <2>3. CASE b # a
    BY <2>1, <2>3 DEF StatusSaved, Live
  <2> QED BY <2>1, <2>2, <2>3
<1>5. Tree(agent') /\ Tree(saved')
  BY DEF StatusSaved
<1> QED BY <1>1, <1>2, <1>3, <1>4, <1>5, QuietStep, QuietPlan

LEMMA RetireStep ==
  ASSUME OrgInvariant, NEW t \in Agents, Retire(t)
  PROVE  OrgInvariant' /\ t \in Present /\ StatusSaved(t, "stopped")
<1>1. t \in Present /\ PutStatus(t, "stopped") /\ ~busy[t]
  BY DEF Retire, MayRetire, Live, Present, PutStatus
<1>2. UNCHANGED <<maxDepth, busy, plan, excused, cut>>
  BY DEF Retire
<1>3. StatusSaved(t, "stopped")
  BY <1>1, StatusStep
<1>4. busy' \in [Agents -> BOOLEAN] /\ excused' \subseteq Agents
  BY <1>2 DEF OrgInvariant, TypeOK
<1>5. \A b \in Agents : busy'[b] => busy[b] /\ b # t
  BY <1>1, <1>2
<1>6. OrgInvariant'
  BY <1>1, <1>2, <1>3, <1>4, <1>5, StatusKeeps
<1> QED BY <1>1, <1>3, <1>6

LEMMA KillStep ==
  ASSUME OrgInvariant, NEW a \in Agents, Kill(a)
  PROVE  OrgInvariant' /\ a \in Present /\ StatusSaved(a, "stopped")
<1>1. a \in Present /\ PutStatus(a, "stopped")
  BY DEF Kill, Present, PutStatus
<1>2. /\ UNCHANGED <<maxDepth, plan, cut>> /\ excused' \subseteq Agents
      /\ busy' = [busy EXCEPT ![a] = FALSE]
  BY DEF Kill, OrgInvariant, TypeOK
<1>3. StatusSaved(a, "stopped")
  BY <1>1, StatusStep
<1>4. busy' \in [Agents -> BOOLEAN] /\ \A b \in Agents : busy'[b] => busy[b] /\ b # a
  BY <1>2 DEF OrgInvariant, TypeOK
<1>5. OrgInvariant'
  BY <1>1, <1>2, <1>3, <1>4, StatusKeeps
<1> QED BY <1>1, <1>3, <1>5

LEMMA WorkStep ==
  ASSUME OrgInvariant, NEW a \in Agents, Work(a)
  PROVE  /\ OrgInvariant' /\ a \in Live
         /\ \E end \in {"done", "blocked"} : StatusSaved(a, end)
<1>1. PICK end \in {"done", "blocked"} : PutStatus(a, end)
  BY DEF Work, PutStatus
<1>2. a \in Live /\ a \in Present
  BY DEF Work, OrgInvariant, BusyLive, Live, Present
<1>3. UNCHANGED <<maxDepth, plan, excused, cut>> /\ busy' = [busy EXCEPT ![a] = FALSE]
  BY DEF Work
<1>4. StatusSaved(a, end)
  BY <1>1, <1>2, StatusStep
<1>5. /\ busy' \in [Agents -> BOOLEAN] /\ excused' \subseteq Agents
      /\ \A b \in Agents : busy'[b] => busy[b] /\ b # a
  BY <1>3 DEF OrgInvariant, TypeOK
<1>6. OrgInvariant'
  BY <1>2, <1>3, <1>4, <1>5, StatusKeeps
<1> QED BY <1>2, <1>4, <1>6

\* The rest of a change is given up, or there was none.
LEMMA DroppedStep ==
  ASSUME OrgInvariant, Assign \/ PauseBeforeSpawn \/ Crash
  PROVE  /\ OrgInvariant' /\ plan' \in {Assigning, Idle}
         /\ \A a \in Agents : agent'[a].status = agent[a].status
         /\ agent' = agent \/ (agent' = saved /\ cut')
<1> USE DEF OrgInvariant
<1>1. /\ plan' \in {Assigning, Idle}
      /\ saved' = saved /\ UNCHANGED <<maxDepth, excused>>
      /\ busy' \in [Agents -> BOOLEAN] /\ cut' \in BOOLEAN
      /\ agent' = saved \/ (agent' = agent /\ plan.step # "fix")
  BY DEF Assign, PauseBeforeSpawn, Crash, TypeOK
<1>2. TypeOK'
  BY <1>1, IdlePlans DEF TypeOK
<1>3. Tree(agent') /\ Tree(saved') /\ RowsBehind'
  BY <1>1 DEF RowsBehind
<1>4. \A a \in Agents : agent'[a].status = agent[a].status
  BY <1>1 DEF RowsBehind
<1>5. PlanAbout' /\ Separated'
  BY <1>1 DEF PlanAbout, Separated, Assigning, Idle
<1>6. agent'[Root].parent = Nobody
  <2>1. plan.step = "fix" => plan.moved # Root
    BY DEF PlanAbout
  <2> QED BY <1>1, <2>1, OrgAssumption DEF RowsBehind
<1>7. BusyLive'
  <2> SUFFICES ASSUME NEW a \in Agents, busy'[a] PROVE a # Root /\ agent[a].status \notin {"absent", "stopped"}
    BY <1>4 DEF BusyLive, Live
  <2>1. busy[a] \/ (a # Root /\ agent[a].status = "created")
    BY DEF Assign, PauseBeforeSpawn, Crash
  <2> QED BY <2>1 DEF BusyLive, Live
<1>8. agent' = agent \/ (agent' = saved /\ cut')
  <2>1. plan.step \in {"idle", "assign"} => saved = agent
    BY DEF RowsBehind, TypeOK
  <2> QED BY <2>1 DEF Assign, PauseBeforeSpawn, Crash
<1>9. Root \in Present'
  BY <1>4 DEF Present
<1> QED BY <1>1, <1>2, <1>3, <1>4, <1>5, <1>6, <1>7, <1>8, <1>9

\* Below an agent there is only who is there, and never the controller.
LEMMA SubtreePresent ==
  ASSUME OrgInvariant, NEW t \in Present \ {Root}
  PROVE  /\ Subtree(t) \subseteq Present \ {Root} /\ t \in Subtree(t)
         /\ ClosedBelow(Subtree(t)) /\ Children(t) \subseteq Subtree(t)
<1> DEFINE S == Present \ {Root}
<1>1. S \in SUBSET Agents /\ t \in S
  BY DEF Present
<1>2. ClosedBelow(S)
  BY OrgAssumption DEF ClosedBelow, Children, Present, OrgInvariant
<1>3. /\ t \in Subtree(t) /\ ClosedBelow(Subtree(t))
      /\ \A T \in SUBSET Agents : t \in T /\ ClosedBelow(T) => Subtree(t) \subseteq T
  BY SubtreeClosed, <1>1
<1>4. Subtree(t) \subseteq S
  BY <1>1, <1>2, <1>3
<1> QED BY <1>3, <1>4 DEF ClosedBelow

\* Below an agent everybody else's parent is below it too.
LEMMA ParentBelow ==
  ASSUME NEW y \in Agents, NEW c \in Subtree(y), c # y
  PROVE  agent[c].parent \in Subtree(y)
<1> SUFFICES ASSUME agent[c].parent \notin Subtree(y) PROVE FALSE
  OBVIOUS
<1>1. PICK S \in SUBSET Agents : S = Subtree(y) \ {c}
  BY SubtreeClosed
<1>2. ClosedBelow(S)
  <2> SUFFICES ASSUME NEW x \in S, NEW b \in Children(x) PROVE b \in S
    BY DEF ClosedBelow
  <2>1. b \in Subtree(y)
    BY <1>1, SubtreeClosed DEF ClosedBelow
  <2>2. b # c
    BY <1>1 DEF Children
  <2> QED BY <1>1, <2>1, <2>2
<1>3. y \in S
  BY <1>1, SubtreeClosed
<1> QED BY <1>1, <1>2, <1>3, SubtreeClosed

\* Nobody's parent is below it.
LEMMA NoWayUp ==
  ASSUME OrgInvariant, NEW c \in Present \ {Root}
  PROVE  agent[c].parent \notin Subtree(c) /\ agent[c].parent \in Present
<1>1. Subtree(c) \subseteq Present \ {Root} /\ c \in Subtree(c) /\ c \in Agents
  BY SubtreePresent DEF Present
<1>2. Subtree(c) \in SUBSET {a \in Agents \ {Root} : agent[a].status # "absent"}
  BY <1>1 DEF Present
<1>3. PICK b \in Subtree(c) : agent[b].parent \notin Subtree(c)
  BY <1>1, <1>2 DEF OrgInvariant, Tree
<1>4. b = c
  BY <1>1, <1>3, ParentBelow
<1>5. agent[c].parent \in Present
  BY <1>1, TreePlaced DEF OrgInvariant, Placed, Present
<1> QED BY <1>3, <1>4, <1>5

\* What is strictly below an agent is closed, and the agent's children are in it.
LEMMA StrictlyBelow ==
  ASSUME OrgInvariant, NEW t \in Present \ {Root}
  PROVE  \E S \in SUBSET Agents :
           /\ S = Subtree(t) \ {t} /\ S \subseteq Present \ {Root}
           /\ ClosedBelow(S) /\ Children(t) \subseteq S
<1>1. /\ Subtree(t) \subseteq Present \ {Root} /\ t \in Subtree(t) /\ t \in Agents
      /\ ClosedBelow(Subtree(t))
  BY SubtreePresent DEF Present
<1>2. PICK S \in SUBSET Agents : S = Subtree(t) \ {t}
  BY <1>1, SubtreeClosed
<1>3. ASSUME NEW x \in Subtree(t), NEW c \in Children(x) PROVE c \in S
  <2>1. c \in Subtree(t) /\ agent[c].parent = x
    BY <1>1, <1>3 DEF ClosedBelow, Children
  <2>2. agent[t].parent \notin Subtree(t)
    BY NoWayUp
  <2> QED BY <1>2, <2>1, <2>2
<1> QED BY <1>1, <1>2, <1>3 DEF ClosedBelow

\* What the move of an agent leaves.
MoveSaved(a, p) ==
  /\ agent' \in [Agents -> Specs] /\ saved' \in [Agents -> Specs]
  /\ Tree(agent') /\ Tree(saved')
  /\ agent'[a].parent = p
  /\ \A b \in Agents : b # a => agent'[b] = agent[b]
  /\ \A b \in Agents : agent'[b].status = agent[b].status
  /\ \A b \in Agents : saved'[b].status = agent'[b].status
  /\ \A b \in Agents : b # a => saved'[b] = agent'[b]

Below(s, p, d) == [s EXCEPT !.parent = p, !.depth = d]

LEMMA MovedSpec ==
  ASSUME NEW s \in Specs, NEW p \in Agents, NEW d \in Nat
  PROVE  /\ Below(s, p, d) \in Specs
         /\ Below(s, p, d).parent = p /\ Below(s, p, d).status = s.status
  BY DEF Specs, Below

LEMMA MoveStep ==
  ASSUME OrgInvariant, plan.step # "fix", NEW a \in Present \ {Root}, NEW p \in Present,
         NEW Z \in SUBSET Agents, a \in Z, ClosedBelow(Z), p \notin Z, Move(a, p)
  PROVE  MoveSaved(a, p)
<1> DEFINE spec == Below(agent[a], p, agent[p].depth + 1)
<1>1. a \in Agents /\ p \in Agents /\ agent[a] \in Specs /\ agent[p].depth \in Nat
  BY DEF Present, OrgInvariant, TypeOK, Specs
<1>2. spec \in Specs /\ spec.parent = p /\ spec.status = agent[a].status
  <2>1. agent[p].depth + 1 \in Nat
    BY <1>1
  <2> QED BY <1>1, <2>1, MovedSpec
<1>3. agent' = [agent EXCEPT ![a] = spec] /\ (saved' = [saved EXCEPT ![a] = spec] \/ saved' = saved)
  BY DEF Move, Below
<1> HIDE DEF spec
<1>4. agent' \in [Agents -> Specs] /\ saved' \in [Agents -> Specs]
  BY <1>2, <1>3 DEF OrgInvariant, TypeOK
<1>5. \A b \in Agents : saved[b] = agent[b]
  BY DEF OrgInvariant, RowsBehind
<1>6. agent'[a] = spec /\ \A b \in Agents : b # a => agent'[b] = agent[b]
  BY <1>1, <1>3 DEF OrgInvariant, TypeOK
<1>7. \/ \A b \in Agents : saved'[b] = agent'[b]
      \/ \A b \in Agents : saved'[b] = agent[b]
  BY <1>3, <1>5 DEF OrgInvariant, TypeOK
<1>8. \A b \in Agents : agent'[b].status = agent[b].status
  BY <1>2, <1>6
<1>9. Tree(agent')
  BY <1>2, <1>6, MoveKeepsTree DEF OrgInvariant
<1>10. Tree(saved')
  <2>1. CASE \A b \in Agents : saved'[b] = agent'[b]
    BY <1>9, <2>1, SameTree
  <2>2. CASE \A b \in Agents : saved'[b] = agent[b]
    BY <2>2, SameTree DEF OrgInvariant
  <2> QED BY <1>7, <2>1, <2>2
<1>11. agent'[a].parent = p
  BY <1>2, <1>6
<1>12. \A b \in Agents : saved'[b].status = agent'[b].status
  BY <1>7, <1>8
<1>13. \A b \in Agents : b # a => saved'[b] = agent'[b]
  BY <1>6, <1>7
<1> QED BY <1>4, <1>6, <1>8, <1>9, <1>10, <1>11, <1>12, <1>13 DEF MoveSaved

\* All that a step which moves an agent has to show.
LEMMA MoveKeeps ==
  ASSUME OrgInvariant, NEW a \in Present \ {Root}, NEW p \in Present, MoveSaved(a, p),
         plan' \in Plans, plan'.step = "fix", plan'.moved = a,
         PlanAbout', Separated', UNCHANGED <<maxDepth, busy, excused, cut>>
  PROVE  OrgInvariant'
<1>1. TypeOK'
  BY DEF OrgInvariant, TypeOK, MoveSaved
<1>2. RowsBehind'
  BY DEF RowsBehind, MoveSaved
<1>3. Root \in Present' /\ agent'[Root].parent = Nobody
  BY DEF OrgInvariant, Present, MoveSaved
<1>4. BusyLive'
  BY DEF OrgInvariant, BusyLive, Live, MoveSaved
<1>5. Tree(agent') /\ Tree(saved')
  BY DEF MoveSaved
<1> QED BY <1>1, <1>2, <1>3, <1>4, <1>5 DEF OrgInvariant

LEMMA ReparentStep ==
  ASSUME OrgInvariant, NEW t \in Agents, NEW p \in Agents, Reparent(t, p)
  PROVE  OrgInvariant' /\ t \in Present \ {Root} /\ MoveSaved(t, p)
<1>1. /\ t \in Present \ {Root} /\ p \in Present /\ p \notin Subtree(t) /\ Move(t, p)
      /\ plan.step # "fix" /\ UNCHANGED <<maxDepth, busy, excused, cut>>
  BY DEF Reparent, MayReparent, MayAttach, Live, Present, OrgInvariant, Idle
<1>2. /\ Subtree(t) \in SUBSET Agents /\ Subtree(t) \subseteq Present \ {Root}
      /\ t \in Subtree(t) /\ ClosedBelow(Subtree(t))
  BY <1>1, SubtreePresent DEF Present
<1>3. MoveSaved(t, p)
  BY <1>1, <1>2, MoveStep
<1>4. /\ plan' \in Plans /\ plan'.step = "fix" /\ plan'.moved = t /\ plan'.moves = {}
      /\ plan'.fixing = Subtree(t) \ {t} /\ plan'.new = Nobody
  BY <1>2 DEF Reparent, Idle, Plans
<1>5. Present' = Present
  BY <1>3 DEF MoveSaved, Present
<1>6. PlanAbout' /\ Separated'
  BY <1>1, <1>2, <1>4, <1>5 DEF PlanAbout, Separated
<1> QED BY <1>1, <1>3, <1>4, <1>6, MoveKeeps

LEMMA MoveChildStep ==
  ASSUME OrgInvariant, NEW c \in Agents, MoveChild(c)
  PROVE  OrgInvariant' /\ c \in Present \ {Root} /\ MoveSaved(c, plan.new)
<1>1. /\ c \in plan.moves /\ c \in Present \ {Root} /\ plan.new \in Present
      /\ Move(c, plan.new) /\ plan.step = "move"
      /\ UNCHANGED <<maxDepth, busy, excused, cut>>
  BY DEF MoveChild, OrgInvariant, PlanAbout
<1>2. PICK S \in SUBSET Agents : plan.moves \subseteq S /\ ClosedBelow(S) /\ plan.new \notin S
  BY <1>1 DEF OrgInvariant, Separated, Target
<1>3. MoveSaved(c, plan.new)
  BY <1>1, <1>2, MoveStep
<1>4. /\ Subtree(c) \in SUBSET Agents /\ Subtree(c) \subseteq Present \ {Root}
  BY <1>1, SubtreePresent DEF Present
<1>5. /\ plan' \in Plans /\ plan'.step = "fix" /\ plan'.moved = c /\ plan'.moves = plan.moves \ {c}
      /\ plan'.fixing = Subtree(c) \ {c} /\ plan'.new = plan.new
  BY <1>4 DEF MoveChild, Plans, OrgInvariant, TypeOK
<1>6. Present' = Present
  BY <1>3 DEF MoveSaved, Present
<1>7. PlanAbout'
  <2>1. plan.moves \subseteq Present \ {Root}
    BY DEF OrgInvariant, PlanAbout
  <2>2. plan'.new \in Present /\ plan'.new # Nobody
    BY <1>1, <1>5, OrgAssumption DEF Present
  <2> QED BY <1>1, <1>4, <1>5, <1>6, <2>1, <2>2 DEF PlanAbout
<1>8. ClosedBelow(S)'
  <2> SUFFICES ASSUME NEW x \in S, NEW b \in Present, agent'[b].parent = x PROVE b \in S
    BY <1>6 DEF ClosedBelow, Children
  <2>1. b # c /\ b \in Agents
    BY <1>2, <1>3 DEF MoveSaved, Present
  <2>2. agent[b].parent = x
    BY <1>3, <2>1 DEF MoveSaved
  <2> QED BY <1>2, <2>2 DEF ClosedBelow, Children
<1>9. Separated'
  BY <1>2, <1>5, <1>8 DEF Separated, Target
<1> QED BY <1>1, <1>3, <1>5, <1>7, <1>9, MoveKeeps

\* Without a replacement below a descendant of what it replaces, what is strictly below
\* the target separates.
LEMMA ReplaceStep ==
  ASSUME OrgInvariant, ~ReplaceUnderSubtree,
         NEW t \in Agents, NEW p \in Agents, NEW n \in Agents, Replace(t, p, n)
  PROVE  /\ OrgInvariant' /\ t \in Present \ {Root} /\ p \notin Subtree(t) \ {t}
         /\ StatusSaved(t, "stopped")
<1>1. /\ t \in Present \ {Root} /\ p \in Present /\ p \notin Subtree(t) \ {t}
      /\ n \in Agents \ Present
      /\ PutStatus(t, "stopped") /\ ~busy[t] /\ plan.step = "idle"
      /\ UNCHANGED <<maxDepth, busy, cut>>
      /\ plan' = [Idle EXCEPT !.step = "spawn", !.new = n, !.under = p, !.moves = Children(t)]
  BY DEF Replace, MayReplace, MayRetire, MayAttach, Live, Present, OrgInvariant, Idle, PutStatus
<1>2. StatusSaved(t, "stopped")
  BY <1>1, StatusStep
<1>3. SamePlace
  BY <1>1, <1>2, StatusPlace
<1>4. Present' = Present /\ \A S : ClosedBelow(S)' <=> ClosedBelow(S)
  BY <1>3, SamePlaces DEF OrgInvariant, SamePlace
<1>5. PICK S \in SUBSET Agents :
        /\ S = Subtree(t) \ {t} /\ S \subseteq Present \ {Root}
        /\ ClosedBelow(S) /\ Children(t) \subseteq S
  BY <1>1, StrictlyBelow
<1>6. /\ plan' \in Plans /\ plan'.step = "spawn" /\ plan'.new = n /\ plan'.under = p
      /\ plan'.moves = Children(t)
  BY <1>1, <1>5 DEF Idle, Plans
<1>7. PlanAbout'
  BY <1>1, <1>4, <1>5, <1>6 DEF PlanAbout
<1>8. Separated'
  BY <1>1, <1>4, <1>5, <1>6 DEF Separated, Target
<1>9. excused' \subseteq Agents
  BY DEF Replace, OrgInvariant, TypeOK
<1>10. TypeOK' /\ RowsBehind' /\ Tree(agent') /\ Tree(saved')
  BY <1>1, <1>2, <1>6, <1>9 DEF OrgInvariant, TypeOK, RowsBehind, StatusSaved
<1>11. BusyLive'
  BY <1>1, <1>2 DEF OrgInvariant, BusyLive, Live, StatusSaved
<1>12. OrgInvariant'
  BY <1>3, <1>7, <1>8, <1>10, <1>11, QuietStep
<1> QED BY <1>1, <1>2, <1>12

\* A depth put right: nobody comes, goes or moves.
Deeper(s, d) == [s EXCEPT !.depth = d]

LEMMA DeeperSpec ==
  ASSUME NEW s \in Specs, NEW d \in Nat
  PROVE  /\ Deeper(s, d) \in Specs
         /\ Deeper(s, d).parent = s.parent /\ Deeper(s, d).status = s.status
  BY DEF Specs, Deeper

LEMMA FixDepthStep ==
  ASSUME OrgInvariant, NEW x \in Agents, FixDepth(x)
  PROVE  /\ OrgInvariant' /\ SamePlace /\ \A b \in Agents : agent'[b].status = agent[b].status
         /\ plan'.step = "fix" /\ plan'.moves = plan.moves /\ plan'.new = plan.new
<1> DEFINE spec == Deeper(agent[x], agent[agent[x].parent].depth + 1)
<1>1. /\ x \in Present \ {Root, plan.moved} /\ plan.step = "fix"
      /\ UNCHANGED <<maxDepth, busy, excused, cut>>
      /\ plan' = [plan EXCEPT !.fixing = @ \ {x}]
  BY DEF FixDepth, OrgInvariant, PlanAbout
<1>2. agent[x] \in Specs /\ agent[agent[x].parent].depth + 1 \in Nat
  <2>1. agent[x].parent \in Agents
    BY <1>1, TreePlaced DEF OrgInvariant, Placed, Present
  <2> QED BY <1>1, <2>1 DEF OrgInvariant, TypeOK, Specs, Present
<1>3. spec \in Specs /\ spec.parent = agent[x].parent /\ spec.status = agent[x].status
  BY <1>2, DeeperSpec
<1>4. agent' = [agent EXCEPT ![x] = spec] /\ saved' = [saved EXCEPT ![x] = spec]
  BY DEF FixDepth, Put, Deeper
<1> HIDE DEF spec
<1>5. agent' \in [Agents -> Specs] /\ saved' \in [Agents -> Specs]
  BY <1>3, <1>4 DEF OrgInvariant, TypeOK
<1>6. /\ \A b \in Agents : agent'[b] = IF b = x THEN spec ELSE agent[b]
      /\ \A b \in Agents : saved'[b] = IF b = x THEN spec ELSE saved[b]
  BY <1>4 DEF OrgInvariant, TypeOK
<1>7. saved[x] = agent[x]
  BY <1>1 DEF OrgInvariant, RowsBehind
<1>8. Tree(agent') /\ Tree(saved')
  BY <1>3, <1>6, <1>7, SameTree DEF OrgInvariant
<1>9. \A b \in Agents : agent'[b].parent = agent[b].parent /\ agent'[b].status = agent[b].status
  BY <1>3, <1>6
<1>10. SamePlace
  BY <1>9 DEF SamePlace
<1>11. /\ plan' \in Plans /\ plan'.step = "fix" /\ plan'.moves = plan.moves /\ plan'.new = plan.new
       /\ plan'.moved = plan.moved /\ plan'.fixing = plan.fixing \ {x} /\ plan'.under = plan.under
  BY <1>1 DEF OrgInvariant, TypeOK, Plans
<1>12. TypeOK'
  BY <1>1, <1>5, <1>11 DEF OrgInvariant, TypeOK
<1>13. RowsBehind'
  BY <1>1, <1>3, <1>6, <1>11 DEF OrgInvariant, RowsBehind
<1>14. Present' = Present /\ \A S : ClosedBelow(S)' <=> ClosedBelow(S)
  BY <1>10, SamePlaces DEF OrgInvariant, SamePlace
<1>15. PlanAbout' /\ Separated'
  BY <1>1, <1>11, <1>14 DEF OrgInvariant, PlanAbout, Separated, Target
<1>16. BusyLive'
  BY <1>1, <1>9 DEF OrgInvariant, BusyLive, Live
<1>17. OrgInvariant'
  BY <1>8, <1>10, <1>12, <1>13, <1>15, <1>16, QuietStep
<1> QED BY <1>9, <1>10, <1>11, <1>17

LEMMA SaveMovedStep == ASSUME OrgInvariant, SaveMoved PROVE OrgInvariant'
<1>1. /\ plan.step = "fix" /\ UNCHANGED <<maxDepth, agent, busy, excused, cut>>
      /\ saved' = [saved EXCEPT ![plan.moved] = agent[plan.moved]] /\ plan' = Moved
      /\ plan.moved \in Present \ {Root}
  BY DEF SaveMoved, OrgInvariant, PlanAbout
<1>2. \A b \in Agents : saved'[b] = agent[b]
  BY <1>1 DEF OrgInvariant, TypeOK, RowsBehind
<1>3. agent[plan.moved] \in Specs
  BY <1>1 DEF OrgInvariant, TypeOK, Present
<1>4. saved' \in [Agents -> Specs]
  BY <1>1, <1>3 DEF OrgInvariant, TypeOK
<1>5. Tree(saved')
  BY <1>2, SameTree DEF OrgInvariant
<1>6. SamePlace
  BY <1>1 DEF SamePlace
<1>7. plan' \in Plans /\ PlanAbout' /\ Separated'
  <2>1. CASE plan.moves # {}
    <3>1. plan' = [plan EXCEPT !.step = "move", !.moved = Nobody]
      BY <1>1, <2>1 DEF Moved
    <3>2. /\ plan' \in Plans /\ plan'.step = "move" /\ plan'.moves = plan.moves
          /\ plan'.new = plan.new
      BY <3>1 DEF OrgInvariant, TypeOK, Plans
    <3>3. Present' = Present /\ \A S : ClosedBelow(S)' <=> ClosedBelow(S)
      BY <1>6, SamePlaces DEF OrgInvariant, SamePlace
    <3>4. PlanAbout'
      BY <1>1, <2>1, <3>2, <3>3 DEF OrgInvariant, PlanAbout
    <3>5. Separated'
      BY <1>1, <3>2, <3>3 DEF OrgInvariant, Separated, Target
    <3> QED BY <3>2, <3>4, <3>5
  <2>2. CASE plan.moves = {}
    <3>1. plan' = Assigning \/ plan' = Idle
      BY <1>1, <2>2 DEF Moved
    <3> QED BY <3>1, <1>6, IdlePlans, QuietPlan
  <2> QED BY <2>1, <2>2
<1>8. TypeOK' /\ RowsBehind' /\ BusyLive' /\ Tree(agent')
  BY <1>1, <1>2, <1>4, <1>7 DEF OrgInvariant, TypeOK, RowsBehind, BusyLive, Live
<1> QED BY <1>5, <1>6, <1>7, <1>8, QuietStep

\* What a new agent leaves.
Joined(n, p) ==
  /\ agent' \in [Agents -> Specs] /\ saved' = agent'
  /\ Tree(agent')
  /\ agent'[n].parent = p /\ agent'[n].status = "created"
  /\ \A b \in Agents : b # n => agent'[b] = agent[b]

LEMMA JoinStep ==
  ASSUME OrgInvariant, plan.step # "fix", NEW n \in Agents \ Present, NEW p \in Present,
         NewAgent(n, p)
  PROVE  Joined(n, p)
<1> DEFINE spec == [parent |-> p, depth |-> agent[p].depth + 1, status |-> "created"]
<1>1. p \in Agents /\ agent[p].depth \in Nat
  BY DEF Present, OrgInvariant, TypeOK, Specs
<1>2. spec \in Specs /\ spec.parent = p /\ spec.status = "created"
  BY <1>1 DEF Specs
<1>3. agent' = [agent EXCEPT ![n] = spec] /\ saved' = [saved EXCEPT ![n] = spec]
  BY DEF NewAgent, Put
<1> HIDE DEF spec
<1>4. saved = agent
  BY DEF OrgInvariant, TypeOK, RowsBehind
<1>5. agent' \in [Agents -> Specs] /\ saved' = agent'
  BY <1>2, <1>3, <1>4 DEF OrgInvariant, TypeOK
<1>6. agent'[n] = spec /\ \A b \in Agents : b # n => agent'[b] = agent[b]
  BY <1>3 DEF OrgInvariant, TypeOK
<1>7. agent[n].status = "absent" /\ agent[p].status # "absent"
  BY DEF Present
<1>8. agent'[n].parent = p /\ agent'[n].status = "created"
  BY <1>2, <1>6
<1>9. Tree(agent')
  BY <1>1, <1>6, <1>7, <1>8, SpawnKeepsTree DEF OrgInvariant
<1> QED BY <1>5, <1>6, <1>8, <1>9 DEF Joined

\* All that a step which adds an agent has to show.
LEMMA JoinKeeps ==
  ASSUME OrgInvariant, NEW n \in Agents \ Present, NEW p \in Present, Joined(n, p),
         plan' \in Plans, PlanAbout', Separated', UNCHANGED <<maxDepth, busy, excused, cut>>
  PROVE  OrgInvariant'
<1>1. TypeOK' /\ RowsBehind' /\ Tree(agent') /\ Tree(saved')
  BY DEF OrgInvariant, TypeOK, RowsBehind, Joined
<1>2. Root # n /\ Root \in Present' /\ agent'[Root].parent = Nobody
  BY DEF OrgInvariant, Present, Joined
<1>3. BusyLive'
  <2> SUFFICES ASSUME NEW b \in Agents, busy[b] PROVE b # Root /\ b \in Live'
    BY DEF BusyLive
  <2>1. b # Root /\ b \in Live /\ b # n
    BY DEF OrgInvariant, BusyLive, Live, Present
  <2> QED BY <2>1 DEF Live, Joined
<1> QED BY <1>1, <1>2, <1>3 DEF OrgInvariant

LEMMA SpawnStep ==
  ASSUME OrgInvariant, NEW n \in Agents, NEW p \in Agents, Spawn(n, p)
  PROVE  OrgInvariant' /\ n \notin Present /\ p \in Present /\ Joined(n, p)
<1>1. /\ plan.step # "fix" /\ n \in Agents \ Present /\ p \in Present /\ NewAgent(n, p)
      /\ plan' = Assigning /\ UNCHANGED <<maxDepth, busy, excused, cut>>
  BY DEF Spawn, NewAgent, MayAttach, Live, Present, OrgInvariant, Idle
<1>2. Joined(n, p)
  BY <1>1, JoinStep
<1>3. plan' \in Plans /\ PlanAbout' /\ Separated'
  BY <1>1, IdlePlans DEF PlanAbout, Separated, Assigning, Idle
<1> QED BY <1>1, <1>2, <1>3, JoinKeeps

LEMMA SpawnReplacementStep ==
  ASSUME OrgInvariant, SpawnReplacement
  PROVE  /\ OrgInvariant' /\ plan.new \in Agents \ Present /\ plan.under \in Present
         /\ Joined(plan.new, plan.under)
<1> DEFINE n == plan.new
           p == plan.under
<1>1. /\ plan.step = "spawn" /\ n \in Agents \ Present /\ p \in Present /\ NewAgent(n, p)
      /\ UNCHANGED <<maxDepth, busy, excused, cut>>
      /\ plan' = IF plan.moves = {} THEN Assigning ELSE [plan EXCEPT !.step = "move"]
  BY DEF SpawnReplacement, OrgInvariant, PlanAbout
<1> HIDE DEF n, p
<1>2. Joined(n, p)
  BY <1>1, JoinStep
<1>3. Present' = Present \cup {n}
  BY <1>1, <1>2 DEF Joined, Present
<1>4. plan' \in Plans /\ PlanAbout' /\ Separated'
  <2>1. CASE plan.moves = {}
    BY <1>1, <2>1, IdlePlans DEF PlanAbout, Separated, Assigning, Idle
  <2>2. CASE plan.moves # {}
    <3>1. /\ plan' \in Plans /\ plan'.step = "move" /\ plan'.moves = plan.moves /\ plan'.new = n
      BY <1>1, <2>2 DEF OrgInvariant, TypeOK, Plans, n
    <3>2. PlanAbout'
      BY <1>3, <3>1 DEF OrgInvariant, PlanAbout
    <3>3. PICK S \in SUBSET Agents : plan.moves \subseteq S /\ ClosedBelow(S) /\ p \notin S
      BY <1>1, <2>2 DEF OrgInvariant, Separated, Target, p
    <3>4. PICK T \in SUBSET Agents : T = S \ {n}
      OBVIOUS
    <3>7. plan.moves \subseteq T
      BY <1>1, <3>3, <3>4 DEF OrgInvariant, PlanAbout
    <3>5. ClosedBelow(T)'
      <4> SUFFICES ASSUME NEW x \in T, NEW b \in Present \cup {n}, agent'[b].parent = x
                   PROVE  b \in T
        BY <1>3 DEF ClosedBelow, Children
      <4>1. b # n
        BY <1>2, <3>3, <3>4 DEF Joined
      <4>2. agent[b].parent = x /\ b \in Present
        BY <1>2, <4>1 DEF Joined, Present
      <4> QED BY <3>3, <3>4, <4>1, <4>2 DEF ClosedBelow, Children
    <3>6. Separated'
      BY <3>1, <3>4, <3>5, <3>7 DEF Separated, Target
    <3> QED BY <3>1, <3>2, <3>6
  <2> QED BY <2>1, <2>2
<1>5. OrgInvariant'
  BY <1>1, <1>2, <1>4, JoinKeeps
<1> QED BY <1>1, <1>2, <1>5 DEF n, p

-----------------------------------------------------------------------------
(* The limits *)

LEMMA LiveFinite ==
  ASSUME OrgInvariant
  PROVE  /\ IsFiniteSet(Live) /\ Cardinality(Live) \in Nat
         /\ \A S \in SUBSET Live : Cardinality(S) \in Nat /\ Cardinality(S) <= Cardinality(Live)
         /\ \A t \in Live : Cardinality(Live \ {t}) = Cardinality(Live) - 1
         /\ \A n : n \notin Live => Cardinality(Live \cup {n}) = Cardinality(Live) + 1
<1>1. Live \in SUBSET Agents
  BY DEF Live
<1>2. IsFiniteSet(Live)
  BY <1>1, FS_Subset, OrgAssumption
<1>3. Cardinality(Live) \in Nat
  BY <1>2, FS_CardinalityType
<1>4. \A S \in SUBSET Live : Cardinality(S) \in Nat /\ Cardinality(S) <= Cardinality(Live)
  BY <1>2, FS_Subset, FS_CardinalityType
<1>5. \A t \in Live : Cardinality(Live \ {t}) = Cardinality(Live) - 1
  BY <1>2, FS_RemoveElement
<1>6. \A n : n \notin Live => Cardinality(Live \cup {n}) = Cardinality(Live) + 1
  BY <1>2, FS_AddElement
<1> QED BY <1>2, <1>3, <1>4, <1>5, <1>6

\* A step after which no more agents are live, and that promises no new one.
LEMMA FewerLive ==
  ASSUME OrgInvariant, LimitsRespected, Live' \subseteq Live,
         plan'.step = "spawn" => /\ plan.step = "spawn" /\ plan' = plan /\ maxDepth' = maxDepth
                                 /\ \A b \in Agents : agent'[b].depth = agent[b].depth
  PROVE  LimitsRespected'
<1>1. Cardinality(Live') \in Nat /\ Cardinality(Live') <= Cardinality(Live) /\ Cardinality(Live) \in Nat
  BY LiveFinite
<1>2. Cardinality(Live') <= MaxAgents
  BY <1>1, OrgAssumption DEF LimitsRespected
<1>3. ASSUME plan'.step = "spawn" PROVE MaySpawn(plan.under, 0)'
  <2>1. MaySpawn(plan.under, 0)
    BY <1>3 DEF LimitsRespected
  <2>2. plan.under \in Agents /\ agent'[plan.under].depth = agent[plan.under].depth
    BY <1>3 DEF OrgInvariant, PlanAbout, Present
  <2> QED BY <1>1, <1>3, <2>1, <2>2, OrgAssumption DEF MaySpawn
<1> QED BY <1>2, <1>3 DEF LimitsRespected

\* A new agent is one more.
LEMMA OneMoreLive ==
  ASSUME OrgInvariant, NEW n \in Agents, n \notin Present, NEW p, Joined(n, p), MaySpawn(p, 0),
         plan'.step # "spawn"
  PROVE  LimitsRespected'
<1>1. Live' = Live \cup {n} /\ n \notin Live
  BY DEF Joined, Live, Present
<1>2. Cardinality(Live') = Cardinality(Live) + 1 /\ Cardinality(Live) \in Nat
  BY <1>1, LiveFinite
<1>3. Cardinality(Live') <= MaxAgents
  BY <1>2, OrgAssumption DEF MaySpawn
<1> QED BY <1>3 DEF LimitsRespected

LEMMA StatusLive ==
  ASSUME OrgInvariant, NEW a \in Present, NEW s, StatusSaved(a, s)
  PROVE  /\ Live' \subseteq Live \cup {a}
         /\ s = "stopped" => Live' = Live \ {a}
         /\ Live \ {a} \subseteq Live'
  BY DEF StatusSaved, Live

LEMMA SameLive ==
  ASSUME \A b \in Agents : agent'[b].status = agent[b].status
  PROVE  Live' = Live
  BY DEF Live

LEMMA LimitsNext ==
  ASSUME OrgInvariant, LimitsRespected, ~ReplaceUnderSubtree, [Next]_vars
  PROVE  LimitsRespected'
<1>1. CASE UNCHANGED vars
  BY <1>1 DEF vars, LimitsRespected, MaySpawn, Live
<1>2. ASSUME NEW n \in Agents, NEW p \in Agents, Spawn(n, p) PROVE LimitsRespected'
  <2>1. MaySpawn(p, 0) /\ plan'.step # "spawn"
    BY <1>2 DEF Spawn, Assigning, Idle
  <2> QED BY <1>2, <2>1, SpawnStep, OneMoreLive
<1>3. ASSUME NEW t \in Agents, Retire(t) PROVE LimitsRespected'
  <2>1. t \in Present /\ StatusSaved(t, "stopped") /\ Live' \subseteq Live
    BY <1>3, RetireStep, StatusLive
  <2>2. plan' = plan /\ maxDepth' = maxDepth
    BY <1>3 DEF Retire
  <2> QED BY <2>1, <2>2, FewerLive DEF StatusSaved
<1>4. ASSUME NEW t \in Agents, NEW p \in Agents, Reparent(t, p) PROVE LimitsRespected'
  <2>1. Live' = Live
    BY <1>4, ReparentStep, SameLive DEF MoveSaved
  <2>2. plan'.step # "spawn"
    BY <1>4 DEF Reparent, Idle
  <2> QED BY <2>1, <2>2, FewerLive
<1>5. ASSUME NEW t \in Agents, NEW p \in Agents, NEW n \in Agents, Replace(t, p, n)
      PROVE  LimitsRespected'
  <2>1. t \in Present /\ StatusSaved(t, "stopped")
    BY <1>5, ReplaceStep
  <2>2. /\ t \in Live /\ agent[p].depth + 1 <= maxDepth /\ Cardinality(Live) - 1 < MaxAgents
        /\ maxDepth' = maxDepth /\ plan'.under = p
    BY <1>5 DEF Replace, MayReplace, MayRetire, MaySpawn, Idle
  <2>3. Live' = Live \ {t}
    BY <2>1, StatusLive
  <2>4. Cardinality(Live') = Cardinality(Live) - 1 /\ Cardinality(Live) \in Nat
    BY <2>2, <2>3, LiveFinite
  <2>5. Cardinality(Live') < MaxAgents /\ Cardinality(Live') <= MaxAgents
    BY <2>2, <2>4, OrgAssumption
  <2>6. Cardinality(Live') - 0 < MaxAgents
    BY <2>2, <2>4, OrgAssumption
  <2>7. agent'[p].depth + 1 <= maxDepth'
    BY <2>1, <2>2 DEF StatusSaved
  <2> QED BY <2>2, <2>5, <2>6, <2>7 DEF LimitsRespected, MaySpawn
<1>6. CASE SpawnReplacement
  <2>1. MaySpawn(plan.under, 0) /\ plan'.step # "spawn"
    BY <1>6 DEF SpawnReplacement, Assigning, Idle, OrgInvariant, TypeOK, Plans
  <2> QED BY <1>6, <2>1, SpawnReplacementStep, OneMoreLive
<1>7. ASSUME NEW c \in Agents, MoveChild(c) PROVE LimitsRespected'
  <2>1. Live' = Live
    BY <1>7, MoveChildStep, SameLive DEF MoveSaved
  <2>2. plan'.step # "spawn"
    BY <1>7 DEF MoveChild, OrgInvariant, TypeOK, Plans
  <2> QED BY <2>1, <2>2, FewerLive
<1>8. ASSUME NEW x \in Agents, FixDepth(x) PROVE LimitsRespected'
  BY <1>8, FixDepthStep, SameLive, FewerLive
<1>9. CASE SaveMoved
  <2>1. Live' = Live
    BY <1>9 DEF SaveMoved, Live
  <2>2. plan'.step # "spawn"
    BY <1>9 DEF SaveMoved, Moved, Assigning, Idle, OrgInvariant, TypeOK, Plans
  <2> QED BY <2>1, <2>2, FewerLive
<1>10. ASSUME NEW a \in Agents, Work(a) PROVE LimitsRespected'
  <2>1. PICK end \in {"done", "blocked"} : StatusSaved(a, end)
    BY <1>10, WorkStep
  <2>2. a \in Live /\ a \in Present /\ Live' \subseteq Live
    BY <1>10, <2>1, WorkStep, StatusLive DEF Live, Present
  <2>3. plan' = plan /\ maxDepth' = maxDepth
    BY <1>10 DEF Work
  <2> QED BY <2>1, <2>2, <2>3, FewerLive DEF StatusSaved
<1>11. ASSUME NEW a \in Agents, Kill(a) PROVE LimitsRespected'
  <2>1. a \in Present /\ StatusSaved(a, "stopped") /\ Live' \subseteq Live
    BY <1>11, KillStep, StatusLive
  <2>2. plan' = plan /\ maxDepth' = maxDepth
    BY <1>11 DEF Kill
  <2> QED BY <2>1, <2>2, FewerLive DEF StatusSaved
<1>12. CASE Assign \/ PauseBeforeSpawn \/ Crash
  <2>1. plan' \in {Assigning, Idle} /\ Live' = Live
    BY <1>12, DroppedStep, SameLive
  <2> QED BY <2>1, FewerLive DEF Assigning, Idle
<1> QED BY <1>1, <1>2, <1>3, <1>4, <1>5, <1>6, <1>7, <1>8, <1>9, <1>10, <1>11, <1>12 DEF Next

-----------------------------------------------------------------------------
(* Below whom the live agents are *)

\* Who is live, was killed by a person, or replaced by an agent put directly below it: below
\* them a live agent may be.
Stands == Live \cup excused

Attached ==
  /\ Root \in Stands
  /\ plan.step = "spawn" => plan.under \in Stands
  /\ plan.step \in {"move", "fix"} /\ plan.new # Nobody => plan.new \in Stands
  /\ RetiredChildless

\* A step that retires nobody, moves nobody and leaves the rest of the change.
LEMMA StillAttached ==
  ASSUME Attached, Live' \subseteq Live, Stands \subseteq Stands', cut => cut',
         \A a \in Live' : agent'[a].parent = agent[a].parent,
         plan'.moves = plan.moves,
         plan'.step = "spawn" => plan.step = "spawn" /\ plan'.under = plan.under,
         plan'.step \in {"move", "fix"} /\ plan'.new # Nobody =>
           plan.step \in {"move", "fix"} /\ plan'.new = plan.new
  PROVE  Attached'
<1>1. RetiredChildless'
  <2> SUFFICES ASSUME NEW a \in Live' \ {Root}, ~cut', a \notin plan'.moves
               PROVE  agent'[a].parent \in Stands'
    BY DEF RetiredChildless, Stands
  <2> QED BY DEF Attached, RetiredChildless, Stands
<1> QED BY <1>1 DEF Attached

LEMMA AttachedNext ==
  ASSUME OrgInvariant, Attached, ~ReplaceUnderSubtree, [Next]_vars
  PROVE  Attached'
<1>1. CASE UNCHANGED vars
  BY <1>1 DEF vars, Attached, Stands, RetiredChildless, Live
<1>2. ASSUME NEW n \in Agents, NEW p \in Agents, Spawn(n, p) PROVE Attached'
  <2>1. n \notin Present /\ Joined(n, p)
    BY <1>2, SpawnStep
  <2>2. p \in Stands /\ plan.moves = {} /\ plan'.moves = {} /\ plan'.step = "assign"
        /\ UNCHANGED <<excused, cut>>
    BY <1>2 DEF Spawn, MayAttach, Attached, Stands, Assigning, Idle
  <2>3. Live' = Live \cup {n} /\ Stands' = Stands \cup {n} /\ n \notin Live
    BY <2>1, <2>2 DEF Joined, Live, Present, Stands
  <2>4. RetiredChildless'
    <3> SUFFICES ASSUME NEW a \in Live' \ {Root}, ~cut' PROVE agent'[a].parent \in Stands'
      BY DEF RetiredChildless, Stands
    <3>1. CASE a = n
      BY <2>1, <2>2, <2>3, <3>1 DEF Joined
    <3>2. CASE a # n
      <4>1. a \in Live \ {Root} /\ a \in Agents /\ ~cut
        BY <2>2, <2>3, <3>2 DEF Live
      <4>2. agent[a].parent \in Stands
        BY <2>2, <4>1 DEF Attached, RetiredChildless, Stands
      <4> QED BY <2>1, <2>3, <3>2, <4>1, <4>2 DEF Joined
    <3> QED BY <3>1, <3>2
  <2> QED BY <2>2, <2>3, <2>4 DEF Attached
<1>3. ASSUME NEW t \in Agents, Retire(t) PROVE Attached'
  <2>1. t \in Present \ {Root} /\ StatusSaved(t, "stopped")
    BY <1>3, RetireStep DEF Retire, MayRetire
  <2>2. Live' = Live \ {t} /\ \A b \in Agents : agent'[b].parent = agent[b].parent
    BY <2>1, StatusLive DEF StatusSaved
  <2>3. plan.step = "idle" /\ plan.moves = {} /\ UNCHANGED <<plan, excused, cut>>
        /\ Subtree(t) \cap Live = {t}
    BY <1>3 DEF Retire, Idle
  <2>4. Children(t) \subseteq Subtree(t)
    BY <2>1, SubtreePresent
  <2>5. RetiredChildless'
    <3> SUFFICES ASSUME NEW a \in Live' \ {Root}, ~cut' PROVE agent'[a].parent \in Stands'
      BY DEF RetiredChildless, Stands
    <3>1. a \in Live \ {Root} /\ a # t /\ a \in Present /\ a \in Agents
      BY <2>2 DEF Live, Present
    <3>2. agent[a].parent \in Stands
      BY <2>3, <3>1 DEF Attached, RetiredChildless, Stands
    <3>3. agent[a].parent # t
      BY <2>3, <2>4, <3>1 DEF Children
    <3> QED BY <2>2, <2>3, <3>1, <3>2, <3>3 DEF Stands
  <2>6. Root \in Stands'
    BY <2>1, <2>2, <2>3 DEF Attached, Stands
  <2> QED BY <2>3, <2>5, <2>6 DEF Attached
<1>4. ASSUME NEW t \in Agents, NEW p \in Agents, Reparent(t, p) PROVE Attached'
  <2>1. t \in Present \ {Root} /\ MoveSaved(t, p)
    BY <1>4, ReparentStep
  <2>2. /\ p \in Stands /\ plan.moves = {} /\ plan'.new = Nobody /\ plan'.step = "fix"
        /\ UNCHANGED <<excused, cut>>
    BY <1>4 DEF Reparent, MayReparent, MayAttach, Attached, Stands, Idle
  <2>3. Live' = Live /\ Stands' = Stands
    BY <2>1, <2>2, SameLive DEF MoveSaved, Stands
  <2>4. RetiredChildless'
    <3> SUFFICES ASSUME NEW a \in Live \ {Root}, ~cut' PROVE agent'[a].parent \in Stands'
      BY <2>3 DEF RetiredChildless, Stands
    <3>1. a \in Agents /\ agent[a].parent \in Stands
      BY <2>2 DEF Attached, RetiredChildless, Stands, Live
    <3> QED BY <2>1, <2>2, <2>3, <3>1 DEF MoveSaved
  <2> QED BY <2>2, <2>3, <2>4 DEF Attached
<1>5. ASSUME NEW t \in Agents, NEW p \in Agents, NEW n \in Agents, Replace(t, p, n)
      PROVE  Attached'
  <2>1. t \in Present \ {Root} /\ StatusSaved(t, "stopped")
    BY <1>5, ReplaceStep
  <2>2. Live' = Live \ {t} /\ \A b \in Agents : agent'[b].parent = agent[b].parent
    BY <2>1, StatusLive DEF StatusSaved
  <2>3. /\ p \in Stands /\ plan.moves = {} /\ plan'.step = "spawn" /\ plan'.under = p
        /\ plan'.moves = Children(t) /\ cut' = cut
    BY <1>5 DEF Replace, MayReplace, MayAttach, Attached, Stands, Idle
  <2>4. excused \subseteq excused' /\ (p = t => t \in excused')
    BY <1>5 DEF Replace
  <2>5. RetiredChildless'
    <3> SUFFICES ASSUME NEW a \in Live' \ {Root}, ~cut', a \notin plan'.moves
                 PROVE  agent'[a].parent \in Stands'
      BY DEF RetiredChildless, Stands
    <3>1. a \in Live \ {Root} /\ a # t /\ a \in Present /\ a \in Agents
      BY <2>2 DEF Live, Present
    <3>2. agent[a].parent \in Stands
      BY <2>3, <3>1 DEF Attached, RetiredChildless, Stands
    <3>3. agent[a].parent # t
      BY <2>3, <3>1 DEF Children
    <3> QED BY <2>2, <2>4, <3>1, <3>2, <3>3 DEF Stands
  <2>6. Root \in Stands' /\ p \in Stands'
    BY <2>1, <2>2, <2>3, <2>4 DEF Attached, Stands
  <2> QED BY <2>3, <2>5, <2>6 DEF Attached
<1>6. CASE SpawnReplacement
  <2> DEFINE n == plan.new
             p == plan.under
  <2>1. n \in Agents /\ n \notin Present /\ Joined(n, p)
    BY <1>6, SpawnReplacementStep
  <2>2. p \in Stands /\ UNCHANGED <<excused, cut>>
    BY <1>6 DEF SpawnReplacement, Attached
  <2>3. Live' = Live \cup {n} /\ Stands' = Stands \cup {n} /\ n \notin Live
    BY <2>1, <2>2 DEF Joined, Live, Present, Stands
  <2>4. /\ plan'.moves = plan.moves /\ plan'.step # "spawn"
        /\ plan'.step \in {"move", "fix"} => plan'.new = n
    BY <1>6 DEF SpawnReplacement, Assigning, Idle, OrgInvariant, TypeOK, Plans
  <2> HIDE DEF n, p
  <2>5. RetiredChildless'
    <3> SUFFICES ASSUME NEW a \in Live' \ {Root}, ~cut', a \notin plan'.moves
                 PROVE  agent'[a].parent \in Stands'
      BY DEF RetiredChildless, Stands
    <3>1. CASE a = n
      BY <2>1, <2>2, <2>3, <3>1 DEF Joined
    <3>2. CASE a # n
      <4>1. a \in Live \ {Root} /\ a \in Agents
        BY <2>3, <3>2 DEF Live
      <4>2. agent[a].parent \in Stands
        BY <2>2, <2>4, <4>1 DEF Attached, RetiredChildless, Stands
      <4> QED BY <2>1, <2>3, <3>2, <4>1, <4>2 DEF Joined
    <3> QED BY <3>1, <3>2
  <2> QED BY <2>3, <2>4, <2>5 DEF Attached
<1>7. ASSUME NEW c \in Agents, MoveChild(c) PROVE Attached'
  <2>1. c \in Present \ {Root} /\ MoveSaved(c, plan.new)
    BY <1>7, MoveChildStep
  <2>2. /\ plan.new \in Stands /\ UNCHANGED <<excused, cut>>
        /\ plan'.moves = plan.moves \ {c} /\ plan'.step = "fix" /\ plan'.new = plan.new
    <3>1. plan.new # Nobody
      BY <1>7, OrgAssumption DEF MoveChild, OrgInvariant, PlanAbout, Present
    <3> QED BY <1>7, <3>1 DEF MoveChild, Attached, OrgInvariant, TypeOK, Plans
  <2>3. Live' = Live /\ Stands' = Stands
    BY <2>1, <2>2, SameLive DEF MoveSaved, Stands
  <2>4. RetiredChildless'
    <3> SUFFICES ASSUME NEW a \in Live \ {Root}, ~cut', a \notin plan'.moves
                 PROVE  agent'[a].parent \in Stands'
      BY <2>3 DEF RetiredChildless, Stands
    <3>1. CASE a = c
      BY <2>1, <2>2, <2>3, <3>1 DEF MoveSaved
    <3>2. CASE a # c
      <4>1. a \in Agents /\ agent[a].parent \in Stands
        BY <2>2, <3>2 DEF Attached, RetiredChildless, Stands, Live
      <4> QED BY <2>1, <2>3, <3>2, <4>1 DEF MoveSaved
    <3> QED BY <3>1, <3>2
  <2> QED BY <2>2, <2>3, <2>4 DEF Attached
<1>8. ASSUME NEW x \in Agents, FixDepth(x) PROVE Attached'
  <2>1. /\ Live' = Live /\ \A a \in Agents : agent'[a].parent = agent[a].parent
        /\ plan'.step = "fix" /\ plan'.moves = plan.moves /\ plan'.new = plan.new
    BY <1>8, FixDepthStep, SameLive DEF SamePlace
  <2>2. plan.step = "fix" /\ UNCHANGED <<excused, cut>>
    BY <1>8 DEF FixDepth
  <2>3. Stands' = Stands /\ Live \subseteq Agents
    BY <2>1, <2>2 DEF Stands, Live
  <2> QED BY <2>1, <2>2, <2>3, StillAttached
<1>9. CASE SaveMoved
  <2>1. plan.step = "fix" /\ UNCHANGED <<agent, excused, cut>> /\ plan' = Moved
    BY <1>9 DEF SaveMoved
  <2>2. Live' = Live /\ Stands' = Stands
    BY <2>1 DEF Live, Stands
  <2>3. /\ plan'.moves = plan.moves /\ plan'.step # "spawn"
        /\ plan'.step \in {"move", "fix"} => plan'.new = plan.new
    BY <2>1 DEF Moved, Assigning, Idle, OrgInvariant, TypeOK, Plans
  <2> QED BY <2>1, <2>2, <2>3, StillAttached
<1>10. ASSUME NEW a \in Agents, Work(a) PROVE Attached'
  <2>1. PICK end \in {"done", "blocked"} : StatusSaved(a, end)
    BY <1>10, WorkStep
  <2>2. a \in Live
    BY <1>10, WorkStep
  <2>3. Live' = Live /\ \A b \in Agents : agent'[b].parent = agent[b].parent
    BY <2>1, <2>2 DEF StatusSaved, Live
  <2>4. UNCHANGED <<plan, excused, cut>>
    BY <1>10 DEF Work
  <2>5. Stands' = Stands /\ Live \subseteq Agents
    BY <2>3, <2>4 DEF Stands, Live
  <2> QED BY <2>3, <2>4, <2>5, StillAttached
<1>11. ASSUME NEW a \in Agents, Kill(a) PROVE Attached'
  <2>1. a \in Present /\ StatusSaved(a, "stopped")
    BY <1>11, KillStep
  <2>2. Live' = Live \ {a} /\ \A b \in Agents : agent'[b].parent = agent[b].parent
    BY <2>1, StatusLive DEF StatusSaved
  <2>3. UNCHANGED <<plan, cut>> /\ excused' = excused \cup {a}
    BY <1>11 DEF Kill
  <2>4. Stands \subseteq Stands' /\ Live \subseteq Agents
    BY <2>2, <2>3 DEF Stands, Live
  <2> QED BY <2>2, <2>3, <2>4, StillAttached
<1>12. CASE Assign \/ PauseBeforeSpawn \/ Crash
  <2>1. /\ plan' \in {Assigning, Idle} /\ Live' = Live
        /\ agent' = agent \/ (agent' = saved /\ cut')
    BY <1>12, DroppedStep, SameLive
  <2>2. excused' = excused /\ (cut => cut') /\ (cut' \/ plan.moves = {})
    <3>1. plan.step \in {"idle", "assign"} => plan.moves = {}
      BY DEF OrgInvariant, PlanAbout
    <3>2. CASE Assign
      BY <3>1, <3>2 DEF Assign
    <3>3. CASE PauseBeforeSpawn
      BY <3>3 DEF PauseBeforeSpawn
    <3>4. CASE Crash
      BY <3>1, <3>4 DEF Crash
    <3> QED BY <1>12, <3>2, <3>3, <3>4
  <2>3. RetiredChildless'
    BY <2>1, <2>2 DEF Attached, RetiredChildless
  <2> QED BY <2>1, <2>2, <2>3 DEF Attached, Stands, Assigning, Idle
<1> QED BY <1>1, <1>2, <1>3, <1>4, <1>5, <1>6, <1>7, <1>8, <1>9, <1>10, <1>11, <1>12 DEF Next

-----------------------------------------------------------------------------
(* Numbers *)

\* A set of numbers has a least one. This is all the induction the module needs, and it comes
\* from the library's theorem that finite sets have no endless chain of strict subsets.
LEMMA Least == ASSUME NEW T \in SUBSET Nat, T # {} PROVE \E m \in T : \A k \in T : m <= k
<1> DEFINE F == {0 .. k : k \in T}
<1>1. F \subseteq FiniteSubsetsOf(Nat) /\ F # {}
  <2>1. ASSUME NEW k \in T PROVE 0 .. k \in FiniteSubsetsOf(Nat)
    <3>1. IsFiniteSet(0 .. k)
      BY FS_Interval
    <3>2. 0 .. k \in SUBSET Nat
      OBVIOUS
    <3> QED BY <3>1, <3>2 DEF FiniteSubsetsOf
  <2>2. \E k : k \in T
    OBVIOUS
  <2> QED BY <2>1, <2>2
<1>2. PICK I \in F : \A J \in F : ~(<<J, I>> \in StrictSubsetOrdering(Nat))
  <2> HIDE DEF F
  <2> QED BY <1>1, FS_StrictSubsetOrderingWellFounded, WFMin
<1>3. PICK m \in T : I = 0 .. m
  BY <1>2
<1>4. ASSUME NEW k \in T, k < m PROVE FALSE
  <2>1. 0 .. k \in F /\ 0 .. k \subseteq 0 .. m /\ 0 .. k # 0 .. m
    BY <1>4
  <2>2. <<0 .. k, I>> \in StrictSubsetOrdering(Nat)
    <3>1. 0 .. k \in SUBSET Nat /\ 0 .. m \in SUBSET Nat
      OBVIOUS
    <3> QED BY <2>1, <3>1, <1>3 DEF StrictSubsetOrdering
  <2> QED BY <1>2, <2>1, <2>2
<1> QED BY <1>4

\* ... and one that is bounded a greatest.
LEMMA Greatest ==
  ASSUME NEW N \in Nat, NEW T \in SUBSET (0 .. N), T # {}
  PROVE  \E m \in T : \A k \in T : k <= m
<1> DEFINE U == {N - k : k \in T}
<1>1. U \in SUBSET Nat /\ U # {}
  <2>1. ASSUME NEW k \in T PROVE N - k \in Nat
    OBVIOUS
  <2>2. \E k : k \in T
    OBVIOUS
  <2> QED BY <2>1, <2>2
<1>2. PICK u \in U : \A v \in U : u <= v
  BY <1>1, Least
<1>3. PICK m \in T : u = N - m
  BY <1>2
<1>4. ASSUME NEW k \in T PROVE k <= m
  <2>1. N - m <= N - k
    BY <1>2, <1>3
  <2> QED BY <2>1
<1> QED BY <1>4

-----------------------------------------------------------------------------
(* Depths *)

LEMMA Nested == ASSUME NEW y \in Agents, NEW x \in Subtree(y) PROVE Subtree(x) \subseteq Subtree(y)
<1>1. x \in Agents /\ Subtree(y) \in SUBSET Agents /\ ClosedBelow(Subtree(y))
  BY SubtreeClosed
<1> QED BY <1>1, SubtreeClosed

\* The agents on the way down from t to x, both included.
Path(t, x) == {y \in Subtree(t) : x \in Subtree(y)}

\* One level down the way is one agent longer.
LEMMA PathStep ==
  ASSUME OrgInvariant, NEW t \in Present \ {Root}, NEW c \in Subtree(t), c # t
  PROVE  LET q == agent[c].parent
         IN  /\ q \in Subtree(t) /\ c \in Children(q)
             /\ Path(t, c) = Path(t, q) \cup {c} /\ c \notin Path(t, q)
<1> DEFINE q == agent[c].parent
<1>1. t \in Agents /\ c \in Agents /\ c \in Present \ {Root} /\ Subtree(t) \subseteq Present \ {Root}
  BY SubtreePresent DEF Present
<1>2. q \in Subtree(t) /\ c \in Children(q)
  BY <1>1, ParentBelow DEF Children
<1>3. c \notin Path(t, q)
  BY <1>1, NoWayUp DEF Path
<1>4. ASSUME NEW y \in Path(t, c), y # c PROVE y \in Path(t, q)
  <2>1. y \in Subtree(t) /\ c \in Subtree(y) /\ y \in Agents
    BY <1>1, <1>4 DEF Path, Present
  <2> QED BY <1>4, <2>1, ParentBelow DEF Path
<1>5. ASSUME NEW y \in Path(t, q) PROVE y \in Path(t, c)
  <2>1. y \in Subtree(t) /\ q \in Subtree(y) /\ y \in Agents
    BY <1>1, <1>5 DEF Path, Present
  <2>2. c \in Subtree(y)
    BY <1>2, <2>1, SubtreeClosed DEF ClosedBelow
  <2> QED BY <2>1, <2>2 DEF Path
<1>6. c \in Path(t, c)
  BY <1>1, SubtreeClosed DEF Path
<1> QED BY <1>2, <1>3, <1>4, <1>5, <1>6

LEMMA PathTop == ASSUME OrgInvariant, NEW t \in Present \ {Root} PROVE Path(t, t) = {t}
<1>1. t \in Agents /\ Subtree(t) \subseteq Present \ {Root} /\ t \in Subtree(t)
  BY SubtreePresent DEF Present
<1>2. ASSUME NEW y \in Path(t, t), y # t PROVE FALSE
  <2>1. y \in Subtree(t) /\ t \in Subtree(y) /\ y \in Agents
    BY <1>1, <1>2 DEF Path, Present
  <2>2. agent[t].parent \in Subtree(t)
    BY <1>1, <1>2, <2>1, ParentBelow, Nested
  <2> QED BY <2>2, NoWayUp
<1> QED BY <1>1, <1>2 DEF Path

\* The length of the way.
Steps(t, x) == Cardinality(Path(t, x)) - 1

LEMMA StepsType ==
  ASSUME OrgInvariant, NEW t \in Present \ {Root}
  PROVE  /\ Cardinality(Agents) \in Nat /\ Steps(t, t) = 0
         /\ \A x \in Subtree(t) : Steps(t, x) \in 0 .. Cardinality(Agents) - 1
         /\ \A x \in Subtree(t) : x # t =>
              Steps(t, x) = Steps(t, agent[x].parent) + 1
<1> DEFINE N == Cardinality(Agents)
<1>1. t \in Agents /\ Subtree(t) \subseteq Agents /\ t \in Subtree(t)
  BY SubtreePresent DEF Present
<1>2. ASSUME NEW x PROVE IsFiniteSet(Path(t, x)) /\ Cardinality(Path(t, x)) \in Nat
                         /\ Cardinality(Path(t, x)) <= N
  <2>1. Path(t, x) \in SUBSET Agents
    BY <1>1 DEF Path
  <2> QED BY <2>1, OrgAssumption, FS_Subset, FS_CardinalityType
<1>3. N \in Nat
  BY OrgAssumption, FS_CardinalityType
<1>4. Steps(t, t) = 0
  BY PathTop, FS_Singleton DEF Steps
<1>5. ASSUME NEW x \in Subtree(t) PROVE Steps(t, x) \in 0 .. N - 1
  <2>1. Path(t, x) # {}
    BY <1>1 DEF Path
  <2>2. Cardinality(Path(t, x)) # 0
    BY <1>2, <2>1, FS_EmptySet
  <2> QED BY <1>2, <1>3, <2>2 DEF Steps
<1>6. ASSUME NEW x \in Subtree(t), x # t PROVE Steps(t, x) = Steps(t, agent[x].parent) + 1
  <2>1. PICK q : q = agent[x].parent
    OBVIOUS
  <2>2. Path(t, x) = Path(t, q) \cup {x} /\ x \notin Path(t, q)
    BY <1>6, <2>1, PathStep
  <2>3. Cardinality(Path(t, x)) = Cardinality(Path(t, q)) + 1
    BY <1>2, <2>2, FS_AddElement
  <2> QED BY <1>2, <2>1, <2>3 DEF Steps
<1> QED BY <1>3, <1>4, <1>5, <1>6

\* The levels below t, as Height defines them; that they are what they are meant to be takes
\* an induction, as for every recursive function.
LevelsUpTo(n, t, g) ==
  g = [k \in 0 .. n |-> IF k = 0 THEN {t} ELSE UNION {Children(x) : x \in g[k - 1]}]

Levels(t) ==
  CHOOSE g : g = [k \in 0 .. Cardinality(Agents) |->
                    IF k = 0 THEN {t} ELSE UNION {Children(x) : x \in g[k - 1]}]

LEMMA LevelsExist == ASSUME NEW t, NEW N \in Nat PROVE \E g : LevelsUpTo(N, t, g)
<1> DEFINE T == {n \in Nat : ~\E g : LevelsUpTo(n, t, g)}
<1> SUFFICES ASSUME T # {} PROVE FALSE
  OBVIOUS
<1>1. PICK n \in T : \A k \in T : n <= k
  BY Least
<1>2. CASE n = 0
  <2>1. PICK g : g = [k \in 0 .. 0 |-> {t}]
    OBVIOUS
  <2>2. \A k \in 0 .. 0 : k = 0
    OBVIOUS
  <2>3. LevelsUpTo(0, t, g)
    BY <2>1, <2>2 DEF LevelsUpTo
  <2> QED BY <1>2, <2>3
<1>3. CASE n # 0
  <2>1. n - 1 \in Nat /\ n - 1 \notin T
    BY <1>1, <1>3
  <2>2. PICK g : LevelsUpTo(n - 1, t, g)
    BY <2>1
  <2>3. PICK h : h = [k \in 0 .. n |-> IF k = n THEN UNION {Children(x) : x \in g[n - 1]}
                                               ELSE g[k]]
    OBVIOUS
  <2>4. \A k \in 0 .. n - 1 : h[k] = g[k]
    BY <2>3
  <2>5. ASSUME NEW k \in 0 .. n
        PROVE  h[k] = IF k = 0 THEN {t} ELSE UNION {Children(x) : x \in h[k - 1]}
    <3>1. CASE k = n
      <4>1. h[n] = UNION {Children(x) : x \in g[n - 1]} /\ n - 1 \in 0 .. n - 1
        BY <2>1, <2>3
      <4> QED BY <1>3, <2>4, <3>1, <4>1
    <3>2. CASE k # n
      <4>1. k \in 0 .. n - 1 /\ (k # 0 => k - 1 \in 0 .. n - 1)
        BY <3>2
      <4>2. g[k] = IF k = 0 THEN {t} ELSE UNION {Children(x) : x \in g[k - 1]}
        BY <2>2, <4>1 DEF LevelsUpTo
      <4> QED BY <2>4, <4>1, <4>2
    <3> QED BY <3>1, <3>2
  <2>6. LevelsUpTo(n, t, h)
    BY <2>3, <2>5 DEF LevelsUpTo
  <2> QED BY <2>6
<1> QED BY <1>2, <1>3

LEMMA LevelsAre ==
  ASSUME NEW t
  PROVE  /\ Levels(t)[0] = {t}
         /\ \A k \in 1 .. Cardinality(Agents) :
              Levels(t)[k] = UNION {Children(x) : x \in Levels(t)[k - 1]}
<1>1. Cardinality(Agents) \in Nat
  BY OrgAssumption, FS_CardinalityType
<1>2. \E g : g = [k \in 0 .. Cardinality(Agents) |->
                    IF k = 0 THEN {t} ELSE UNION {Children(x) : x \in g[k - 1]}]
  <2>1. PICK g : LevelsUpTo(Cardinality(Agents), t, g)
    BY <1>1, LevelsExist
  <2> QED BY <2>1 DEF LevelsUpTo
<1>3. Levels(t) = [k \in 0 .. Cardinality(Agents) |->
                     IF k = 0 THEN {t} ELSE UNION {Children(x) : x \in Levels(t)[k - 1]}]
  BY <1>2 DEF Levels
<1>4. 0 \in 0 .. Cardinality(Agents)
  BY <1>1
<1>5. \A k \in 1 .. Cardinality(Agents) : k \in 0 .. Cardinality(Agents) /\ k # 0
  BY <1>1
<1> QED BY <1>3, <1>4, <1>5

\* Everybody below t is on the level that its way down from t says.
LEMMA OnItsLevel ==
  ASSUME OrgInvariant, NEW t \in Present \ {Root}, NEW x \in Subtree(t)
  PROVE  x \in Levels(t)[Steps(t, x)]
<1> DEFINE T == {Steps(t, y) : y \in {z \in Subtree(t) : z \notin Levels(t)[Steps(t, z)]}}
<1> SUFFICES ASSUME T # {} PROVE FALSE
  OBVIOUS
<1>1. T \in SUBSET Nat
  BY StepsType
<1>2. PICK y \in Subtree(t) : /\ y \notin Levels(t)[Steps(t, y)]
                              /\ \A k \in T : Steps(t, y) <= k
  BY <1>1, Least
<1>3. y # t
  BY <1>2, LevelsAre, StepsType
<1>4. PICK q : q = agent[y].parent
  OBVIOUS
<1>5. q \in Subtree(t) /\ y \in Children(q) /\ Steps(t, y) = Steps(t, q) + 1
  BY <1>3, <1>4, PathStep, StepsType
<1>6. /\ Steps(t, q) \in 0 .. Cardinality(Agents) - 1 /\ Steps(t, y) \in 0 .. Cardinality(Agents) - 1
      /\ Cardinality(Agents) \in Nat
  BY <1>5, StepsType
<1>7. q \in Levels(t)[Steps(t, q)]
  <2>1. Steps(t, q) \notin T
    BY <1>2, <1>5, <1>6
  <2> QED BY <1>5, <2>1
<1>8. Steps(t, y) \in 1 .. Cardinality(Agents) /\ Steps(t, q) = Steps(t, y) - 1
  BY <1>5, <1>6
<1>9. Levels(t)[Steps(t, y)] = UNION {Children(z) : z \in Levels(t)[Steps(t, q)]}
  BY <1>8, LevelsAre
<1> QED BY <1>2, <1>5, <1>7, <1>9

\* Height bounds every way down, and the ways grow from level to level: a ranking of what is
\* below t by numbers from 0 to its height.
LEMMA HeightRanks ==
  ASSUME OrgInvariant, NEW t \in Present \ {Root}
  PROVE  /\ Height(t) \in Nat
         /\ Steps(t, t) = 0
         /\ \A x \in Subtree(t) : /\ Steps(t, x) \in Nat /\ Steps(t, x) <= Height(t)
                                  /\ \A c \in Children(x) : Steps(t, x) < Steps(t, c)
<1> DEFINE N == Cardinality(Agents)
           K == {k \in 0 .. N : Levels(t)[k] # {}}
<1>1. N \in Nat /\ Steps(t, t) = 0 /\ \A x \in Subtree(t) : Steps(t, x) \in 0 .. N - 1
  BY StepsType
<1>2. Height(t) = CHOOSE k \in 0 .. N : /\ Levels(t)[k] # {}
                                        /\ \A l \in 0 .. N : Levels(t)[l] # {} => l <= k
  BY DEF Height, Levels
<1>3. \E k \in 0 .. N : /\ Levels(t)[k] # {}
                        /\ \A l \in 0 .. N : Levels(t)[l] # {} => l <= k
  <2>1. 0 \in K
    BY <1>1, LevelsAre
  <2>2. PICK k \in K : \A l \in K : l <= k
    BY <1>1, <2>1, Greatest
  <2> QED BY <2>2
<1>4. Height(t) \in 0 .. N /\ \A l \in 0 .. N : Levels(t)[l] # {} => l <= Height(t)
  BY <1>2, <1>3
<1>5. ASSUME NEW x \in Subtree(t)
      PROVE  /\ Steps(t, x) \in Nat /\ Steps(t, x) <= Height(t)
             /\ \A c \in Children(x) : Steps(t, x) < Steps(t, c)
  <2>1. Steps(t, x) \in 0 .. N /\ Steps(t, x) \in Nat
    BY <1>1
  <2>2. Levels(t)[Steps(t, x)] # {}
    BY OnItsLevel
  <2>3. ASSUME NEW c \in Children(x) PROVE Steps(t, x) < Steps(t, c)
    <3>1. c \in Subtree(t) /\ agent[c].parent = x
      BY SubtreePresent DEF ClosedBelow, Children
    <3>2. c # t
      BY <3>1, NoWayUp
    <3>3. Steps(t, c) = Steps(t, x) + 1
      BY <3>1, <3>2, StepsType
    <3> QED BY <2>1, <3>3
  <2> QED BY <1>4, <2>1, <2>2, <2>3
<1> QED BY <1>1, <1>4, <1>5

\* Depths that agents may get: within the limit, and deeper from level to level of Z.
Ranked(w, Z) ==
  /\ w \in [Agents -> Nat] /\ ClosedBelow(Z)
  /\ \A z \in Z : w[z] <= maxDepth /\ \A c \in Children(z) : w[z] < w[c]

\* What was still to be moved, and what was still to be put right, will fit.
Reach == IF plan.step = "spawn" THEN agent[plan.under].depth + 2 ELSE agent[plan.new].depth + 1

MovesFit(w, Z) ==
  plan.moves # {} => /\ plan.moves \subseteq Z /\ Target \notin Z
                     /\ \A c \in plan.moves : Reach <= w[c]

FixesFit(w, Z) ==
  plan.step = "fix" =>
    /\ plan.fixing \subseteq Z
    /\ \A x \in plan.fixing :
         /\ agent[x].parent \in Z
         /\ \/ agent[x].parent \in plan.fixing
            \/ agent[agent[x].parent].depth <= w[agent[x].parent]

Fitting ==
  \E w, Z : Z \in SUBSET Agents /\ Ranked(w, Z) /\ MovesFit(w, Z) /\ FixesFit(w, Z)

\* No depth beyond the limit, in memory or in the rows.
WithinLimit == \A a \in Agents : agent[a].depth <= maxDepth /\ saved[a].depth <= maxDepth

\* Every depth is that of the parent and one, but for those still to be put right.
InPlace ==
  \A a \in Present \ {Root} :
    cut \/ a \in plan.fixing \/ agent[a].depth = agent[agent[a].parent].depth + 1

DepthInvariant ==
  /\ WithinLimit /\ InPlace /\ Fitting
  /\ plan.step # "fix" => plan.fixing = {}
  /\ ClosedBelow(plan.fixing)

LEMMA DepthTypes ==
  ASSUME OrgInvariant
  PROVE  /\ maxDepth \in Nat
         /\ \A a \in Agents : agent[a].depth \in Nat /\ saved[a].depth \in Nat
         /\ \A a \in Present \ {Root} : agent[a].parent \in Present
         /\ Present \subseteq Agents
<1>1. maxDepth \in Nat
  BY OrgAssumption DEF OrgInvariant, TypeOK
<1>2. \A a \in Agents : agent[a].depth \in Nat /\ saved[a].depth \in Nat
  BY DEF OrgInvariant, TypeOK, Specs
<1>3. \A a \in Present \ {Root} : agent[a].parent \in Present
  BY TreePlaced DEF OrgInvariant, Placed, Present
<1> QED BY <1>1, <1>2, <1>3 DEF Present

LEMMA DepthInit == Init => DepthInvariant
<1> SUFFICES ASSUME Init PROVE DepthInvariant
  OBVIOUS
<1>1. /\ saved = agent /\ plan = Idle /\ maxDepth \in Nat
      /\ \A a \in Agents : agent[a].depth = 0
      /\ Present = {Root}
  BY OrgAssumption DEF Init, Absent, Present
<1>2. WithinLimit
  BY <1>1 DEF WithinLimit
<1>3. InPlace
  BY <1>1 DEF InPlace
<1>4. plan.fixing = {} /\ plan.moves = {} /\ plan.step # "fix"
  BY <1>1 DEF Idle
<1>5. Ranked([a \in Agents |-> 0], {})
  BY DEF Ranked, ClosedBelow
<1>6. Fitting
  BY <1>4, <1>5 DEF Fitting, MovesFit, FixesFit
<1> QED BY <1>2, <1>3, <1>4, <1>6 DEF DepthInvariant, ClosedBelow

\* Nothing left to be moved or put right fits.
LEMMA NothingFits == ASSUME plan'.moves = {}, plan'.step # "fix" PROVE Fitting'
<1>1. Ranked([a \in Agents |-> 0], {})'
  BY DEF Ranked, ClosedBelow
<1>2. MovesFit([a \in Agents |-> 0], {})' /\ FixesFit([a \in Agents |-> 0], {})'
  BY DEF MovesFit, FixesFit
<1> QED BY <1>1, <1>2 DEF Fitting

\* A ranking outlives what adds nobody below those it ranks.
LEMMA RankedKept ==
  ASSUME NEW w, NEW Z, Ranked(w, Z), maxDepth' = maxDepth,
         \A z \in Z : Children(z)' \subseteq Children(z)
  PROVE  Ranked(w, Z)'
  BY DEF Ranked, ClosedBelow

\* The depths that what is below t gets when t gets the depth base.
LEMMA RanksBelow ==
  ASSUME OrgInvariant, NEW t \in Present \ {Root}, NEW base \in Nat,
         base + Height(t) <= maxDepth
  PROVE  \E w : Ranked(w, Subtree(t)) /\ w[t] = base
<1>1. PICK w : w = [y \in Agents |-> IF y \in Subtree(t) THEN base + Steps(t, y) ELSE 0]
  OBVIOUS
<1>2. /\ t \in Subtree(t) /\ ClosedBelow(Subtree(t)) /\ Subtree(t) \subseteq Agents
  BY SubtreePresent DEF Present
<1>3. /\ Height(t) \in Nat /\ Steps(t, t) = 0
      /\ \A x \in Subtree(t) : /\ Steps(t, x) \in Nat /\ Steps(t, x) <= Height(t)
                               /\ \A c \in Children(x) : Steps(t, x) < Steps(t, c)
  BY HeightRanks
<1>4. w \in [Agents -> Nat]
  BY <1>1, <1>3
<1>5. \A y \in Subtree(t) : w[y] = base + Steps(t, y)
  BY <1>1, <1>2
<1>6. ASSUME NEW z \in Subtree(t)
      PROVE  w[z] <= maxDepth /\ \A c \in Children(z) : w[z] < w[c]
  <2>1. w[z] <= maxDepth
    BY <1>3, <1>5, DepthTypes
  <2>2. ASSUME NEW c \in Children(z) PROVE w[z] < w[c]
    <3>1. c \in Subtree(t)
      BY <1>2 DEF ClosedBelow
    <3> QED BY <1>3, <1>5, <3>1
  <2> QED BY <2>1, <2>2
<1>7. w[t] = base
  BY <1>2, <1>3, <1>5
<1> QED BY <1>2, <1>4, <1>6, <1>7 DEF Ranked

\* A step that moves nobody, changes no depth and leaves the rest of the change.
LEMMA DepthQuiet ==
  ASSUME OrgInvariant, DepthInvariant, SamePlace, UNCHANGED <<maxDepth, plan, cut>>,
         \A b \in Agents : /\ agent'[b].depth = agent[b].depth
                           /\ saved'[b].depth \in {saved[b].depth, agent[b].depth}
  PROVE  DepthInvariant'
<1>1. /\ Present' = Present /\ \A x : Children(x)' = Children(x)
      /\ \A S : ClosedBelow(S)' <=> ClosedBelow(S)
  BY SamePlaces DEF OrgInvariant, SamePlace
<1>2. WithinLimit'
  BY DEF DepthInvariant, WithinLimit
<1>3. \A a \in Agents : agent'[a].parent = agent[a].parent
  BY DEF SamePlace
<1>4. InPlace'
  BY <1>1, <1>3, DepthTypes DEF DepthInvariant, InPlace
<1>5. PICK w, Z : Z \in SUBSET Agents /\ Ranked(w, Z) /\ MovesFit(w, Z) /\ FixesFit(w, Z)
  BY DEF DepthInvariant, Fitting
<1>6. Ranked(w, Z)'
  BY <1>1, <1>5, RankedKept
<1>7. MovesFit(w, Z)'
  <2> SUFFICES ASSUME plan.moves # {} PROVE Reach' = Reach
    BY <1>5 DEF MovesFit, Target
  <2>1. /\ plan.step = "spawn" => plan.under \in Agents
        /\ plan.step # "spawn" => plan.new \in Agents
    BY DEF OrgInvariant, TypeOK, Plans, PlanAbout, Present
  <2> QED BY <2>1 DEF Reach
<1>8. FixesFit(w, Z)'
  BY <1>3, <1>5 DEF FixesFit
<1>9. Fitting'
  BY <1>5, <1>6, <1>7, <1>8 DEF Fitting
<1> QED BY <1>1, <1>2, <1>4, <1>9 DEF DepthInvariant

\* A status saved saves the depth with it.
LEMMA StatusDepth ==
  ASSUME OrgInvariant, DepthInvariant, NEW a \in Present,
         NEW s \in {"created", "blocked", "done", "stopped"},
         PutStatus(a, s), UNCHANGED <<maxDepth, plan, cut>>
  PROVE  DepthInvariant'
<1>1. StatusSaved(a, s) /\ SamePlace
  BY StatusStep, StatusPlace
<1>2. PICK spec : spec = [agent[a] EXCEPT !.status = s]
  OBVIOUS
<1>3. spec.depth = agent[a].depth
  BY <1>2 DEF OrgInvariant, TypeOK, Specs, Present
<1>4. saved' = [saved EXCEPT ![a] = spec]
  BY <1>2 DEF PutStatus, Put
<1>5. \A b \in Agents : saved'[b].depth \in {saved[b].depth, agent[b].depth}
  BY <1>3, <1>4 DEF OrgInvariant, TypeOK
<1> QED BY <1>1, <1>5, DepthQuiet DEF StatusSaved

\* A new agent is one level below its parent, and nobody is below it.
LEMMA JoinDepth ==
  ASSUME OrgInvariant, DepthInvariant, plan.step # "fix", NEW n \in Agents \ Present,
         NEW p \in Present, NewAgent(n, p), agent[p].depth + 1 <= maxDepth,
         plan'.fixing = {}, UNCHANGED <<maxDepth, cut>>
  PROVE  /\ WithinLimit' /\ InPlace' /\ agent'[n].depth = agent[p].depth + 1
         /\ \A b \in Agents : b # n => agent'[b] = agent[b]
         /\ \A x : Children(x)' \subseteq Children(x) \cup {n}
         /\ \A x : x # p => Children(x)' \subseteq Children(x)
<1>1. Joined(n, p)
  BY JoinStep
<1>2. /\ saved' = agent' /\ agent'[n].parent = p /\ Present' = Present \cup {n}
      /\ \A b \in Agents : b # n => agent'[b] = agent[b]
  BY <1>1 DEF Joined, Present
<1>3. agent'[n].depth = agent[p].depth + 1
  BY DEF NewAgent, Put, OrgInvariant, TypeOK
<1>4. WithinLimit'
  BY <1>2, <1>3 DEF DepthInvariant, WithinLimit
<1>5. ASSUME NEW a \in Present' \ {Root}, ~cut PROVE agent'[a].depth = agent'[agent'[a].parent].depth + 1
  <2>1. p \in Agents /\ p # n
    BY DEF Present
  <2>2. CASE a = n
    BY <1>2, <1>3, <2>1, <2>2
  <2>3. CASE a # n
    <3>1. a \in Present \ {Root} /\ a \in Agents
      BY <1>2, <2>3 DEF Present
    <3>2. agent[a].parent \in Present /\ agent[a].parent \in Agents /\ agent[a].parent # n
      BY <3>1, DepthTypes
    <3>3. agent[a].depth = agent[agent[a].parent].depth + 1
      BY <1>5, <3>1 DEF DepthInvariant, InPlace
    <3> QED BY <1>2, <2>3, <3>1, <3>2, <3>3
  <2> QED BY <2>2, <2>3
<1>6. InPlace'
  BY <1>5 DEF InPlace
<1>7. ASSUME NEW x, NEW b \in Children(x)', b # n PROVE b \in Children(x)
  BY <1>2, <1>7 DEF Children, Present
<1>8. ASSUME NEW x, x # p PROVE n \notin Children(x)'
  BY <1>2, <1>8 DEF Children
<1> QED BY <1>2, <1>3, <1>4, <1>6, <1>7, <1>8

LEMMA SpawnDepth ==
  ASSUME OrgInvariant, DepthInvariant, NEW n \in Agents, NEW p \in Agents, Spawn(n, p)
  PROVE  DepthInvariant'
<1>1. /\ plan = Idle /\ plan' = Assigning /\ n \in Agents \ Present /\ NewAgent(n, p)
      /\ agent[p].depth + 1 <= maxDepth /\ UNCHANGED <<maxDepth, cut>> /\ p \in Present
  BY SpawnStep DEF Spawn, NewAgent, MaySpawn
<1>2. plan.step # "fix" /\ plan'.fixing = {} /\ plan'.moves = {} /\ plan'.step # "fix"
  BY <1>1 DEF Idle, Assigning
<1>3. WithinLimit' /\ InPlace'
  BY <1>1, <1>2, JoinDepth
<1> QED BY <1>2, <1>3, NothingFits DEF DepthInvariant, ClosedBelow

LEMMA SpawnReplacementDepth ==
  ASSUME OrgInvariant, DepthInvariant, SpawnReplacement
  PROVE  DepthInvariant'
<1>1. PICK n, p : n = plan.new /\ p = plan.under
  OBVIOUS
<1>2. /\ plan.step = "spawn" /\ n \in Agents \ Present /\ p \in Present /\ NewAgent(n, p)
      /\ agent[p].depth + 1 <= maxDepth /\ UNCHANGED <<maxDepth, cut>>
      /\ plan' = IF plan.moves = {} THEN Assigning ELSE [plan EXCEPT !.step = "move"]
  BY <1>1, SpawnReplacementStep DEF SpawnReplacement, MaySpawn
<1>3. /\ plan'.fixing = {} /\ plan'.step \in {"assign", "move"} /\ plan'.moves = plan.moves
      /\ plan.moves # {} => plan'.step = "move" /\ plan'.new = n
  BY <1>1, <1>2 DEF Assigning, Idle, OrgInvariant, TypeOK, Plans, DepthInvariant
<1>4. /\ WithinLimit' /\ InPlace' /\ agent'[n].depth = agent[p].depth + 1
      /\ \A x : Children(x)' \subseteq Children(x) \cup {n}
      /\ \A x : x # p => Children(x)' \subseteq Children(x)
  BY <1>2, <1>3, JoinDepth
<1>5. Fitting'
  <2>1. CASE plan.moves = {}
    BY <1>3, <2>1, NothingFits
  <2>2. CASE plan.moves # {}
    <3>1. PICK w, Z : Z \in SUBSET Agents /\ Ranked(w, Z) /\ MovesFit(w, Z)
      BY DEF DepthInvariant, Fitting
    <3>2. plan.moves \subseteq Z /\ p \notin Z /\ \A c \in plan.moves : agent[p].depth + 2 <= w[c]
      BY <1>1, <1>2, <2>2, <3>1 DEF MovesFit, Target, Reach
    <3>3. PICK Y \in SUBSET Agents : Y = Z \ {n}
      BY <3>1
    <3>4. \A z \in Y : Children(z)' \subseteq Children(z) /\ n \notin Children(z)
      BY <1>2, <1>4, <3>2, <3>3 DEF Children
    <3>5. Ranked(w, Y)
      BY <3>1, <3>3, <3>4 DEF Ranked, ClosedBelow
    <3>6. Ranked(w, Y)'
      BY <1>2, <3>4, <3>5, RankedKept
    <3>7. plan.moves \subseteq Y
      BY <1>2, <3>2, <3>3 DEF OrgInvariant, PlanAbout
    <3>8. agent[p].depth \in Nat
      BY <1>2, DepthTypes
    <3>9. MovesFit(w, Y)'
      <4>1. Reach' = agent[p].depth + 2 /\ Target' = n
        BY <1>3, <1>4, <2>2, <3>8 DEF Reach, Target
      <4> QED BY <1>3, <3>2, <3>3, <3>7, <4>1 DEF MovesFit
    <3>10. FixesFit(w, Y)'
      BY <1>3 DEF FixesFit
    <3> QED BY <3>6, <3>9, <3>10 DEF Fitting
  <2> QED BY <2>1, <2>2
<1> QED BY <1>3, <1>4, <1>5 DEF DepthInvariant, ClosedBelow

\* An agent that is moved takes its new depth at once, what is below it is to be put right.
LEMMA MoveDepth ==
  ASSUME OrgInvariant, DepthInvariant, plan.step # "fix", NEW a \in Present \ {Root},
         NEW p \in Present, MoveSaved(a, p), Move(a, p), p \notin Subtree(a),
         UNCHANGED <<maxDepth, cut>>, plan'.step = "fix", plan'.fixing = Subtree(a) \ {a},
         NEW w, NEW Z \in SUBSET Agents, Ranked(w, Z), a \in Z, p \notin Z,
         agent[p].depth + 1 <= w[a],
         plan'.moves # {} => /\ plan'.new = p /\ plan'.moves \subseteq Z
                             /\ \A c \in plan'.moves : agent[p].depth + 1 <= w[c]
  PROVE  DepthInvariant'
<1>1. /\ a \in Agents /\ p \in Agents /\ a # p /\ a \in Subtree(a) /\ ClosedBelow(Subtree(a))
      /\ Subtree(a) \subseteq Present \ {Root} /\ agent[p].depth \in Nat /\ maxDepth \in Nat
  BY SubtreePresent, DepthTypes DEF Present
<1>2. /\ agent'[a].parent = p
      /\ \A b \in Agents : b # a => agent'[b] = agent[b] /\ saved'[b] = agent'[b]
      /\ Present' = Present
  BY DEF MoveSaved, Present
<1>3. PICK spec : spec = [agent[a] EXCEPT !.parent = p, !.depth = agent[p].depth + 1]
  OBVIOUS
<1>4. spec.depth = agent[p].depth + 1
  BY <1>1, <1>3 DEF OrgInvariant, TypeOK, Specs
<1>5. agent' = [agent EXCEPT ![a] = spec] /\ (saved' = [saved EXCEPT ![a] = spec] \/ saved' = saved)
  BY <1>3 DEF Move
<1>6. /\ agent'[a].depth = agent[p].depth + 1
      /\ saved'[a].depth \in {saved[a].depth, agent[p].depth + 1}
  BY <1>1, <1>4, <1>5 DEF OrgInvariant, TypeOK
<1>7. w[a] <= maxDepth /\ w[a] \in Nat
  BY <1>1 DEF Ranked
<1>8. WithinLimit'
  BY <1>1, <1>2, <1>6, <1>7 DEF DepthInvariant, WithinLimit
<1>9. \A x : Children(x)' \subseteq Children(x) \cup {a}
  BY <1>2 DEF Children, Present
<1>10. \A x : x # p => a \notin Children(x)'
  BY <1>2 DEF Children
<1>11. InPlace'
  <2> SUFFICES ASSUME NEW b \in Present \ {Root}, ~cut, b \notin plan'.fixing
               PROVE  agent'[b].depth = agent'[agent'[b].parent].depth + 1
    BY <1>2 DEF InPlace
  <2>1. CASE b = a
    BY <1>1, <1>2, <1>6, <2>1
  <2>2. CASE b # a
    <3>1. b \in Agents /\ b \notin Subtree(a) /\ agent[b].parent \in Agents
      BY <2>2, DepthTypes
    <3>2. agent[b].parent # a
      BY <1>1, <3>1 DEF ClosedBelow, Children
    <3>3. agent[b].depth = agent[agent[b].parent].depth + 1
      BY DEF DepthInvariant, InPlace
    <3> QED BY <1>2, <2>2, <3>1, <3>2, <3>3
  <2> QED BY <2>1, <2>2
<1>12. ClosedBelow(plan.fixing)'
  BY <1>1, <1>9, <1>10 DEF ClosedBelow
<1>13. Ranked(w, Z)'
  BY <1>9, <1>10, RankedKept
<1>14. MovesFit(w, Z)'
  BY <1>1, <1>2 DEF MovesFit, Target, Reach
<1>15. FixesFit(w, Z)'
  <2>1. Subtree(a) \subseteq Z
    BY <1>1, SubtreeClosed DEF Ranked
  <2> SUFFICES ASSUME NEW x \in Subtree(a) \ {a}
               PROVE  /\ agent'[x].parent \in Z
                      /\ \/ agent'[x].parent \in Subtree(a) \ {a}
                         \/ agent'[agent'[x].parent].depth <= w[agent'[x].parent]
    BY <2>1 DEF FixesFit
  <2>2. x \in Agents /\ agent'[x].parent = agent[x].parent /\ agent[x].parent \in Subtree(a)
    BY <1>1, <1>2, ParentBelow DEF Present
  <2> QED BY <1>6, <2>1, <2>2
<1>16. Fitting'
  BY <1>13, <1>14, <1>15 DEF Fitting
<1> QED BY <1>8, <1>11, <1>12, <1>16 DEF DepthInvariant

LEMMA ReparentDepth ==
  ASSUME OrgInvariant, DepthInvariant, NEW t \in Agents, NEW p \in Agents, Reparent(t, p)
  PROVE  DepthInvariant'
<1>1. /\ plan.step # "fix" /\ p \notin Subtree(t) /\ p \in Present /\ Move(t, p)
      /\ agent[p].depth + 1 + Height(t) <= maxDepth /\ UNCHANGED <<maxDepth, cut>>
      /\ plan' = [Idle EXCEPT !.step = "fix", !.moved = t, !.fixing = Subtree(t) \ {t}]
  BY DEF Reparent, MayReparent, MayAttach, Live, Present, OrgInvariant, Idle
<1>2. t \in Present \ {Root} /\ MoveSaved(t, p)
  BY ReparentStep
<1>3. plan'.step = "fix" /\ plan'.fixing = Subtree(t) \ {t} /\ plan'.moves = {}
  BY <1>1 DEF Idle
<1>4. /\ agent[p].depth + 1 \in Nat /\ t \in Subtree(t) /\ Subtree(t) \in SUBSET Agents
  BY <1>2, DepthTypes, SubtreeClosed
<1>5. PICK w : Ranked(w, Subtree(t)) /\ w[t] = agent[p].depth + 1
  BY <1>1, <1>2, <1>4, RanksBelow
<1>6. agent[p].depth + 1 <= w[t]
  BY <1>4, <1>5
<1> QED BY <1>1, <1>2, <1>3, <1>4, <1>5, <1>6, MoveDepth

LEMMA MoveChildDepth ==
  ASSUME OrgInvariant, DepthInvariant, NEW c \in Agents, MoveChild(c)
  PROVE  DepthInvariant'
<1>1. PICK p : p = plan.new
  OBVIOUS
<1>2. /\ plan.step = "move" /\ c \in plan.moves /\ Move(c, p) /\ UNCHANGED <<maxDepth, cut>>
      /\ p \in Present
  BY <1>1 DEF MoveChild, OrgInvariant, PlanAbout
<1>3. c \in Present \ {Root} /\ MoveSaved(c, p)
  BY <1>1, MoveChildStep
<1>4. /\ plan'.step = "fix" /\ plan'.fixing = Subtree(c) \ {c} /\ plan'.moves \subseteq plan.moves
      /\ plan'.new = p
  BY <1>1 DEF MoveChild, OrgInvariant, TypeOK, Plans
<1>5. PICK w, Z : Z \in SUBSET Agents /\ Ranked(w, Z) /\ MovesFit(w, Z)
  BY DEF DepthInvariant, Fitting
<1>6. /\ plan.moves \subseteq Z /\ p \notin Z /\ \A b \in plan.moves : agent[p].depth + 1 <= w[b]
  BY <1>1, <1>2, <1>5 DEF MovesFit, Target, Reach
<1>7. c \in Z /\ agent[p].depth + 1 <= w[c]
  BY <1>2, <1>6
<1>8. p \notin Subtree(c)
  BY <1>5, <1>6, <1>7, SubtreeClosed DEF Ranked
<1>9. plan'.moves \subseteq Z /\ \A b \in plan'.moves : agent[p].depth + 1 <= w[b]
  BY <1>4, <1>6
<1>10. plan.step # "fix"
  BY <1>2
<1> QED BY <1>2, <1>3, <1>4, <1>5, <1>6, <1>7, <1>8, <1>9, <1>10, MoveDepth

LEMMA ReplaceDepth ==
  ASSUME OrgInvariant, DepthInvariant, ~ReplaceUnderSubtree,
         NEW t \in Agents, NEW p \in Agents, NEW n \in Agents, Replace(t, p, n)
  PROVE  DepthInvariant'
<1>1. /\ p \in Present /\ PutStatus(t, "stopped") /\ UNCHANGED <<maxDepth, cut>>
      /\ plan.step = "idle"
      /\ Height(t) > 0 => agent[p].depth + 1 + Height(t) <= maxDepth
      /\ plan' = [Idle EXCEPT !.step = "spawn", !.new = n, !.under = p, !.moves = Children(t)]
  BY DEF Replace, MayReplace, MayAttach, Live, Present, OrgInvariant, Idle, PutStatus
<1>2. t \in Present \ {Root} /\ StatusSaved(t, "stopped") /\ SamePlace
      /\ p \notin Subtree(t) \ {t}
  BY ReplaceStep, StatusPlace
<1>3. /\ plan'.step = "spawn" /\ plan'.fixing = {} /\ plan'.moves = Children(t) /\ plan'.under = p
  BY <1>1 DEF Idle
<1>4. /\ Present' = Present /\ \A x : Children(x)' = Children(x)
  BY <1>2, SamePlaces DEF OrgInvariant, SamePlace
<1>5. /\ \A b \in Agents : agent'[b].parent = agent[b].parent /\ agent'[b].depth = agent[b].depth
      /\ \A b \in Agents : saved'[b] = agent'[b]
  BY <1>1, <1>2 DEF StatusSaved
<1>6. WithinLimit'
  BY <1>1, <1>5 DEF DepthInvariant, WithinLimit
<1>7. plan.fixing = {}
  BY <1>1 DEF DepthInvariant
<1>8. InPlace'
  BY <1>1, <1>4, <1>5, <1>7, DepthTypes DEF DepthInvariant, InPlace
<1>9. Fitting'
  <2>1. CASE Children(t) = {}
    BY <1>3, <2>1, NothingFits
  <2>2. CASE Children(t) # {}
    <3>1. /\ t \in Subtree(t) /\ Subtree(t) \in SUBSET Agents /\ Children(t) \subseteq Subtree(t)
          /\ agent[p].depth + 1 \in Nat /\ agent[p].depth \in Nat
      BY <1>1, <1>2, SubtreePresent, DepthTypes DEF Present
    <3>2. /\ Height(t) \in Nat
          /\ \A x \in Subtree(t) : /\ Steps(t, x) \in Nat /\ Steps(t, x) <= Height(t)
                                   /\ \A c \in Children(x) : Steps(t, x) < Steps(t, c)
      BY <1>2, HeightRanks
    <3>3. Height(t) > 0
      <4>1. PICK c \in Children(t) : TRUE
        BY <2>2
      <4>2. Steps(t, t) < Steps(t, c) /\ Steps(t, c) <= Height(t) /\ Steps(t, t) \in Nat
            /\ Steps(t, c) \in Nat
        BY <3>1, <3>2
      <4> QED BY <3>2, <4>2
    <3>4. PICK w : Ranked(w, Subtree(t)) /\ w[t] = agent[p].depth + 1
      BY <1>1, <1>2, <3>1, <3>3, RanksBelow
    <3>5. \A c \in Children(t) : agent[p].depth + 2 <= w[c]
      <4> SUFFICES ASSUME NEW c \in Children(t) PROVE agent[p].depth + 2 <= w[c]
        OBVIOUS
      <4>1. w[t] < w[c] /\ w[c] \in Nat
        BY <3>1, <3>4 DEF Ranked
      <4> QED BY <3>1, <3>4, <4>1
    <3>6. Fitting'
      <4>1. PICK Z \in SUBSET Agents :
              Z = Subtree(t) \ {t} /\ ClosedBelow(Z) /\ Children(t) \subseteq Z
        BY <1>2, StrictlyBelow
      <4>2. Ranked(w, Z)
        BY <3>4, <4>1 DEF Ranked
      <4>3. Ranked(w, Z)' /\ MovesFit(w, Z)'
        <5>1. Ranked(w, Z)'
          BY <1>1, <1>4, <4>2, RankedKept
        <5>2. MovesFit(w, Z)'
          BY <1>2, <1>3, <1>5, <3>1, <3>5, <4>1 DEF MovesFit, Target, Reach
        <5> QED BY <5>1, <5>2
      <4>4. FixesFit(w, Z)'
        BY <1>3 DEF FixesFit
      <4> QED BY <4>3, <4>4 DEF Fitting
    <3> QED BY <3>6
  <2> QED BY <2>1, <2>2
<1> QED BY <1>3, <1>6, <1>8, <1>9 DEF DepthInvariant, ClosedBelow

\* A depth put right fits, and those below are still to be put right.
LEMMA FixDepthDepth ==
  ASSUME OrgInvariant, DepthInvariant, NEW x \in Agents, FixDepth(x)
  PROVE  DepthInvariant'
<1>1. PICK q : q = agent[x].parent
  OBVIOUS
<1>2. PICK spec : spec = [agent[x] EXCEPT !.depth = agent[q].depth + 1]
  OBVIOUS
<1>3. /\ plan.step = "fix" /\ x \in plan.fixing /\ q \notin plan.fixing /\ UNCHANGED <<maxDepth, cut>>
      /\ agent' = [agent EXCEPT ![x] = spec] /\ saved' = [saved EXCEPT ![x] = spec]
      /\ plan' = [plan EXCEPT !.fixing = @ \ {x}]
  BY <1>1, <1>2 DEF FixDepth, Put
<1>4. x \in Present \ {Root} /\ q \in Present /\ q \in Agents /\ q # x
  BY <1>1, <1>3, DepthTypes DEF OrgInvariant, PlanAbout
<1>5. spec.depth = agent[q].depth + 1 /\ spec.parent = q /\ spec.status = agent[x].status
  BY <1>1, <1>2 DEF OrgInvariant, TypeOK, Specs
<1>6. /\ agent'[x] = spec /\ saved'[x] = spec
      /\ \A b \in Agents : b # x => agent'[b] = agent[b] /\ saved'[b] = saved[b]
  BY <1>3 DEF OrgInvariant, TypeOK
<1>7. /\ plan'.step = "fix" /\ plan'.fixing = plan.fixing \ {x} /\ plan'.moves = plan.moves
      /\ plan'.new = plan.new
  BY <1>3 DEF OrgInvariant, TypeOK, Plans
<1>8. /\ SamePlace /\ \A b \in Agents : agent'[b].parent = agent[b].parent
  BY FixDepthStep DEF SamePlace
<1>9. /\ Present' = Present /\ \A z : Children(z)' = Children(z)
      /\ \A S : ClosedBelow(S)' <=> ClosedBelow(S)
  BY <1>8, SamePlaces DEF OrgInvariant, SamePlace
<1>10. PICK w, Z : Z \in SUBSET Agents /\ Ranked(w, Z) /\ MovesFit(w, Z) /\ FixesFit(w, Z)
  BY DEF DepthInvariant, Fitting
<1>11. x \in Z /\ q \in Z /\ agent[q].depth <= w[q] /\ plan.fixing \subseteq Z
  BY <1>1, <1>3, <1>10 DEF FixesFit
<1>12. x \in Children(q)
  BY <1>1, <1>4 DEF Children
<1>13. /\ w[q] < w[x] /\ w[x] <= maxDepth /\ w[q] \in Nat /\ w[x] \in Nat
       /\ agent[q].depth \in Nat /\ maxDepth \in Nat
  BY <1>4, <1>10, <1>11, <1>12, DepthTypes DEF Ranked
<1>14. agent'[x].depth = agent[q].depth + 1 /\ agent'[x].depth <= w[x] /\ agent'[x].depth <= maxDepth
  BY <1>5, <1>6, <1>11, <1>13
<1>15. WithinLimit'
  BY <1>3, <1>6, <1>14 DEF DepthInvariant, WithinLimit
<1>16. InPlace'
  <2> SUFFICES ASSUME NEW b \in Present \ {Root}, ~cut, b \notin plan.fixing \/ b = x
               PROVE  agent'[b].depth = agent'[agent'[b].parent].depth + 1
    BY <1>3, <1>7, <1>9 DEF InPlace
  <2>1. CASE b = x
    BY <1>4, <1>5, <1>6, <2>1
  <2>2. CASE b # x
    <3>1. b \in Agents /\ agent[b].parent \in Agents
      BY DepthTypes
    <3>2. agent[b].parent # x
      BY <1>3, <2>2 DEF DepthInvariant, ClosedBelow, Children
    <3>3. agent[b].depth = agent[agent[b].parent].depth + 1
      BY <2>2 DEF DepthInvariant, InPlace
    <3> QED BY <1>6, <2>2, <3>1, <3>2, <3>3
  <2> QED BY <2>1, <2>2
<1>17. ClosedBelow(plan.fixing)'
  <2>1. ClosedBelow(plan.fixing \ {x})
    BY <1>1, <1>3 DEF DepthInvariant, ClosedBelow, Children
  <2> QED BY <1>7, <1>9, <2>1
<1>18. Ranked(w, Z)'
  BY <1>3, <1>9, <1>10, RankedKept
<1>19. MovesFit(w, Z)'
  <2> SUFFICES ASSUME plan.moves # {} PROVE Reach' = Reach /\ Target' = Target
    BY <1>7, <1>10 DEF MovesFit
  <2>1. plan.new \notin Z /\ plan.new \in Agents
    BY <1>3, <1>10 DEF MovesFit, Target, OrgInvariant, PlanAbout, Present
  <2>2. agent'[plan.new] = agent[plan.new]
    BY <1>6, <1>11, <2>1
  <2> QED BY <1>3, <1>7, <2>2 DEF Reach, Target
<1>20. FixesFit(w, Z)'
  <2> SUFFICES ASSUME NEW y \in plan.fixing, y # x
               PROVE  /\ agent'[y].parent \in Z
                      /\ \/ agent'[y].parent \in plan.fixing \ {x}
                         \/ agent'[agent'[y].parent].depth <= w[agent'[y].parent]
    BY <1>7, <1>11 DEF FixesFit
  <2>1. y \in Agents /\ agent'[y].parent = agent[y].parent /\ agent[y].parent \in Agents
    BY <1>3, <1>8, DepthTypes DEF OrgInvariant, PlanAbout
  <2>2. /\ agent[y].parent \in Z
        /\ agent[y].parent \in plan.fixing \/ agent[agent[y].parent].depth <= w[agent[y].parent]
    BY <1>3, <1>10 DEF FixesFit
  <2> QED BY <1>6, <1>14, <2>1, <2>2
<1>21. Fitting'
  BY <1>10, <1>18, <1>19, <1>20 DEF Fitting
<1> QED BY <1>7, <1>15, <1>16, <1>17, <1>21 DEF DepthInvariant

LEMMA SaveMovedDepth == ASSUME OrgInvariant, DepthInvariant, SaveMoved PROVE DepthInvariant'
<1>1. /\ plan.step = "fix" /\ plan.fixing = {} /\ UNCHANGED <<maxDepth, agent, cut>>
      /\ saved' = [saved EXCEPT ![plan.moved] = agent[plan.moved]] /\ plan' = Moved
  BY DEF SaveMoved
<1>2. \A b \in Agents : saved'[b] = agent[b]
  BY <1>1 DEF OrgInvariant, TypeOK, RowsBehind
<1>3. /\ plan'.fixing = {} /\ plan'.step # "fix" /\ plan'.moves = plan.moves
      /\ plan.moves # {} => plan'.step = "move" /\ plan'.new = plan.new
  BY <1>1 DEF Moved, Assigning, Idle, OrgInvariant, TypeOK, Plans
<1>4. /\ Present' = Present /\ \A x : Children(x)' = Children(x)
  BY <1>1 DEF Present, Children
<1>5. WithinLimit' /\ InPlace'
  BY <1>1, <1>2, <1>4 DEF DepthInvariant, WithinLimit, InPlace
<1>6. Fitting'
  <2>1. CASE plan.moves = {}
    BY <1>3, <2>1, NothingFits
  <2>2. CASE plan.moves # {}
    <3>1. PICK w, Z : Z \in SUBSET Agents /\ Ranked(w, Z) /\ MovesFit(w, Z)
      BY DEF DepthInvariant, Fitting
    <3>2. Ranked(w, Z)'
      BY <1>1, <1>4, <3>1, RankedKept
    <3>3. Reach' = Reach /\ Target' = Target
      BY <1>1, <1>3, <2>2 DEF Reach, Target
    <3>4. MovesFit(w, Z)' /\ FixesFit(w, Z)'
      BY <1>3, <3>1, <3>3 DEF MovesFit, FixesFit
    <3> QED BY <3>1, <3>2, <3>4 DEF Fitting
  <2> QED BY <2>1, <2>2
<1> QED BY <1>3, <1>5, <1>6 DEF DepthInvariant, ClosedBelow

\* After a restart, or a pause, nothing is left of a change; and what was cut is not in place.
LEMMA DroppedDepth ==
  ASSUME OrgInvariant, DepthInvariant, Assign \/ PauseBeforeSpawn \/ Crash
  PROVE  DepthInvariant'
<1>1. /\ plan' \in {Assigning, Idle} /\ saved' = saved /\ maxDepth' = maxDepth
      /\ agent' = agent \/ agent' = saved
  BY DroppedStep DEF Assign, PauseBeforeSpawn, Crash
<1>2. plan'.fixing = {} /\ plan'.moves = {} /\ plan'.step # "fix"
  BY <1>1 DEF Assigning, Idle
<1>3. WithinLimit'
  BY <1>1 DEF DepthInvariant, WithinLimit
<1>4. cut' \/ (agent' = agent /\ cut' = cut /\ plan.step # "fix")
  <2>1. plan.step \in {"idle", "assign"} => saved = agent
    BY DEF OrgInvariant, TypeOK, RowsBehind
  <2>2. CASE Assign
    BY <2>2 DEF Assign
  <2>3. CASE PauseBeforeSpawn
    BY <2>3 DEF PauseBeforeSpawn
  <2>4. CASE Crash
    <3>1. CASE plan.step \in {"idle", "assign"}
      BY <2>1, <2>4, <3>1 DEF Crash, OrgInvariant, TypeOK
    <3>2. CASE plan.step \notin {"idle", "assign"}
      BY <2>4, <3>2 DEF Crash
    <3> QED BY <3>1, <3>2
  <2> QED BY <2>2, <2>3, <2>4
<1>5. InPlace'
  <2>1. CASE cut'
    BY <2>1 DEF InPlace
  <2>2. CASE agent' = agent /\ cut' = cut /\ plan.step # "fix"
    <3>1. Present' = Present /\ plan.fixing = {}
      BY <2>2 DEF Present, DepthInvariant
    <3> QED BY <2>2, <3>1 DEF DepthInvariant, InPlace
  <2> QED BY <1>4, <2>1, <2>2
<1> QED BY <1>2, <1>3, <1>5, NothingFits DEF DepthInvariant, ClosedBelow

LEMMA DepthNext ==
  ASSUME OrgInvariant, DepthInvariant, ~ReplaceUnderSubtree, [Next]_vars
  PROVE  DepthInvariant'
<1>1. CASE UNCHANGED vars
  BY <1>1, DepthQuiet DEF vars, SamePlace
<1>2. ASSUME NEW n \in Agents, NEW p \in Agents, Spawn(n, p) PROVE DepthInvariant'
  BY <1>2, SpawnDepth
<1>3. ASSUME NEW t \in Agents, Retire(t) PROVE DepthInvariant'
  <2>1. t \in Present /\ PutStatus(t, "stopped") /\ UNCHANGED <<maxDepth, plan, cut>>
    BY <1>3 DEF Retire, MayRetire, Live, Present, PutStatus
  <2> QED BY <2>1, StatusDepth
<1>4. ASSUME NEW t \in Agents, NEW p \in Agents, Reparent(t, p) PROVE DepthInvariant'
  BY <1>4, ReparentDepth
<1>5. ASSUME NEW t \in Agents, NEW p \in Agents, NEW n \in Agents, Replace(t, p, n)
      PROVE  DepthInvariant'
  BY <1>5, ReplaceDepth
<1>6. CASE SpawnReplacement
  BY <1>6, SpawnReplacementDepth
<1>7. ASSUME NEW c \in Agents, MoveChild(c) PROVE DepthInvariant'
  BY <1>7, MoveChildDepth
<1>8. ASSUME NEW x \in Agents, FixDepth(x) PROVE DepthInvariant'
  BY <1>8, FixDepthDepth
<1>9. CASE SaveMoved
  BY <1>9, SaveMovedDepth
<1>10. ASSUME NEW a \in Agents, Work(a) PROVE DepthInvariant'
  <2>1. PICK end \in {"done", "blocked"} : PutStatus(a, end)
    BY <1>10 DEF Work, PutStatus
  <2>2. a \in Present /\ UNCHANGED <<maxDepth, plan, cut>>
    BY <1>10 DEF Work, OrgInvariant, BusyLive, Live, Present
  <2> QED BY <2>1, <2>2, StatusDepth
<1>11. ASSUME NEW a \in Agents, Kill(a) PROVE DepthInvariant'
  <2>1. a \in Present /\ PutStatus(a, "stopped") /\ UNCHANGED <<maxDepth, plan, cut>>
    BY <1>11 DEF Kill, Present, PutStatus
  <2> QED BY <2>1, StatusDepth
<1>12. CASE Assign \/ PauseBeforeSpawn \/ Crash
  BY <1>12, DroppedDepth
<1> QED BY <1>1, <1>2, <1>3, <1>4, <1>5, <1>6, <1>7, <1>8, <1>9, <1>10, <1>11, <1>12 DEF Next

-----------------------------------------------------------------------------
(* Theorems *)

LEMMA OrgInvariantNext ==
  ASSUME OrgInvariant, ~ReplaceUnderSubtree, [Next]_vars
  PROVE  OrgInvariant'
<1>1. CASE UNCHANGED vars
  BY <1>1 DEF vars, OrgInvariant, TypeOK, RowsBehind, PlanAbout, Separated, Target, BusyLive,
              Live, Present, ClosedBelow, Children, Tree
<1>2. ASSUME NEW n \in Agents, NEW p \in Agents, Spawn(n, p) PROVE OrgInvariant'
  BY <1>2, SpawnStep
<1>3. ASSUME NEW t \in Agents, Retire(t) PROVE OrgInvariant'
  BY <1>3, RetireStep
<1>4. ASSUME NEW t \in Agents, NEW p \in Agents, Reparent(t, p) PROVE OrgInvariant'
  BY <1>4, ReparentStep
<1>5. ASSUME NEW t \in Agents, NEW p \in Agents, NEW n \in Agents, Replace(t, p, n) PROVE OrgInvariant'
  BY <1>5, ReplaceStep
<1>6. CASE SpawnReplacement
  BY <1>6, SpawnReplacementStep
<1>7. ASSUME NEW c \in Agents, MoveChild(c) PROVE OrgInvariant'
  BY <1>7, MoveChildStep
<1>8. ASSUME NEW x \in Agents, FixDepth(x) PROVE OrgInvariant'
  BY <1>8, FixDepthStep
<1>9. CASE SaveMoved
  BY <1>9, SaveMovedStep
<1>10. ASSUME NEW a \in Agents, Work(a) PROVE OrgInvariant'
  BY <1>10, WorkStep
<1>11. ASSUME NEW a \in Agents, Kill(a) PROVE OrgInvariant'
  BY <1>11, KillStep
<1>12. CASE Assign \/ PauseBeforeSpawn \/ Crash
  BY <1>12, DroppedStep
<1> QED BY <1>1, <1>2, <1>3, <1>4, <1>5, <1>6, <1>7, <1>8, <1>9, <1>10, <1>11, <1>12 DEF Next

\* The theorems assume ~ReplaceUnderSubtree: no replacement is put below a descendant of its
\* target, which org.py:156-164 does not refuse and which may close a cycle.  A replacement put
\* directly below its target is among the behaviours they cover.

\* Who is there, where, and what the rows and the rest of a change say of it fit together, as
\* long as no replacement is put below a descendant of its target.
THEOREM OrgInvariantHolds == ASSUME ~ReplaceUnderSubtree PROVE Spec => []OrgInvariant
<1>1. OrgInvariant /\ [Next]_vars => OrgInvariant'
  BY OrgInvariantNext
<1> QED BY OrgInvariantInit, <1>1, PTL DEF Spec

\* The types of the organization's state.  Same assumption.
THEOREM TypeCorrect == ASSUME ~ReplaceUnderSubtree PROVE Spec => []TypeOK
<1>1. OrgInvariant => TypeOK
  BY DEF OrgInvariant
<1> QED BY OrgInvariantHolds, <1>1, PTL

\* Through any spawns, moves, kills, pauses and crashes, and any replacements but those below a
\* descendant of the target, the organization stays a tree below the controller, in memory and
\* in the rows, so that _descendants returns.
THEOREM RootedHolds == ASSUME ~ReplaceUnderSubtree PROVE Spec => []Rooted
<1>1. OrgInvariant => Rooted
  BY DEF OrgInvariant, Rooted
<1> QED BY OrgInvariantHolds, <1>1, PTL

\* Between two changes the rows a restart would read are what the runtime holds, under the same
\* assumption.
THEOREM SavedBetweenChangesHolds == ASSUME ~ReplaceUnderSubtree PROVE Spec => []SavedBetweenChanges
<1>1. OrgInvariant => SavedBetweenChanges
  BY DEF OrgInvariant, TypeOK, RowsBehind, SavedBetweenChanges
<1> QED BY OrgInvariantHolds, <1>1, PTL

\* Never more live agents than the limit, however kills and crashes fall between the steps
\* of a change; and a replacement whose target is gone is not refused.  Same assumption.
THEOREM LimitsRespectedHolds == ASSUME ~ReplaceUnderSubtree PROVE Spec => []LimitsRespected
<1>1. ASSUME Init PROVE LimitsRespected
  <2>1. Live = {Root} /\ plan.step = "idle"
    BY <1>1, OrgAssumption DEF Init, Live, Absent, Idle
  <2>2. Cardinality(Live) = 1
    BY <2>1, FS_Singleton
  <2> QED BY <2>1, <2>2, OrgAssumption DEF LimitsRespected
<1>2. OrgInvariant /\ LimitsRespected /\ [Next]_vars => LimitsRespected'
  BY LimitsNext
<1> QED BY OrgInvariantHolds, <1>1, <1>2, PTL DEF Spec

\* A live agent is below one retired by the controller only while a replacement is under way,
\* since a pause or a crash cut one short, or because the replacement was put directly below
\* its target; under the assumption that none is put below a descendant of its target.
THEOREM RetiredChildlessHolds == ASSUME ~ReplaceUnderSubtree PROVE Spec => []RetiredChildless
<1>1. ASSUME Init PROVE Attached
  BY <1>1, OrgAssumption DEF Init, Attached, Stands, RetiredChildless, Live, Absent, Idle
<1>2. OrgInvariant /\ Attached /\ [Next]_vars => Attached'
  BY AttachedNext
<1>3. Attached => RetiredChildless
  BY DEF Attached
<1> QED BY OrgInvariantHolds, <1>1, <1>2, <1>3, PTL DEF Spec

\* The depth that limits are checked against is the depth in the tree unless a change was cut
\* short, and never beyond the limit: not even where a whole subtree moves agent by agent, with
\* kills and crashes in between (org.py:306).  Same assumption.
THEOREM DepthHonestHolds == ASSUME ~ReplaceUnderSubtree PROVE Spec => []DepthHonest
<1>1. OrgInvariant /\ DepthInvariant /\ [Next]_vars => DepthInvariant'
  BY DepthNext
<1>2. DepthInvariant => DepthHonest
  BY DEF DepthInvariant, WithinLimit, InPlace, DepthHonest, Present
<1> QED BY OrgInvariantHolds, DepthInit, <1>1, <1>2, PTL DEF Spec
=============================================================================
