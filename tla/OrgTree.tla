------------------------------- MODULE OrgTree -------------------------------
(***************************************************************************)
(* The organization of one mission: OrganizationDesigner of app/org.py on  *)
(* top of SwarmRuntime.spawn, agent_status and kill_agent.                 *)
(*                                                                         *)
(* run() applies one change at a time, but every save is a transaction of  *)
(* its own and every emit may suspend, so a change is cut into steps: a    *)
(* kill may come between two of them, and so may a crash or a pause, after *)
(* which the rest of the change is never done.  plan is that rest.         *)
(* agent is what the runtime holds, saved the rows.  A refused change ends *)
(* the mission and is therefore not a step.                                *)
(***************************************************************************)
EXTENDS Naturals, FiniteSets

CONSTANTS Agents,               \* every agent the mission may ever have
          Root,                 \* the mission controller
          Nobody,               \* parent_id None
          DepthLimits,          \* the max_depth a mission may be created with
          MaxAgents,            \* its max_agents
          ReplaceUnderSubtree   \* does the controller ever ask to put a replacement
                                \* below a descendant of what it replaces?  The code does
                                \* not refuse.

ASSUME OrgAssumption ==
  /\ Root \in Agents /\ Nobody \notin Agents
  /\ DepthLimits \subseteq Nat /\ MaxAgents \in Nat \ {0}
  /\ IsFiniteSet(Agents)
  /\ ReplaceUnderSubtree \in BOOLEAN

VARIABLES maxDepth, \* limits.max_depth of this mission
          agent,    \* runtime.agents
          saved,    \* the rows of agents
          busy,     \* who has a task pending or running
          plan,     \* what is left of the change being applied
          excused,  \* who may be retired with live agents below it: killed by a person,
                    \* or replaced by an agent put directly below it (history)
          cut       \* was a change ever cut short? (history)

vars == <<maxDepth, agent, saved, busy, plan, excused, cut>>

\* "blocked" and "done" are how a task leaves its agent; only "done" is final for kill.
Specs == [parent : Agents \cup {Nobody}, depth : Nat,
          status : {"absent", "created", "blocked", "done", "stopped"}]

Absent == [parent |-> Nobody, depth |-> 0, status |-> "absent"]

\* new is to be spawned under "under", then moves go below new one by one; of the
\* one last moved, fixing are the descendants whose depth is still the old one.
Plans == [step : {"idle", "spawn", "move", "fix", "assign"},
          new : Agents \cup {Nobody}, under : Agents \cup {Nobody},
          moves : SUBSET Agents, moved : Agents \cup {Nobody}, fixing : SUBSET Agents]

Idle == [step |-> "idle", new |-> Nobody, under |-> Nobody,
         moves |-> {}, moved |-> Nobody, fixing |-> {}]

Assigning == [Idle EXCEPT !.step = "assign"]

------------------------------------------------------------------------------
\* The shape of the organization; retired agents keep their place in it.

Present == {a \in Agents : agent[a].status # "absent"}

Live == {a \in Agents : agent[a].status \notin {"absent", "stopped"}}

Children(x) == {a \in Present : agent[a].parent = x}

ClosedBelow(S) == \A x \in S : Children(x) \subseteq S

\* a and everybody below: _descendants, and a itself.
Subtree(a) ==
  {d \in Agents : \A S \in SUBSET Agents : a \in S /\ ClosedBelow(S) => d \in S}

\* The number of levels below a (bounded, where the code would not return).
Height(a) ==
  LET level[k \in 0 .. Cardinality(Agents)] ==
        IF k = 0 THEN {a} ELSE UNION {Children(x) : x \in level[k - 1]}
  IN  CHOOSE k \in 0 .. Cardinality(Agents) :
        /\ level[k] # {}
        /\ \A l \in 0 .. Cardinality(Agents) : level[l] # {} => l <= k

\* _resolve_parent: an agent that is named must not be retired; the default is the
\* controller, in whatever state.
MayAttach(p) == p \in Live \/ p = Root

\* Faulty: one agent too many.
MaySpawnCountingVacated(p, vacated) ==
  /\ agent[p].depth + 1 <= maxDepth
  /\ Cardinality(Live) - vacated <= MaxAgents

\* _authorize_spawn and the gate, with "vacated" agents about to go.
MaySpawn(p, vacated) ==
  /\ agent[p].depth + 1 <= maxDepth
  /\ Cardinality(Live) - vacated < MaxAgents

MayRetire(t) == t # Root /\ t \in Live /\ ~busy[t]

\* Faulty: only the agent itself is looked at.
MayReparentShallow(t, p) ==
  /\ t \in Present \ {Root} /\ MayAttach(p) /\ p # t
  /\ agent[p].depth + 1 + Height(t) <= maxDepth

\* Faulty: what hangs below the agent is not counted.
MayReparentFlat(t, p) ==
  /\ t \in Present \ {Root} /\ MayAttach(p) /\ p \notin Subtree(t)
  /\ agent[p].depth + 1 <= maxDepth

MayReparent(t, p) ==
  /\ t \in Present \ {Root} /\ MayAttach(p) /\ p \notin Subtree(t)
  /\ agent[p].depth + 1 + Height(t) <= maxDepth

MayReplace(t, p) ==
  /\ MayRetire(t) /\ MayAttach(p) /\ MaySpawn(p, 1)
  /\ Height(t) > 0 => agent[p].depth + 1 + Height(t) <= maxDepth
  /\ ReplaceUnderSubtree \/ p \notin Subtree(t) \ {t}

------------------------------------------------------------------------------

Init ==
  /\ maxDepth \in DepthLimits
  /\ agent = [a \in Agents |->
                IF a = Root THEN [parent |-> Nobody, depth |-> 0, status |-> "created"]
                            ELSE Absent]
  /\ saved = agent
  /\ busy = [a \in Agents |-> FALSE]
  /\ plan = Idle
  /\ excused = {}
  /\ cut = FALSE

\* save_agent(a) with the value a has from now on.
Put(a, spec) ==
  /\ agent' = [agent EXCEPT ![a] = spec]
  /\ saved' = [saved EXCEPT ![a] = spec]

\* SwarmRuntime.spawn.
NewAgent(n, p) ==
  /\ n \in Agents \ Present
  /\ Put(n, [parent |-> p, depth |-> agent[p].depth + 1, status |-> "created"])

\* _reparent up to its first save: a row is saved only if its depth changes.
Move(a, p) ==
  LET spec == [agent[a] EXCEPT !.parent = p, !.depth = agent[p].depth + 1]
  IN  /\ agent' = [agent EXCEPT ![a] = spec]
      /\ saved' = IF spec.depth # agent[a].depth THEN [saved EXCEPT ![a] = spec] ELSE saved

Spawn(n, p) ==
  /\ plan = Idle
  /\ MayAttach(p) /\ MaySpawn(p, 0)
  /\ NewAgent(n, p)
  /\ plan' = Assigning
  /\ UNCHANGED <<maxDepth, busy, excused, cut>>

\* Faulty: children are no obstacle.
RetireAnyway(t) ==
  /\ plan = Idle
  /\ MayRetire(t)
  /\ Put(t, [agent[t] EXCEPT !.status = "stopped"])
  /\ UNCHANGED <<maxDepth, busy, plan, excused, cut>>

Retire(t) ==
  /\ plan = Idle
  /\ MayRetire(t)
  /\ Subtree(t) \cap Live = {t}
  /\ Put(t, [agent[t] EXCEPT !.status = "stopped"])
  /\ UNCHANGED <<maxDepth, busy, plan, excused, cut>>

Reparent(t, p) ==
  /\ plan = Idle
  /\ MayReparent(t, p)
  /\ Move(t, p)
  /\ plan' = [Idle EXCEPT !.step = "fix", !.moved = t, !.fixing = Subtree(t) \ {t}]
  /\ UNCHANGED <<maxDepth, busy, excused, cut>>

\* The target is retired first, also where the replacement is to go below it.
Replace(t, p, n) ==
  /\ plan = Idle
  /\ n \in Agents \ Present
  /\ MayReplace(t, p)
  /\ Put(t, [agent[t] EXCEPT !.status = "stopped"])
  /\ plan' = [Idle EXCEPT !.step = "spawn", !.new = n, !.under = p, !.moves = Children(t)]
  /\ excused' = IF p = t THEN excused \cup {t} ELSE excused
  /\ UNCHANGED <<maxDepth, busy, cut>>

SpawnReplacement ==
  /\ plan.step = "spawn"
  /\ MaySpawn(plan.under, 0)
  /\ NewAgent(plan.new, plan.under)
  /\ plan' = IF plan.moves = {} THEN Assigning ELSE [plan EXCEPT !.step = "move"]
  /\ UNCHANGED <<maxDepth, busy, excused, cut>>

MoveChild(c) ==
  /\ plan.step = "move" /\ c \in plan.moves
  /\ Move(c, plan.new)
  /\ plan' = [plan EXCEPT !.step = "fix", !.moves = @ \ {c}, !.moved = c,
                          !.fixing = Subtree(c) \ {c}]
  /\ UNCHANGED <<maxDepth, busy, excused, cut>>

\* _apply_depth for one descendant, parents first.
FixDepth(x) ==
  /\ plan.step = "fix" /\ x \in plan.fixing /\ agent[x].parent \notin plan.fixing
  /\ Put(x, [agent[x] EXCEPT !.depth = agent[agent[x].parent].depth + 1])
  /\ plan' = [plan EXCEPT !.fixing = @ \ {x}]
  /\ UNCHANGED <<maxDepth, busy, excused, cut>>

Moved == CASE plan.moves # {} -> [plan EXCEPT !.step = "move", !.moved = Nobody]
           [] plan.moves = {} /\ plan.new # Nobody -> Assigning
           [] plan.moves = {} /\ plan.new = Nobody -> Idle

\* Faulty: the row was saved with its depth.
SaveMovedEarlier ==
  /\ plan.step = "fix" /\ plan.fixing = {}
  /\ plan' = Moved
  /\ UNCHANGED <<maxDepth, agent, saved, busy, excused, cut>>

\* The agent_status(agent, agent.status) at the end of _reparent.
SaveMoved ==
  /\ plan.step = "fix" /\ plan.fixing = {}
  /\ saved' = [saved EXCEPT ![plan.moved] = agent[plan.moved]]
  /\ plan' = Moved
  /\ UNCHANGED <<maxDepth, agent, busy, excused, cut>>

\* _assign_unassigned_tasks.
Assign ==
  /\ plan.step = "assign"
  /\ busy' = [a \in Agents |-> busy[a] \/ (a # Root /\ agent[a].status = "created")]
  /\ plan' = Idle
  /\ UNCHANGED <<maxDepth, agent, saved, excused, cut>>

\* A "wait": a task runs to its end.
Work(a) ==
  /\ plan = Idle
  /\ busy[a]
  /\ busy' = [busy EXCEPT ![a] = FALSE]
  /\ \E end \in {"done", "blocked"} : Put(a, [agent[a] EXCEPT !.status = end])
  /\ UNCHANGED <<maxDepth, plan, excused, cut>>

\* kill_agent, at any suspension point; its tasks are stopped with it.
Kill(a) ==
  /\ agent[a].status \in {"created", "blocked"}
  /\ Put(a, [agent[a] EXCEPT !.status = "stopped"])
  /\ busy' = [busy EXCEPT ![a] = FALSE]
  /\ excused' = excused \cup {a}
  /\ UNCHANGED <<maxDepth, plan, cut>>

\* check_stopped of spawn() finds a pause: the checkpoint saves what there is, and
\* the resumed mission starts its tasks again.
PauseBeforeSpawn ==
  /\ plan.step = "spawn"
  /\ plan' = Assigning
  /\ busy' = [a \in Agents |-> FALSE]
  /\ cut' = TRUE
  /\ UNCHANGED <<maxDepth, agent, saved, excused>>

\* The process dies; hydrate() of the next one reads the rows.
Crash ==
  /\ agent' = saved
  /\ plan' = Assigning
  /\ busy' = [a \in Agents |-> FALSE]
  /\ cut' = (cut \/ plan.step \notin {"idle", "assign"})
  /\ UNCHANGED <<maxDepth, saved, excused>>

Next ==
  \/ \E n, p \in Agents : Spawn(n, p)
  \/ \E t \in Agents : Retire(t)
  \/ \E t, p \in Agents : Reparent(t, p)
  \/ \E t, p, n \in Agents : Replace(t, p, n)
  \/ SpawnReplacement
  \/ \E c \in Agents : MoveChild(c)
  \/ \E x \in Agents : FixDepth(x)
  \/ SaveMoved
  \/ Assign
  \/ \E a \in Agents : Work(a)
  \/ \E a \in Agents : Kill(a)
  \/ PauseBeforeSpawn
  \/ Crash

Spec == Init /\ [][Next]_vars

------------------------------------------------------------------------------

TypeOK ==
  /\ maxDepth \in DepthLimits
  /\ agent \in [Agents -> Specs]
  /\ saved \in [Agents -> Specs]
  /\ busy \in [Agents -> BOOLEAN]
  /\ plan \in Plans
  /\ excused \subseteq Agents
  /\ cut \in BOOLEAN

\* No set of agents whose parents are all in the set: no cycle, and nobody but the
\* controller is without a parent.
Tree(spec) ==
  \A S \in SUBSET {a \in Agents \ {Root} : spec[a].status # "absent"} :
    S # {} => \E a \in S : /\ spec[a].parent \notin S
                           /\ spec[a].parent \in Agents
                           /\ spec[spec[a].parent].status # "absent"

\* The organization is a tree below the controller, in memory and in the rows a
\* restart would read, at every step of every change: otherwise _descendants does
\* not return (org.py:74).
Rooted == Tree(agent) /\ Tree(saved)

\* The depth limits are checked against is the depth in the tree, unless a change
\* was cut short; and no depth is beyond the limit, cut short or not.
DepthHonest ==
  \A a \in Present \ {Root} :
    /\ agent[a].depth <= maxDepth
    /\ \/ cut
       \/ a \in plan.fixing
       \/ agent[a].depth = agent[agent[a].parent].depth + 1

\* A live agent is below a retired one only while a replacement is under way, after
\* one was cut short, because a person killed the parent, or because the replacement
\* of the parent was put below it (org.py:156 does not look).
RetiredChildless ==
  \A a \in Live \ {Root} :
    \/ agent[a].parent \in Live
    \/ agent[a].parent \in excused
    \/ cut
    \/ a \in plan.moves

\* The live agents never exceed max_agents, and once the target of a replacement is
\* retired spawn() does not refuse the replacement that was promised (org.py:167).
LimitsRespected ==
  /\ Cardinality(Live) <= MaxAgents
  /\ plan.step = "spawn" => MaySpawn(plan.under, 0)

\* Between changes a restart would find exactly what the runtime holds.
SavedBetweenChanges == plan.step \in {"idle", "assign"} => saved = agent
=============================================================================
