# Specifications of swarm-os

TLA+ models of the parts of swarm-os that are hard to get right: the durable
work queue and the pool of worker processes, the life of a mission under the
runtime, its tasks in processes, its organization, its calls to models, its
effects on the world, and what it may finish on. TLC checks them on small
instances; TLAPS proves most of the results for every instance. `PROJECT.json`
lists the runs, the source lines behind every definition, the mutants, the
findings, the hazards and the theorems.

To check one run: `tlc -workers 2 -config MCWorkQueue.cfg MCWorkQueue`.
To check the proofs: `tlapm WorkQueue_proofs.tla`.

## The system

A FastAPI server (`app/main.py`) holds one `SwarmRuntime` (`app/runtime.py`) in
one asyncio loop. A *mission* is a `run()` task: it claims a lease, spawns a
controller agent, and loops over model calls; the controller spawns agents,
waits for their tasks, uses tools, asks a human, finishes or gives up. All state
that must survive is in one SQLite file (`app/store.py`). With
`SWARM_PROCESS_WORKERS` the tasks of agents run in separate processes
(`app/workers.py`, `app/mission_jobs.py`) that take jobs from a durable queue
(`app/queue.py`) under leases (`app/leases.py`).

| Component | State it keeps | Operations | Makes it correct | Modelled in |
|---|---|---|---|---|
| Work queue `queue.py` | `work_items` | enqueue, claim (by id, by scan), heartbeat, complete, fail, retry | one live claim per item; the claim is honoured; attempts tell tenancies apart; terminal is final | `WorkQueue`, `WorkQueueTx` |
| Leases `leases.py` | `worker_leases`, `idempotency_keys` | claim, renew, release, expiry; lookup, record | a live lease excludes; agrees with the item; a key's row answers for its call | `LeaseRow`, `SideEffects` |
| Worker pool `workers.py` | processes, a future, `stop_event` | start, stop, poll, heartbeat loop, report | the first execution of a job is exclusive and its outcome its holder's; later overlaps are noticed; jobs end; stop ends processes | `WorkerPool` |
| Mission runtime `runtime.py` | `missions` row, the sets `stopped`, `pausing`, `suspending`, `killed_agents`, `runs`, waiters | create, run, stop, pause, resume, kill, answer, suspend, resume_incomplete | terminal is final; paused waits for resume; stop and pause take effect; who waits can be answered; an answer is undone by a run's stale save only | `MissionRuntime` |
| Mission jobs `mission_jobs.py` | jobs, task rows, child runtimes | the server enqueues and polls; a process claims, works, records, reports | polling ends; and, unless a row changes between a process's read and its save: controls hold, stopped attempts stay, a completed job has its result | `MissionJob` |
| Side effects `runtime.py`, `payments.py` | `spent`, tool counters, idempotency rows | create_payment, invoke_tool | within limits across restarts (twice the limit with processes); answers belong to their call; paid twice only by a crash | `SideEffects` |
| Organization `org.py` | parent links, depths | spawn, retire, reparent, replace | a tree with honest depths within its limits, in memory and in the rows | `OrgTree` |
| Router `router.py`, `resources.py`, `planning.py` | history of providers, `token_spent` | reject, rank, walk the route, charge | privacy; failover only after an outage; one call over budget | `ModelCalls` |
| Adapters `llm.py` | - | an HTTP reply becomes an answer or a class of failure | each dialect's tables | `Adapters` |
| Policy, verifier, evidence | approvals, evidence steps | claim, approve, check, run, judge | done only approved, and on evidence | `DecisionGate` |
| Store `store.py` | seven tables | whole-row saves, compare-and-swap for answers, event log and projection | answers are not lost | in all of them; the projection is not |
| HTTP and lifespan `main.py` | WebSocket clients | one request per operation; boot and shutdown | shutdown is not a stop | `MissionRuntime` |
| Migrations, workspace, memory, selfmod, events, console | files, schema | sequential | - | not modelled |

How they interact. Requests and `run()` share the runtime's sets and meet in
the missions row; they interleave wherever a coroutine awaits a model, a tool, a
task or the WebSocket broadcast inside `emit()`. The row is written as a whole
from whatever object the writer holds; only answers are compare-and-swap. `stop`,
`pause`, `kill_agent` and `suspend_all` cancel or join asyncio tasks. Processes
share only the database: the queue's SELECTs and UPDATEs are statements of
separate transactions, and a lease is what remains of a dead owner.

What is hard: lost updates between whole-row saves; cancellation, which means
stop, pause, kill or shutdown depending on which flag is set when it lands;
requests that read, emit, and then act on what they had read; expiry of a lease
while its holder still works; late reports; restarts in the middle of anything.
`PROJECT.json` lists each under `hazards` with its line.

## Modules

| Module | Models | Role |
|---|---|---|
| `LeaseRow` | `leases.py` | operators on one lease row: claimable, claimed, released, expired |
| `ExclusiveJobs` | - | abstract: a job is open, held by one, or done |
| `WorkQueue` | `queue.py` | the queue with every operation one transaction, and a clock |
| `WorkQueueTx` | `queue.py`, `store.py` | the same operations as SQLite runs them between processes: read item, read lease, write |
| `WorkerPool` | `workers.py`, `queue.py`, `leases.py` | processes with heartbeat timers, handler threads, crashes, start and stop, and the statements of their queue operations |
| `MissionRuntime` | `runtime.py`, `store.py`, `main.py` | one mission: run(), requests, servers |
| `MissionJob` | `mission_jobs.py`, `runtime.py`, `store.py` | a task in a worker process: the server that polls, the processes, two writers of every row |
| `OrgTree` | `org.py`, `runtime.py` | the organization, one save at a time |
| `Adapters` | `llm.py` | pure: tables of errors and what a reply amounts to, per adapter |
| `ModelCalls` | `llm.py`, `router.py`, `planning.py`, `resources.py`, `providers.py`, `runtime.py` | one call from authorization to the bill |
| `SideEffects` | `runtime.py`, `payments.py`, `leases.py`, `policy.py`, `tools.py` | tools and payments behind idempotency keys, with restarts |
| `DecisionGate` | `runtime.py`, `policy.py`, `verifier.py`, `evidence.py` | approval, evidence and verdict before a decision takes effect |
| `MC*` | - | the instances TLC checks |
| `*_proofs` | - | theorems |

How they build on each other. `WorkQueue` implements `ExclusiveJobs` by a
refinement mapping (`phases`, `holders`); `WorkQueueTx` extends `WorkQueue` and
reuses its operators on rows. `WorkerPool` runs the same statements from
processes with timers and handlers: there the ledger of `ExclusiveJobs` is not
implemented, and no property says so. `MissionJob` takes a queue operation as one
step with the lease as a flag, which two processes may nevertheless work under at
once (a stall), and a request with run()'s answer to it as one step (what
`MissionRuntime` is about). `ModelCalls` extends `Adapters`. `OrgTree`,
`ModelCalls`, `SideEffects` and `DecisionGate` each take one kind of decision of
run() and cut it at its awaits, while the rest of run() is its environment.

### WorkQueue

`item[j]` is a row of `work_items`, `lease[j]` of `worker_leases`, `hold[o][j]`
the `ClaimedWork` that owner `o` was last given for `j`. One action per method:
`Enqueue`, `ClaimById` and `ClaimNext` (`claim` with and without an id),
`Heartbeat`, `Complete`, `Fail`, `FailRetry` (`fail` with and without a retry),
`Refused` (any of them raising `QueueOwnershipError`), `Tick` (time). Timestamps
are whole ticks; order of rows is the order of job numbers.

### WorkQueueTx

The engine uses the driver's default transactions: BEGIN goes out with the first
write, so what an operation reads may be old when it writes, and the UPDATE names
the row by primary key only. `txn[o]` is what `o` has read. Three steps per
operation: `ReadClaim`/`ReadReport`, `ReadLease`, `WriteClaim`/`WriteReport`/
`WriteHeartbeat`. `InsertConflict` and `DatabaseLocked` are the errors that
remain. `lapsed` is a history variable for stating what survives: exclusion
until a lease has ended for the first time. A lease ends by time, and also by a
heartbeat that comes so late, or with so short a time to live, that the expiry
it writes has passed already (`LapsedNow`).

### WorkerPool

`item[j]` and `lease[j]` are the rows of job `j`, each with status and owner;
`left[j]` is what remains until the expiry that both carry. A process is polling,
in a claim (*claiming*, *leasing*, *granting*: before its read of the item, of
the lease, before its write), *running* (main thread in `_execute_claimed`), in a
heartbeat (*beating*, *extending*), in a report (*reporting*, *closing*) or
*lost* (waiting in the executor's exit for a handler whose lease it no longer
has); `handler` is the future, `row` and `held` what the operation has read. Between
any two of these others may write: `WriteClaim` writes the columns that differ
from what it has read, over whatever is there now, and only an INSERT of a
lease row that somebody has inserted since fails (`MayWriteLease`).

Time is counted down, so nothing is cut off by a bound on a clock. A timer that is
late, an operation that time passes under, or a busy database, is a *fault*;
their number is bounded and the properties say what holds without them. `over`
is a history: the jobs that have been reported once, or whose process died at
work. For the others exclusion holds. For those in `over` it does not: two
processes may read one expired claim before either writes, as in
`MCWorkQueueTxDouble`. What holds then is that whichever the rows do not name is
told so by its next heartbeat or its report (`OverlapIsNoticed`).

### MissionRuntime

A step is what a coroutine does between two suspension points. The variables
`row`, `lease` are the database; `flags`, `run`, `stopper`, `pauser`, `starter`
belong to a server and are lost in a crash (the model keeps the flags of a dead
server as history; no action reads them). `run[r].mem` is the `Mission` object
that `run()` holds, and `copy` the one a request holds: a save writes that object
over the row, however old it is.

`run[r].pc` names the awaits of `run()`: *created*, *claimed* (in the emits of
`claim_work`), *discovering* tools, *resuming*, *calling* a model, *deciding*,
*parked* on a question, *answered*, *between* tasks, *dispatching* one,
*concluding*, *closing* (the emits before the final save), *leaving*.
`Trying` are those inside the `try`, where an exception becomes a status.
Requests: `Create`, `StopBegin`/`StopJoined`/`StopSweep`,
`PauseBegin`/`PauseJoined` (live) and `PauseOffline`/`PauseCheckpoint`,
`ResumeBegin`, `AnswerAccept`/`AnswerRoute`, `StartRun`, `Kill`. Servers: `Boot`
(`resume_incomplete`), `Shutdown` (`suspend_all`), `Exit`, `Crash`.

Abstractions: one mission; agents and tasks are reduced to whether a task is in
flight and who started it (`task`), so the controller's spawns, messages and
tool calls are part of a model call; tasks run inside the server; tokens,
payments and results are left out; a question is a number. `Fails` stands for
every error and limit and may happen at any suspension point of the `try` (after
discovery, whose only errors are ignored).

### MissionJob

`mission`, `agent`, `task`, `job`, `lease` are rows; `control` and `slain` are
what the event log says last of stop, pause and kill; `server` is run() with the
objects it holds, `kid[k]` a process with what it has read and not yet written. The server:
`Dispatch` (enqueue a task's job), `PollDone`, `PollFailed`, `Decide`, `Conclude`,
and the requests `Stop`, `StopPaused`, `Pause`, `Resume`, `Kill`, with `Boot`,
`Shutdown`, `Crash`. A kid: `Claim`, then `KidStep`, whose parts follow
`_execute_mission_agent_task` and `_execute_task`, one read or one save each:
`FindEntity` (mission, task, agent), `Project` and `RestoreAgent`/`RestoreTask` (the
rows that `hydrate()` reads and saves again), `LeaseTask`, `Check` before each thing
it guards, `Renew`, `BeginTask`, `BeginAgent`, `Charge`, `SaveTask`, `SaveAgent`,
`Release`, then the three reads again and `FailTask`, `FailAgent` where a failure is
to be recorded, and `Report`. `Controlled` is a check that found a control. One step
each are the reads of one `check_agent()`, an operation on the queue or on a lease,
and a request to the server. `Die`, `Stall`, `LapseJob`, `LapseTaskLease` are faults.
Each side saves the whole object it loaded, however old.

`Relying(k)` says where a process has read what its next saves rest on. `prompt`
is TRUE until somebody else changes a row there (`Watched`). The safety properties
say what holds until then; afterwards the code does not promise it, as the saves
are unconditional, and the configuration `MCMissionJobLate` shows what happens.
`scope` bounds an instance: the attempts, the faults, and whether others move there
at all.

### OrgTree

`agent` is `runtime.agents`, `saved` the rows, `plan` what is left of the change
being applied. A change is several saves with suspension points between them:
`Replace`, `SpawnReplacement`, `MoveChild`, `FixDepth` (one descendant of
`_apply_depth`), `SaveMoved`. `Kill` may come between any two; `PauseBeforeSpawn` and
`Crash` drop the rest of the plan, and `cut` remembers that. `ReplaceUnderSubtree`
says whether a controller ever asks to put a replacement below a descendant of what
it replaces, which the code does not refuse (`org_cycle`). A replacement put directly
below its target, which the code accepts too and which leaves a live agent below
a retired one, is always among the behaviours; `excused` remembers such targets, and
the agents a person has killed.

### Adapters and ModelCalls

An adapter is its table of HTTP errors, its dialect, whether it is local and
whether its abilities are listed; `Output` is what each dialect makes of a
body. `call[m]` is the call a mission makes: `Begin` (authorize, the number of
planners), ranking and rejection in the router, a probe of a local daemon, the
walk of the chain, the reply, `_account_tokens`, back-off and retry. `told[p]`
says what each provider answered, that is, who has seen the prompt. Planners run
at once and a judge after them. `history` is shared by the missions and ranks
the providers; ties and scores the histories leave open are any order they
allow. `NoRoute` is a capability mismatch, or an outage where a daemon's list could
not be fetched; `Judged` adds the verdicts the verifier's check of its answer
rejects. The unit of money is one call.

### SideEffects

A tool call is `Ask` (policy and the key's row), `Refuse` or `Charge` (discovery,
`tool.started`), `Provide` (the tool answers or not), `ReportResult`/`ReportError` (the
key's row, `tool.completed`). `turn` says which runtime does the mission's work: the
server, or a process for one task. Each counts tool calls from the log when first
asked and by itself from then on. A payment is one step of the event loop, as the
simulated wallet never suspends; `CrashPaying` is a death within it. `Saves` is
run() saving the object it holds, `spent` included. `ran`, `told`, `paid` are
histories.

### DecisionGate

A finish passes `Finish` (policy), a parked approval (`Answer`, `Interpret`,
`Continue`), `Check` (tasks and evidence named), `RunStep` for each evidence step in any order,
`StepsDone`, `Judge`. Meanwhile `Kill`, `TaskEnds`, `WorldTurns` (what a step looks at
changes) and `Crash`, after which the run decides anew and the row's answers are
still there. `OrgChange` is the branch for an organization change.

## Runs

| Run | Instance | Distinct states | Shows |
|---|---|---|---|
| `queue` | 2 owners, 2 jobs, 2 kinds, leases of 1 and 2 ticks, clock 0..3, 2 attempts | 517,916 | rows agree, claims exclusive and honoured, attempts fence, terminal final, refines `ExclusiveJobs` |
| `queue_tx` | 2 owners (symmetric), 1 job, 1 kind, leases of 1 and 2 ticks, clock 0..3, 2 attempts, statement by statement | 1,578,173 | exclusion until the first expiry, at most one stray lease |
| `pool` | 2 processes, 1 job, lease 3, heartbeat 2, 2 faults, 2 starts, statement by statement | 84,580 | the first execution is exclusive and its outcome its holder's, overlaps are noticed, the job ends unless claims race for ever, stop ends processes |
| `mission` | 2 servers in succession, 1 question | 189,436 | the life of a mission: provenance of stops, finality, pauses, who undoes an answer, stop and pause take effect |
| `jobs` | 2 processes; 2 attempts, or 1 attempt and 1 fault, with nobody moving between reads and saves; 1 attempt with anybody moving there | 148,876 | until a row changes between read and save: controls hold, stopped attempts stay, completed jobs have results; polling ends whatever changes |
| `org` | controller and 4 agents (symmetric), depth limits 2 and 4, 4 live agents | 510,299 | a tree with honest depths within its limits, in memory and in the rows |
| `calls` | 1 mission, OpenAI, Anthropic and Ollama, 1 retry, 3 planners, history of 2, budget of 2 calls, 3 pricings | 291,531 | privacy, failover, one call over budget, every call ends |
| `effects` | 2 tool calls, limit 2, 2 payment keys, 2 restarts, with and without processes | 2,920,262 | tools within the limit (twice the limit with processes), answers belong to their call, paid twice only by a crash |
| `gate` | 2 specialists, 33 claims, 2 evidence steps, 2 restarts, approval required | 2,232,448 | completed only approved, and on evidence that passed while finishing |
| `org_cycle` | as `org`, depth limit 4, `ReplaceUnderSubtree` | violated | a replacement below a descendant of its target closes a cycle |
| `effects_payment_lost` | limit 1, budget 1, no restart | violated | a payment is overwritten and the budget spent twice |
| `gate_org_unapproved` | as `gate`, no restart | violated | an organization change needs no approval |

Why the bounds are enough. Two owners and two jobs are what a race and
head-of-line blocking need; a clock of three ticks fits claim, expiry, reclaim
and expiry again; two lengths of lease let a heartbeat shorten one; attempts are
bounded because every claim raises them. In the
pool two processes, one crash or lateness each and one restart are every pairing
the properties speak about, and one job is what two statements can meet over:
processes at different jobs touch different rows, and that the oldest available job
goes first was checked with two jobs (without faults 183,219 states, the safety
properties). For the mission, one server and a successor cover
crash, shutdown and recovery; one question covers asking, answering, losing and
re-parking, since a question is only compared with the row's. For jobs, a second
process is the one that takes a lost lease over, and a second attempt is what an
old process can be mistaken for. Two attempts together with a fault are
`MCMissionJobLarge` (1,007,044 states, no error), too long to be a run; a fault
with anybody moving was checked once (1.9 million states, no error in the run's
properties). Four agents below the controller are a target,
its parent, a child and a grandchild (or a replacement), the least a cut change
and a depth two levels down need; a limit of 2 makes depth bite, 4 leaves room
for chains. Three providers are a route with an outage, a local one among
clouds, and a provider to fall back to; a budget of two calls and three planners
exceeds it at once and in steps. Two tool calls and a limit of two make the
count bite with a restart before and after. The theorems remove the bounds for
what they cover. CHECK_DEADLOCK is FALSE where a system may rightly stop: all
jobs terminal, the clock at its bound, the mission over, no call to make, the
servers gone.

`MaxUp = 1` in every mission run: two servers on one database are not deployed,
and the lease that would separate them is not renewed (a listed hazard).
`RequestsYield = FALSE` is the case that a request's emits return without
suspending, as they do with no WebSocket client. `MaxSpent = 0` leaves the money
out of the `jobs` run, where it is no property's subject.

Fairness. *Pool:* time passes, the main thread of a live process runs, and
`stop()` terminates what it cannot join. A handler need not end; `EveryJobEnds`
assumes that it does, that some process keeps serving, and that processes do not read
one expired claim at the same moment for ever (`RacesEnd`): the last is no
promise of the code's, and `MCWorkerPoolRace` shows what happens without it. *Mission:* the loop
runs what can run (`RunStep`, requests that have begun, `Exit`) and the lease's
time passes. No fairness on people, errors, limits or crashes: a stop takes
effect and a pause is answered without the runtime limit. *Jobs:* a process that
can step does, some process claims what can be claimed, a dead process's claim
lapses, the server polls; strong fairness of `LastCall` says that a task's calls
end, since a task has at most `max_tool_calls` + 1 rounds. *Calls:* each step of a
call is taken, because requests time out; nothing is assumed of what a provider answers.

## Findings

Three runs are refuted by the code, with the line they contradict quoted in
`PROJECT.json`: `org_cycle` (a replace is not checked for what a reparent is),
`effects_payment_lost` (a payment made while a mission runs is overwritten by
the run's save), `gate_org_unapproved` (the approval mark of replace, reparent
and retire is set and never asked for).

Further counterexamples have a configuration of their own, which TLC refutes too:

| Configuration | Property | What happens |
|---|---|---|
| `MCWorkQueueTxDouble` | `SingleLiveHolder` | two processes both reclaim one expired claim: separate statements, no check that the row is unchanged |
| `MCWorkQueueTxTerminal` | `TerminalStaysTx` | an old read rewrites a terminal item |
| `MCWorkerPoolRace` | `JobsEndDespiteRaces` | two processes that both reclaim an expired claim, again and again in lockstep: the rows name different owners, each is refused, and the job never ends |
| `MCWorkerPoolTimeoutError` | `HandlerErrorsDurable` | a handler's TimeoutError is taken for the wait's, for ever |
| `MCMissionRuntimeAnswer` | `AnswersKept` | an accepted answer is overwritten by a whole-row save of a run that begins, closes or was killed at its question |
| `MCMissionRuntimeRestart` | `RestartRecovers` | a restart within sixty seconds of a crash gives the mission up |
| `MCMissionRuntimeKill` | `KillLetsMissionContinue` | an early kill stops the mission |
| `MCMissionRuntimeRevived` | `TerminalFinal` | with `RequestsYield`, a stale request revives an ended mission |
| `MCMissionJobSpend` | `SpendingKept` | server and process save their own copies of the mission: what the other charged is forgotten |
| `MCMissionJobLate` | `JobsFinished` | a process that lost its job writes late: the hydrate() of one saves again the "pending" it has read over the result of a completed job |
| `MCMissionJobKill` | `KillSparesMission` | killing a specialist whose process is at work stops the mission: the poll does not swallow the cancellation |
| `MCModelCallsRetry` | `RetriesStay` | the retry after a rate limit is routed anew, and may go to another provider |
| `MCSideEffectsTools` | `ToolLimitEnforced` | with worker processes the tool limit is counted twice |

Behaviour the models show and no property claims: an approval outlives the claim
it was given for (the next claim needs none); a stop forbids payments only in the
memory of the server, so after a restart a stopped mission pays again; a
replayed tool result is not shown to the controller's next call when tasks run in
processes (`AnswersAreShown`); a killed agent that waited for an answer leaves its
question open; a process's save undoes a stop that comes between its check and that
save; an expired claim may be executed by two processes at once; a cancellation that lands in the emits of `claim_work` leaves its lease.

## Proofs

Every safety property of every passing run, invariant or action property, is
proved. All constants are arbitrary, under the named assumptions of the modules
on their types, and for the pool what the constructor checks: the heartbeat is
shorter than the lease. Two modules assume more, in the statement of each
theorem concerned. `OrgTree_proofs` assumes `~ReplaceUnderSubtree`: no replacement
is put below a descendant of its target, without which the run `org_cycle` refutes
it; one put directly below its target is covered. Six theorems of
`MissionRuntime_proofs` assume `OneAtATime`, explained there.

Where a proof would not go through, the model or its history was wrong twice: the
`lapsed` of `WorkQueueTx` forgot the heartbeat that shortens a lease, and
`CancelledStatus` of `MissionRuntime` left open which of two flags wins when both
are set (a pause may be asked for after a stop), which the code decides by the
order of its tests.

*WorkQueue_proofs* - type correctness; the six invariants of the run; the two
action properties; the refinement of `ExclusiveJobs`. `SingleLiveHolder` is not
inductive: it needs that a caller's copy never claims more than the item
(`HoldsBehindItem`), that a copy which is still live is the current tenancy
(`LiveHoldCurrent`) and that unclaimed rows are untouched (`AbsentUntouched`).
Together with `ItemLeaseAgree` they are `QueueInvariant`; every step is shown to
keep it, and every property follows from it. For `WorkQueueTx`, type correctness,
`FirstTenancyExclusive` and `BlockedAtMostOneLease`, for any owners and jobs:
`TenancyInvariant` says what an operation holds between its read and its write
(`ReadingsSound`, `AbsentRows`: times of the past, and no row that has gone since)
and that until the first lease of a job ends it is live, and its owner the only
one with a claim or about to write one over a row it has read (`FirstLeaseStands`).

*WorkerPool_proofs* - type correctness, `FirstExecutionExclusive` and
`FirstOutcomeFromHolder`, with claims, heartbeats and reports statement by statement.
`PoolInvariant` has two parts. `Fresh`: while a job has no lease row nobody works
on it, and whoever is about to claim it has read an untouched item and no lease.
`Timely`, without faults: a process in the first execution of its job is
named by both rows and the rest of its claim is longer than the rest of the wait
for its heartbeat (`CoveredAt`); a claim about to be written would insert the lease
(`GrantingAt`), so that of two that race the second fails. After the first
execution nothing of the kind is true, and nothing of the kind is claimed.

*MissionRuntime_proofs* - for any number of servers, even at once, with or
without yielding requests: type correctness and `StoppedOnlyOnRequest`. It is not
inductive, because the row is overwritten with copies: `Provenance` adds that
every copy which may be saved is accounted for, and that every pending
cancellation, kill and stop has its flag; the interesting step is the delivery of a
cancellation, whose status depends on the flags at that moment.

`OneAtATime` (one server at a time, requests that do not yield) is what the others
need: `QuietWhenTerminal`, `ParkedAnswerable`, `TerminalFinal`, `PausedUntilResume`
and `AnswersUndoneOnlyByStaleRuns`. Both halves are necessary: with yielding requests
`MCMissionRuntimeRevived` refutes `TerminalFinal`, and two servers on one database
write over each other. `LifeInvariant` relates what is held to the row: the copy of a
pause or start request is the row while it matters (`CopyCurrent`), a stop that has
met a run waits for it and the run will be saved as stopped if at all (`StopHeld`),
a run's object fits its place (`RunShaped`), a mission over or paused has nobody at
work on it (`QuietWhenOver`, `QuietWhenPaused`), and the question a run waits on is in
the row, or its answer is (`Heard`). TLC agreed that it is inductive on an instance of
two servers and two questions before it was proved. `TerminalFinal` and
`PausedUntilResume` follow from `StatusChange`: who may change the status of the row,
and to what. For `AnswersUndoneOnlyByStaleRuns`, `CopiesSound` says of the row and of
every copy that its open question has no answer in it and that none has an answer
to a question not asked yet, and `AnswerInvariant` (`InStep`) that the answers a run
holds are those of the row wherever it will save them without reading the row
again, but for the three moments the property names.

*MissionJob_proofs* - type correctness, and the three safety properties until a row
changes between a process's read and its saves. The invariant (`JobInvariant`)
says what a process holds for the place it is at (`KidsShaped`), that run() goes on
only while its mission is live (`RunIsLive`), and, as long as `prompt` is TRUE,
that what a process has read still holds where it relies on it (`Trusted`) and that
one which is about to report success has recorded it (`Durable`). `ControlsHold` and
`StoppedAttemptsStay` are steps checked one by one under it.

*OrgTree_proofs* - type correctness, `Rooted`, `SavedBetweenChanges`,
`LimitsRespected`, `RetiredChildless`, `DepthHonest`. A tree is stated without paths: every set
of agents has one whose parent is outside of it. Three lemmas say when that
survives: nobody comes or moves, one comes below one that is there, one moves
below one outside of a set closed under children. A replacement moves several
children in turn, so the invariant carries such a set (`Separated`): below what
is still to be moved there is neither the replacement nor its parent.
`RowsBehind` says that the rows differ from memory in the agent last moved at
most, which makes a crash in any state a step to a tree. `Attached` adds that a
replacement's parent, and the replacement once it is there, are live, were killed, or
were retired for a replacement directly below them. For depths, `Fitting` says that
there are depths within the limit, deeper from level to level, which what is still
to move or to be put right can take; the steps of a change only ever take them. That they exist when the change is accepted
is a fact about `Height`, a recursive function: `HeightRanks` shows that it bounds
every way down from an agent. Its induction needs no theorem with an operator
parameter: `Least`, that a set of numbers has a least one, follows from the
library's theorem on finite sets, and the recursion is well defined by it
(`LevelsExist`).

*ModelCalls_proofs* - the three safety properties for any registry, prices,
replies and number of planners. `SoundCall` says of each place of a call what its
chain and what was told are: everybody before the place was skipped or down,
nobody after it was asked, and whoever is in the chain passed the rejection.

*SideEffects_proofs* - type correctness and the three invariants, for any calls,
keys, limits and restarts. `Counted` relates what each runtime counts to the log,
`Faithful` that what is stored under a key is a result of that key's call; payments are
bounded by deaths between paying and recording.

*DecisionGate_proofs* - type correctness and the two invariants, for any claims
and steps: an answer is given once, and a run past the approval has it; what
passed can pass, and a claim that is judged is supported by tasks that no longer
change and by steps that all passed.

Model-checked only: the liveness of pool, mission, jobs and calls (`OverlapIsNoticed`,
`EveryJobEnds`, `StopEndsProcesses`, `StopTakesEffect`, `PauseIsAnswered`, `PollingEnds`, `CallsEnd`), as
fairness is out of the prover's reach. The three runs that end in a violation, and
the configurations under Findings, are counterexamples and need no proof.

## Not modelled

- The composition of all modules at once: each takes the others' promises, as said
  under each module. Two servers on one database.
- The projection that fills in rows from events, and names of events: no control
  reads what it fills in except as `MissionJob` models it.
- A controller's "blocked" outcome; a live payment, which the code refuses.
- Arithmetic of prices and token counts, scores of the router beyond the order they
  allow, several models of one daemon.
- Requests, headers, prompts and streaming of the adapters; the internals of tools
  (catalogues, the browser, Composio), workspace files, memory notes.
- `selfmod.py` (a sequential chain of file operations behind two switches),
  `migrations.py` (in order, before anything else runs), construction of providers
  and credentials from the environment, health reports, the browser console.

## What could come next

An abstract specification of the life cycle users see, implemented by
`MissionRuntime`; the projection of events checked against the rows it replaces.
