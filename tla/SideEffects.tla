---------------------------- MODULE SideEffects ----------------------------
(***************************************************************************)
(* What a mission does to the world: tool calls (invoke_tool and what it   *)
(* calls in app/runtime.py, the tool clauses of app/policy.py, the tool    *)
(* catalogue of app/tools.py) and payments (create_payment and             *)
(* app/payments.py), both behind the keys of IdempotencyGuard in           *)
(* app/leases.py.                                                          *)
(*                                                                         *)
(* A mission's work is done by one runtime at a time: the server's run(),  *)
(* or, with worker processes, the runtime a kid builds for one task while  *)
(* run() waits.  Each runtime counts the tool calls in the event log when  *)
(* it is first asked and from then on counts only its own.                 *)
(*                                                                         *)
(* A payment handler loads the mission, and the wallet is simulated: the   *)
(* handler is one step of the event loop.  A runtime saves the mission it  *)
(* loaded when it started: run(), and the runtime of a kid too.            *)
(***************************************************************************)
EXTENDS Naturals, Sequences, FiniteSetsExt

CONSTANTS Server, Kid,     \* the two runtimes
          Unread,          \* a count not yet taken
          Calls,           \* a tool's name and its arguments
          Exfiltrating, Dangerous, OptedIn,  \* what the policy knows of their tools
          LocalOnly,       \* mission.privacy
          MaxToolCalls,    \* mission.limits.max_tool_calls
          Payments,        \* the keys clients pay under
          Amount,          \* what each of them is for
          Budget, Cap,     \* mission.budget, mission.limits.max_payment_amount
          Live,            \* mission.live_payments
          MaxCrashes       \* bound on restarts of the server

ASSUME SideEffectsAssumption ==
  /\ Server # Kid /\ Unread \notin Nat
  /\ Exfiltrating \subseteq Calls /\ Dangerous \subseteq Calls /\ OptedIn \subseteq Dangerous
  /\ LocalOnly \in BOOLEAN /\ Live \in BOOLEAN
  /\ MaxToolCalls \in Nat /\ MaxCrashes \in Nat
  /\ Amount \in [Payments -> Nat] /\ Budget \in Nat /\ Cap \in Nat

VARIABLES processes,  \* does the server run its tasks in worker processes?
          turn,       \* the runtime that does the mission's work
          known,      \* _tool_calls of each runtime
          seen,       \* _tool_results of each runtime: the calls whose results it shows its model
          call,       \* the invoke_tool in progress
          started,    \* tool.started events of the log
          completed,  \* tool.completed events of the log
          stored,     \* the idempotency rows of tools
          failing,    \* has a call raised? run() is about to save FAILED
          over,       \* is the mission's row failed or stopped?
          stopped,    \* the server's memory of a stop
          spent,      \* mission.spent of the row, and of the object each runtime holds
          paid,       \* how often the wallet paid under each key
          receipts,   \* the idempotency rows of payments
          ran,        \* what the tools did: a history
          told,       \* the answers invoke_tool returned: a history
          crashes, paidAtCrash

toolVars == <<known, seen, call, started, completed, stored, failing, ran, told>>
payVars == <<paid, receipts, paidAtCrash>>
vars == <<processes, turn, over, stopped, spent, crashes, toolVars, payVars>>

Runtimes == {Server, Kid}
None == "none"

\* Both runtimes may spend the limit: one call each after they counted.
MaxStarted == 2 * MaxToolCalls
Keys == (0 .. MaxStarted) \X Calls

NoCall == [stage |-> "none"]
NoRow == [outcome |-> None, run |-> 0]

Init ==
  /\ processes \in BOOLEAN
  /\ turn = Server
  /\ known = [r \in Runtimes |-> Unread]
  /\ seen = [r \in Runtimes |-> {}]
  /\ call = NoCall
  /\ started = 0 /\ completed = {}
  /\ stored = [k \in Keys |-> NoRow]
  /\ failing = FALSE /\ over = FALSE /\ stopped = FALSE
  /\ spent = [row |-> 0, held |-> [r \in Runtimes |-> 0]]
  /\ paid = [p \in Payments |-> 0] /\ receipts = {}
  /\ ran = <<>> /\ told = {}
  /\ crashes = 0 /\ paidAtCrash = {}

----------------------------------------------------------------------------
(* invoke_tool *)

\* Faulty: counts the calls that completed.
LoggedCompletions == Cardinality(completed)

\* A crashed attempt's tool.started counts, whether it completed or not.
LoggedCalls == started

CallsUsed(r) == IF known[r] = Unread THEN LoggedCalls ELSE known[r]

\* Faulty: a key without the call.
ToolKeyByCount(used, c) == <<used, CHOOSE d \in Calls : TRUE>>

ToolKey(used, c) == <<used, c>>

\* What a raised error leads to: the task and then the mission fail.
Raise == failing' = TRUE /\ call' = NoCall

Working == ~over /\ ~failing /\ call = NoCall

\* The key is looked up first: a stored answer is returned, a stored error is
\* raised again.  Neither is charged, and neither joins the tool results.
Ask(c) ==
  LET used == CallsUsed(turn)
      row == stored[ToolKey(used, c)] IN
  /\ Working
  /\ known' = [known EXCEPT ![turn] = used]
  /\ \/ row.outcome = None
        /\ call' = [stage |-> "asked", call |-> c, key |-> ToolKey(used, c), used |-> used]
        /\ UNCHANGED <<failing, told>>
     \/ row.outcome = "ok"
        /\ told' = told \cup {[call |-> c, run |-> row.run]}
        /\ UNCHANGED <<call, failing>>
     \/ row.outcome = "error"
        /\ Raise /\ UNCHANGED told
  /\ UNCHANGED <<processes, turn, over, stopped, spent, crashes, payVars,
                 seen, started, completed, stored, ran>>

\* PolicyGate._authorize_tool
Denied(c, used) ==
  \/ used >= MaxToolCalls
  \/ LocalOnly /\ c \in Exfiltrating
  \/ c \in Dangerous \ OptedIn

\* record: the first outcome stored under a key stays.
Record(key, row) ==
  stored' = IF stored[key].outcome = None THEN [stored EXCEPT ![key] = row] ELSE stored

\* Discovery has been awaited; the catalogue now holds what the tool servers
\* list.  A refused or unknown tool is not charged, its error is stored.
Refuse(listed) ==
  /\ call.stage = "asked"
  /\ Denied(call.call, call.used) \/ call.call \notin listed
  /\ Record(call.key, [outcome |-> "error", run |-> 0])
  /\ Raise
  /\ UNCHANGED <<processes, turn, over, stopped, spent, crashes, payVars,
                 known, seen, started, completed, ran, told>>

\* consume_tool_call, then tool.started.
Charge(listed) ==
  /\ call.stage = "asked"
  /\ ~Denied(call.call, call.used) /\ call.call \in listed
  /\ known' = [known EXCEPT ![turn] = @ + 1]
  /\ started' = started + 1
  /\ call' = [call EXCEPT !.stage = "running"]
  /\ UNCHANGED <<processes, turn, over, stopped, spent, crashes, payVars,
                 seen, completed, stored, failing, ran, told>>

\* The tool is reached, or not: it may have gone, or time out having worked.
Provide(worked, ok) ==
  /\ call.stage = "running"
  /\ ok => worked
  /\ ran' = IF worked THEN Append(ran, call.call) ELSE ran
  /\ call' = [call EXCEPT !.stage = IF ok THEN "ok" ELSE "error"]
  /\ UNCHANGED <<processes, turn, over, stopped, spent, crashes, payVars,
                 known, seen, started, completed, stored, failing, told>>

\* The outcome is recorded, then logged, then shown.
ReportResult ==
  LET answer == [call |-> call.call, run |-> Len(ran)] IN
  /\ call.stage = "ok"
  /\ Record(call.key, [outcome |-> "ok", run |-> Len(ran)])
  /\ completed' = completed \cup {answer}
  /\ seen' = [seen EXCEPT ![turn] = @ \cup {answer}]
  /\ told' = told \cup {answer}
  /\ call' = NoCall
  /\ UNCHANGED <<processes, turn, over, stopped, spent, crashes, payVars,
                 known, started, failing, ran>>

ReportError ==
  /\ call.stage = "error"
  /\ Record(call.key, [outcome |-> "error", run |-> 0])
  /\ Raise
  /\ UNCHANGED <<processes, turn, over, stopped, spent, crashes, payVars,
                 known, seen, started, completed, ran, told>>

----------------------------------------------------------------------------
(* The runtimes *)

\* A kid's runtime is built for one task and reads the log.
GiveTask ==
  /\ processes /\ turn = Server /\ Working
  /\ turn' = Kid
  /\ known' = [known EXCEPT ![Server] = CallsUsed(Server), ![Kid] = Unread]
  /\ seen' = [seen EXCEPT ![Kid] = completed]
  /\ spent' = [spent EXCEPT !.held[Kid] = spent.row]
  /\ UNCHANGED <<processes, over, stopped, crashes, payVars,
                 call, started, completed, stored, failing, ran, told>>

TaskDone ==
  /\ turn = Kid /\ Working
  /\ turn' = Server
  /\ UNCHANGED <<processes, over, stopped, spent, crashes, toolVars, payVars>>

\* The whole mission as the runtime holds it: run() saves it at every status, and
\* either of them after every model call.
Saves ==
  /\ ~over
  /\ spent' = [spent EXCEPT !.row = spent.held[turn]]
  /\ UNCHANGED <<processes, turn, over, stopped, crashes, toolVars, payVars>>

\* A raised error or a stop ends the mission, with a last save.
RunEnds ==
  /\ ~over
  /\ over' = TRUE /\ call' = NoCall /\ turn' = Server
  /\ \/ failing /\ UNCHANGED stopped
     \/ stopped' = TRUE
  /\ spent' = [spent EXCEPT !.row = spent.held[Server]]
  /\ UNCHANGED <<processes, crashes, payVars,
                 known, seen, started, completed, stored, failing, ran, told>>

\* What the server and its processes hold in memory is gone; a mission that
\* is not over is run again from its row and its log.
Restarted ==
  /\ crashes' = crashes + 1
  /\ turn' = Server
  /\ known' = [r \in Runtimes |-> Unread]
  /\ call' = NoCall /\ failing' = FALSE /\ stopped' = FALSE

Crash ==
  /\ crashes < MaxCrashes
  /\ Restarted
  /\ seen' = [r \in Runtimes |-> completed]
  /\ spent' = [spent EXCEPT !.held = [r \in Runtimes |-> spent.row]]
  /\ UNCHANGED <<processes, over, started, completed, stored, ran, told, payVars>>

\* The server dies with the outcome recorded and not yet logged.
CrashUnlogged ==
  /\ crashes < MaxCrashes
  /\ call.stage \in {"ok", "error"}
  /\ Record(call.key, [outcome |-> call.stage, run |-> IF call.stage = "ok" THEN Len(ran) ELSE 0])
  /\ Restarted
  /\ seen' = [r \in Runtimes |-> completed]
  /\ spent' = [spent EXCEPT !.held = [r \in Runtimes |-> spent.row]]
  /\ UNCHANGED <<processes, over, started, completed, ran, told, payVars>>

----------------------------------------------------------------------------
(* create_payment *)

\* Faulty: pays without looking the key up.
MayPayAgain(p) ==
  /\ ~stopped
  /\ Amount[p] <= Cap /\ spent.row + Amount[p] <= Budget
  /\ ~Live

\* A live payment passes the policy and then finds no wallet.
MayPay(p) ==
  /\ p \notin receipts
  /\ ~stopped
  /\ Amount[p] <= Cap /\ spent.row + Amount[p] <= Budget
  /\ ~Live

\* A request for a key that has its row is answered from it: no step.
Pay(p) ==
  /\ MayPay(p)
  /\ paid' = [paid EXCEPT ![p] = @ + 1]
  /\ spent' = [spent EXCEPT !.row = @ + Amount[p]]
  /\ receipts' = receipts \cup {p}
  /\ UNCHANGED <<processes, turn, over, stopped, crashes, toolVars, paidAtCrash>>

\* The server dies with the payment made and no row for its key; the mission's row may
\* have been saved.
CrashPaying(p) ==
  /\ crashes < MaxCrashes
  /\ MayPay(p)
  /\ paid' = [paid EXCEPT ![p] = @ + 1]
  /\ paidAtCrash' = paidAtCrash \cup {<<p, crashes>>}
  /\ Restarted
  /\ seen' = [r \in Runtimes |-> completed]
  /\ \E s \in {spent.row, spent.row + Amount[p]} :
       spent' = [row |-> s, held |-> [r \in Runtimes |-> s]]
  /\ UNCHANGED <<processes, over, started, completed, stored, ran, told, receipts>>

Next ==
  \/ \E c \in Calls : Ask(c)
  \/ \E listed \in SUBSET Calls : Refuse(listed) \/ Charge(listed)
  \/ \E worked, ok \in BOOLEAN : Provide(worked, ok)
  \/ ReportResult \/ ReportError
  \/ GiveTask \/ TaskDone \/ Saves \/ RunEnds
  \/ Crash \/ CrashUnlogged
  \/ \E p \in Payments : Pay(p) \/ CrashPaying(p)

Spec == Init /\ [][Next]_vars
----------------------------------------------------------------------------
(* Properties *)

\* Types of every variable.
TypeOK ==
  /\ processes \in BOOLEAN /\ turn \in Runtimes
  /\ known \in [Runtimes -> (0 .. MaxStarted) \cup {Unread}]
  /\ started \in 0 .. MaxStarted
  /\ stored \in [Keys -> [outcome : {None, "ok", "error"}, run : 0 .. MaxStarted]]
  /\ ran \in Seq(Calls) /\ Len(ran) <= MaxStarted
  /\ completed \cup told \subseteq [call : Calls, run : 1 .. MaxStarted]
  /\ seen \in [Runtimes -> SUBSET completed]
  /\ call = NoCall \/ call \in [stage : {"asked", "running", "ok", "error"}, call : Calls,
                                key : Keys, used : 0 .. MaxStarted]
  /\ failing \in BOOLEAN /\ over \in BOOLEAN /\ stopped \in BOOLEAN
  /\ spent \in [row : Nat, held : [Runtimes -> Nat]]
  /\ paid \in [Payments -> Nat] /\ receipts \subseteq Payments
  /\ crashes \in 0 .. MaxCrashes

\* However often the server dies, in the middle of a call included, no more
\* tools are started than the mission's limit; with worker processes, whose
\* calls the server does not count, no more than twice the limit.
ToolBudget == started <= IF processes THEN 2 * MaxToolCalls ELSE MaxToolCalls

\* A result handed to a model, from the tool or replayed from the row of its
\* key, is the result of a run of that very call.
ToldWhatRan == \A t \in told : t.run \in 1 .. Len(ran) /\ ran[t.run] = t.call

\* A payment is made again under the same key only if the server died between
\* paying and writing the key's row.
PaidTwiceOnlyByCrash ==
  \A p \in Payments : paid[p] <= 1 + Cardinality({d \in paidAtCrash : d[1] = p})

\* README.md:113: the runtime enforces the mission's payment limit.  What was
\* paid under all the keys never exceeds the budget.
PaidWithinBudget ==
  MapThenSumSet(LAMBDA p : paid[p] * Amount[p], Payments) <= Budget

\* README.md:113: the runtime enforces the mission's tool-call limit.
ToolLimitEnforced == started <= MaxToolCalls

\* An answer invoke_tool returned is among the results the next model call of
\* the runtime that asked is shown.
AnswersAreShown ==
  [][\A t \in told' \ told : t \in seen'[turn]]_vars
=============================================================================
