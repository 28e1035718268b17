------------------------- MODULE SideEffects_proofs -------------------------
(***************************************************************************)
(* Proofs about SideEffects, for any calls, any limit of tool calls, any   *)
(* payments, budget and cap, and any number of restarts.                   *)
(***************************************************************************)
EXTENDS SideEffects, FiniteSetTheorems, TLAPS

-----------------------------------------------------------------------------
(* The count of tool calls *)

\* A call in progress.
Asking == [stage : {"asked", "running", "ok", "error"}, call : Calls, key : Keys,
           used : 0 .. MaxStarted]

\* What the limit is checked against and what has been started.  The runtime that
\* works alone, or last read the log, counts exactly; the server, whose count misses
\* what kids have done since, is behind by what one kid may start at most: the limit.
Counted ==
  /\ started <= IF processes THEN 2 * MaxToolCalls ELSE MaxToolCalls
  /\ turn = Kid => processes
  /\ \A r \in Runtimes : known[r] # Unread => known[r] <= started
  /\ ~processes /\ known[Server] # Unread => known[Server] = started
  /\ turn = Kid /\ known[Kid] # Unread => known[Kid] = started
  /\ known[Server] # Unread => started <= MaxToolCalls + known[Server]
  /\ call.stage = "asked" => known[turn] # Unread /\ call.used = known[turn]
  /\ Len(ran) <= started
  /\ call.stage = "running" => Len(ran) < started

\* What the counts are made of, as far as TypeOK says.
LEMMA CountTypes ==
  ASSUME TypeOK
  PROVE  /\ MaxToolCalls \in Nat /\ MaxStarted \in Nat /\ MaxStarted = 2 * MaxToolCalls
         /\ started \in Nat /\ started <= MaxStarted
         /\ processes \in BOOLEAN /\ turn \in {Server, Kid} /\ Server # Kid
         /\ \A r \in Runtimes : known[r] = Unread \/ (known[r] \in Nat /\ known[r] <= MaxStarted)
         /\ Unread \notin Nat
         /\ Len(ran) \in Nat
         /\ call.stage \in {"none", "asked", "running", "ok", "error"}
         /\ call.stage # "none" => call \in Asking
<1>1. MaxToolCalls \in Nat /\ MaxStarted = 2 * MaxToolCalls /\ Unread \notin Nat /\ Server # Kid
  BY SideEffectsAssumption DEF MaxStarted
<1>2. MaxStarted \in Nat
  BY <1>1
<1>3. /\ started \in Nat /\ started <= MaxStarted
      /\ \A r \in Runtimes : known[r] = Unread \/ (known[r] \in Nat /\ known[r] <= MaxStarted)
  BY <1>2 DEF TypeOK
<1>4. call.stage \in {"none", "asked", "running", "ok", "error"} /\ (call.stage # "none" => call \in Asking)
  BY DEF TypeOK, NoCall, Asking
<1>5. Len(ran) \in Nat /\ processes \in BOOLEAN /\ turn \in {Server, Kid}
  BY DEF TypeOK, Runtimes
<1> QED BY <1>1, <1>2, <1>3, <1>4, <1>5

\* The count a runtime goes by is its own, or the log's if it has none yet.
LEMMA UsedBounds ==
  ASSUME TypeOK, Counted, NEW r \in Runtimes
  PROVE  /\ CallsUsed(r) \in Nat /\ CallsUsed(r) <= started /\ CallsUsed(r) <= MaxStarted
         /\ CallsUsed(r) # Unread
         /\ known[r] = Unread => CallsUsed(r) = started
         /\ known[r] # Unread => CallsUsed(r) = known[r]
<1>1. CASE known[r] = Unread
  BY <1>1, CountTypes DEF CallsUsed, LoggedCalls
<1>2. CASE known[r] # Unread
  <2>1. known[r] \in Nat /\ known[r] <= started
    BY <1>2, CountTypes DEF Counted
  <2>2. started \in Nat /\ MaxStarted \in Nat /\ started <= MaxStarted /\ Unread \notin Nat
    BY CountTypes
  <2>3. known[r] <= MaxStarted
    BY <1>2, CountTypes
  <2> QED BY <1>2, <2>1, <2>2, <2>3 DEF CallsUsed
<1> QED BY <1>1, <1>2

\* Taking the count changes no bound.
LEMMA CountTaken ==
  ASSUME TypeOK, Counted, NEW r \in Runtimes
  PROVE  LET known1 == [known EXCEPT ![r] = CallsUsed(r)] IN
         /\ known1[r] = CallsUsed(r)
         /\ \A q \in Runtimes : known1[q] # Unread => known1[q] <= started
         /\ ~processes /\ r = turn /\ known1[Server] # Unread => known1[Server] = started
         /\ turn = Kid /\ known1[Kid] # Unread => known1[Kid] = started
         /\ known1[Server] # Unread => started <= MaxToolCalls + known1[Server]
<1> DEFINE known1 == [known EXCEPT ![r] = CallsUsed(r)]
<1>1. /\ known1[r] = CallsUsed(r)
      /\ \A q \in Runtimes : known1[q] = IF q = r THEN CallsUsed(r) ELSE known[q]
  BY DEF TypeOK
<1>2. Server \in Runtimes /\ Kid \in Runtimes
  BY DEF Runtimes
<1>3. known1[Server] # Unread => started <= MaxToolCalls + known1[Server]
  <2>1. CASE r = Server /\ known[Server] = Unread
    <3>1. known1[Server] = started
      BY <1>1, <1>2, <2>1, UsedBounds
    <3> QED BY <3>1, CountTypes
  <2>2. CASE r # Server \/ known[Server] # Unread
    <3>1. known1[Server] = known[Server]
      BY <1>1, <1>2, <2>2, UsedBounds
    <3> QED BY <3>1 DEF Counted
  <2> QED BY <2>1, <2>2
<1>4. \A q \in Runtimes : known1[q] # Unread => known1[q] <= started
  BY <1>1, UsedBounds DEF Counted
<1>5. ~processes /\ r = turn /\ known1[Server] # Unread => known1[Server] = started
  BY <1>1, <1>2, UsedBounds, CountTypes DEF Counted
<1>6. turn = Kid /\ known1[Kid] # Unread => known1[Kid] = started
  BY <1>1, <1>2, UsedBounds DEF Counted
<1> HIDE DEF known1
<1>7. /\ known1[r] = CallsUsed(r)
      /\ \A q \in Runtimes : known1[q] # Unread => known1[q] <= started
      /\ ~processes /\ r = turn /\ known1[Server] # Unread => known1[Server] = started
      /\ turn = Kid /\ known1[Kid] # Unread => known1[Kid] = started
      /\ known1[Server] # Unread => started <= MaxToolCalls + known1[Server]
  BY <1>1, <1>3, <1>4, <1>5, <1>6
<1> QED BY <1>7 DEF known1

\* A restart forgets the counts, and the log has them all.
LEMMA CountRestarted ==
  ASSUME TypeOK, Counted, Restarted, UNCHANGED <<processes, started, ran>>
  PROVE  Counted'
<1>1. turn' = Server /\ call'.stage = "none" /\ \A r \in Runtimes : known'[r] = Unread
  BY DEF Restarted, NoCall
<1>2. Server \in Runtimes /\ Kid \in Runtimes /\ Server # Kid
  BY SideEffectsAssumption DEF Runtimes
<1> QED BY <1>1, <1>2 DEF Counted

\* A step that leaves the counts, the runtime at work and the history alone, and starts
\* no call or ends one, keeps the bounds.
LEMMA CountFrame ==
  ASSUME Counted, UNCHANGED <<processes, turn, known, started, ran>>,
         call' = call \/ call'.stage \in {"none", "ok", "error"}
  PROVE  Counted'
  BY DEF Counted

\* The bounds hold at first.
LEMMA CountedInit == Init => Counted
<1> SUFFICES ASSUME Init PROVE Counted
  OBVIOUS
<1>1. started = 0 /\ call.stage = "none" /\ turn = Server /\ Len(ran) = 0
  BY DEF Init, NoCall
<1>2. \A r \in Runtimes : known[r] = Unread
  BY DEF Init
<1>3. Server \in Runtimes /\ Kid \in Runtimes /\ Server # Kid /\ MaxToolCalls \in Nat
  BY SideEffectsAssumption DEF Runtimes
<1> QED BY <1>1, <1>2, <1>3 DEF Counted

\* consume_tool_call: the count the policy saw was below the limit.
LEMMA ChargeCounted ==
  ASSUME TypeOK, Counted, NEW listed, Charge(listed)
  PROVE  Counted'
<1>1. /\ call.stage = "asked" /\ call.used < MaxToolCalls
      /\ started' = started + 1
      /\ known' = [known EXCEPT ![turn] = @ + 1]
      /\ UNCHANGED <<processes, turn, ran>>
  <2>1. call.stage = "asked" /\ call.used # Unread /\ ~(call.used >= MaxToolCalls)
    BY DEF Charge, Denied, Counted
  <2>2. call.used \in Nat
    BY <2>1, CountTypes DEF Asking
  <2> QED BY <2>1, <2>2, CountTypes DEF Charge
<1>2. known[turn] \in Nat /\ known[turn] < MaxToolCalls /\ known[turn] <= started
  BY <1>1, CountTypes DEF Counted, Runtimes
<1>3. call'.stage = "running"
  BY <1>1, CountTypes DEF Charge, Asking
<1>4. \A r \in Runtimes : known'[r] = IF r = turn THEN known[turn] + 1 ELSE known[r]
  BY <1>1, CountTypes DEF TypeOK
<1>5. Server \in Runtimes /\ Kid \in Runtimes
  BY DEF Runtimes
<1>6. CASE turn = Server
  <2>1. known'[Server] = known[Server] + 1 /\ known'[Kid] = known[Kid]
    BY <1>4, <1>5, <1>6, CountTypes
  <2>2. started <= MaxToolCalls + known[Server] /\ known[Server] <= started /\ known[Server] \in Nat
    BY <1>2, <1>6, CountTypes DEF Counted
  <2>3. started + 1 <= MaxToolCalls + known'[Server] /\ started + 1 <= 2 * MaxToolCalls
    BY <1>2, <1>6, <2>1, <2>2, CountTypes
  <2>4. ~processes => known'[Server] = started + 1 /\ started + 1 <= MaxToolCalls
    BY <1>2, <1>6, <2>1, <2>2, CountTypes DEF Counted
  <2>5. \A r \in Runtimes : known'[r] # Unread => known'[r] <= started + 1
    <3>1. known[Kid] # Unread => known[Kid] <= started /\ known[Kid] \in Nat
      BY <1>5, CountTypes DEF Counted
    <3> QED BY <2>1, <2>2, <3>1, CountTypes DEF Runtimes
  <2>6. Len(ran) < started + 1
    BY CountTypes DEF Counted
  <2> QED BY <1>1, <1>3, <1>6, <2>3, <2>4, <2>5, <2>6, CountTypes DEF Counted
<1>7. CASE turn = Kid
  <2>1. known'[Kid] = known[Kid] + 1 /\ known'[Server] = known[Server]
    BY <1>4, <1>5, <1>7, CountTypes
  <2>2. known[Kid] = started /\ processes
    BY <1>2, <1>7, CountTypes DEF Counted
  <2>3. started + 1 <= MaxToolCalls /\ known'[Kid] = started + 1
    BY <1>2, <1>7, <2>1, <2>2, CountTypes
  <2>4. known'[Server] # Unread =>
          known'[Server] <= started + 1 /\ started + 1 <= MaxToolCalls + known'[Server]
    <3>1. known[Server] # Unread => known[Server] <= started /\ known[Server] \in Nat
      BY <1>5, CountTypes DEF Counted
    <3> QED BY <2>1, <2>3, <3>1, CountTypes
  <2>5. \A r \in Runtimes : known'[r] # Unread => known'[r] <= started + 1
    BY <2>3, <2>4, CountTypes DEF Runtimes
  <2>6. Len(ran) < started + 1 /\ started + 1 <= 2 * MaxToolCalls
    BY <2>3, CountTypes DEF Counted
  <2> QED BY <1>1, <1>3, <1>7, <2>2, <2>3, <2>4, <2>5, <2>6, CountTypes DEF Counted
<1> QED BY <1>6, <1>7, CountTypes

\* The key is looked up with the count just taken.
LEMMA AskCounted ==
  ASSUME TypeOK, Counted, NEW c \in Calls, Ask(c)
  PROVE  Counted'
<1>1. /\ known' = [known EXCEPT ![turn] = CallsUsed(turn)]
      /\ UNCHANGED <<processes, turn, started, ran>>
      /\ call'.stage = "none" \/ (call'.stage = "asked" /\ call'.used = CallsUsed(turn))
  BY DEF Ask, Working, Raise, NoCall
<1>2. turn \in Runtimes
  BY CountTypes DEF Runtimes
<1>3. /\ known'[turn] = CallsUsed(turn)
      /\ \A q \in Runtimes : known'[q] # Unread => known'[q] <= started
      /\ ~processes /\ known'[Server] # Unread => known'[Server] = started
      /\ turn = Kid /\ known'[Kid] # Unread => known'[Kid] = started
      /\ known'[Server] # Unread => started <= MaxToolCalls + known'[Server]
  BY <1>1, <1>2, CountTaken DEF Counted
<1> QED BY <1>1, <1>2, <1>3, UsedBounds DEF Counted

\* The server counts before it gives a task away; the kid has yet to count.
LEMMA GiveTaskCounted ==
  ASSUME TypeOK, Counted, GiveTask
  PROVE  Counted'
<1> DEFINE known1 == [known EXCEPT ![Server] = CallsUsed(Server)]
<1>1. /\ processes /\ turn = Server /\ turn' = Kid /\ call'.stage = "none"
      /\ known' = [known1 EXCEPT ![Kid] = Unread]
      /\ UNCHANGED <<processes, started, ran>>
  BY DEF GiveTask, Working, NoCall, TypeOK
<1>2. Server \in Runtimes /\ Kid \in Runtimes
  BY DEF Runtimes
<1>3. /\ \A q \in Runtimes : known1[q] # Unread => known1[q] <= started
      /\ known1[Server] # Unread => started <= MaxToolCalls + known1[Server]
  BY <1>2, CountTaken
<1>4. known'[Kid] = Unread /\ \A q \in Runtimes : q # Kid => known'[q] = known1[q]
  BY <1>1, <1>2 DEF TypeOK
<1> HIDE DEF known1
<1> QED BY <1>1, <1>2, <1>3, <1>4, CountTypes DEF Counted

\* The bounds are inductive.
LEMMA CountedStep == TypeOK /\ Counted /\ [Next]_vars => Counted'
<1> SUFFICES ASSUME TypeOK, Counted, [Next]_vars PROVE Counted'
  OBVIOUS
<1>1. ASSUME NEW c \in Calls, Ask(c) PROVE Counted'
  BY <1>1, AskCounted
<1>2. ASSUME NEW listed \in SUBSET Calls, Refuse(listed) PROVE Counted'
  <2>1. call'.stage = "none" /\ UNCHANGED <<processes, turn, known, started, ran>>
    BY <1>2 DEF Refuse, Raise, NoCall
  <2> QED BY <2>1, CountFrame
<1>3. ASSUME NEW listed \in SUBSET Calls, Charge(listed) PROVE Counted'
  BY <1>3, ChargeCounted
<1>4. ASSUME NEW worked \in BOOLEAN, NEW ok \in BOOLEAN, Provide(worked, ok) PROVE Counted'
  <2>1. /\ call.stage = "running" /\ call'.stage \in {"ok", "error"}
        /\ UNCHANGED <<processes, turn, known, started>>
    BY <1>4, CountTypes DEF Provide, Asking
  <2>2. Len(ran') \in {Len(ran), Len(ran) + 1}
    BY <1>4, CountTypes DEF Provide, TypeOK, Asking
  <2>3. Len(ran) < started
    BY <2>1 DEF Counted
  <2>4. Len(ran') <= started
    BY <2>2, <2>3, CountTypes
  <2> QED BY <2>1, <2>4 DEF Counted
<1>5. CASE ReportResult \/ ReportError
  <2>1. call'.stage = "none" /\ UNCHANGED <<processes, turn, known, started, ran>>
    BY <1>5 DEF ReportResult, ReportError, Raise, NoCall
  <2> QED BY <2>1, CountFrame
<1>6. CASE GiveTask
  BY <1>6, GiveTaskCounted
<1>7. CASE TaskDone
  <2>1. /\ turn = Kid /\ turn' = Server /\ call'.stage = "none"
        /\ UNCHANGED <<processes, known, started, ran>>
    BY <1>7 DEF TaskDone, Working, toolVars, NoCall
  <2> QED BY <2>1, CountTypes DEF Counted
<1>8. CASE RunEnds
  <2>1. /\ turn' = Server /\ call'.stage = "none"
        /\ UNCHANGED <<processes, known, started, ran>>
    BY <1>8 DEF RunEnds, NoCall
  <2> QED BY <2>1, CountTypes DEF Counted
<1>9. CASE Crash \/ CrashUnlogged
  <2>1. Restarted /\ UNCHANGED <<processes, started, ran>>
    BY <1>9 DEF Crash, CrashUnlogged
  <2> QED BY <2>1, CountRestarted
<1>10. ASSUME NEW q \in Payments, CrashPaying(q) PROVE Counted'
  <2>1. Restarted /\ UNCHANGED <<processes, started, ran>>
    BY <1>10 DEF CrashPaying
  <2> QED BY <2>1, CountRestarted
<1>11. ASSUME Saves \/ (\E q \in Payments : Pay(q)) \/ UNCHANGED vars PROVE Counted'
  <2>1. call' = call /\ UNCHANGED <<processes, turn, known, started, ran>>
    BY <1>11 DEF Saves, Pay, vars, toolVars
  <2> QED BY <2>1, CountFrame
<1> QED
  BY <1>1, <1>2, <1>3, <1>4, <1>5, <1>6, <1>7, <1>8, <1>9, <1>10, <1>11 DEF Next

\* The limit, and twice the limit, is what the bounds say of started.
LEMMA CountedSuffices == Counted => ToolBudget
  BY DEF Counted, ToolBudget

-----------------------------------------------------------------------------
(* Whose result it is *)

\* run is where a call's result was obtained.
ResultOf(c, run) == run \in 1 .. Len(ran) /\ ran[run] = c

\* A key names its call: what is stored under it, logged or told is a result of that
\* call, and a call that has come back is the last that ran.
Faithful ==
  /\ \A k \in Keys : stored[k].outcome = "ok" => ResultOf(k[2], stored[k].run)
  /\ \A t \in told \cup completed : ResultOf(t.call, t.run)
  /\ call.stage # "none" => call.key[2] = call.call
  /\ call.stage = "ok" => ResultOf(call.call, Len(ran))

\* Nothing is stored, logged or told at first.
LEMMA FaithfulInit == Init => Faithful
<1> SUFFICES ASSUME Init PROVE Faithful
  OBVIOUS
<1>1. \A k \in Keys : stored[k].outcome = "none"
  BY DEF Init, NoRow, None
<1> QED BY <1>1 DEF Init, Faithful, NoCall

\* What ran stays what ran.
LEMMA ResultStays ==
  ASSUME ran \in Seq(Calls), ran' = ran \/ (\E c \in Calls : ran' = Append(ran, c)),
         NEW c, NEW run, ResultOf(c, run)
  PROVE  ResultOf(c, run)'
<1>1. CASE ran' = ran
  BY <1>1 DEF ResultOf
<1>2. ASSUME NEW d \in Calls, ran' = Append(ran, d) PROVE ResultOf(c, run)'
  <2>1. run \in 1 .. Len(ran) /\ ran[run] = c
    BY DEF ResultOf
  <2>2. Len(ran') = Len(ran) + 1 /\ ran'[run] = ran[run]
    BY <1>2, <2>1
  <2>3. run \in 1 .. Len(ran')
    BY <2>1, <2>2
  <2> QED BY <2>1, <2>2, <2>3 DEF ResultOf
<1> QED BY <1>1, <1>2

\* An outcome written under a key stays with the key.
LEMMA RecordFaithful ==
  ASSUME TypeOK, Faithful, NEW key \in Keys, NEW row, Record(key, row),
         row.outcome = "ok" => ResultOf(key[2], row.run)
  PROVE  \A k \in Keys : stored'[k].outcome = "ok" => ResultOf(k[2], stored'[k].run)
<1>1. \A k \in Keys : stored'[k] = stored[k] \/ (k = key /\ stored'[k] = row)
  BY DEF Record, TypeOK
<1> QED BY <1>1 DEF Faithful

\* A step that runs, stores, logs and tells nothing, and leaves the call or ends it.
LEMMA FaithfulFrame ==
  ASSUME Faithful, UNCHANGED <<stored, told, completed, ran>>,
         call' = call \/ call'.stage = "none"
  PROVE  Faithful'
  BY DEF Faithful, ResultOf

\* A stored answer is told to a call with its key, which is the same call.
LEMMA AskFaithful ==
  ASSUME TypeOK, Counted, Faithful, NEW c \in Calls, Ask(c)
  PROVE  Faithful'
<1> DEFINE key == ToolKey(CallsUsed(turn), c)
<1>1. key \in Keys /\ key[2] = c
  <2>1. CallsUsed(turn) \in 0 .. MaxStarted
    BY UsedBounds, CountTypes DEF Runtimes
  <2> QED BY <2>1 DEF ToolKey, Keys
<1>2. /\ UNCHANGED <<stored, completed, ran>>
      /\ \/ call'.stage = "none"
         \/ call'.stage = "asked" /\ call'.key = key /\ call'.call = c
      /\ \/ told' = told
         \/ /\ stored[key].outcome = "ok"
            /\ told' = told \cup {[call |-> c, run |-> stored[key].run]}
  BY DEF Ask, Working, Raise, NoCall
<1>3. stored[key].outcome = "ok" => ResultOf(c, stored[key].run)
  BY <1>1 DEF Faithful
<1>4. (\A t \in told \cup completed : ResultOf(t.call, t.run))'
  BY <1>2, <1>3 DEF Faithful, ResultOf
<1>5. (\A k \in Keys : stored[k].outcome = "ok" => ResultOf(k[2], stored[k].run))'
  BY <1>2 DEF Faithful, ResultOf
<1> QED BY <1>1, <1>2, <1>4, <1>5 DEF Faithful

\* A tool's answer is the result of the run that has just been appended.
LEMMA ProvideFaithful ==
  ASSUME TypeOK, Faithful, NEW worked \in BOOLEAN, NEW ok \in BOOLEAN, Provide(worked, ok)
  PROVE  Faithful'
<1>1. /\ call.stage = "running" /\ call.call \in Calls
      /\ call'.call = call.call /\ call'.key = call.key
      /\ call'.stage = IF ok THEN "ok" ELSE "error"
      /\ UNCHANGED <<stored, told, completed>>
  BY CountTypes DEF Provide, Asking
<1>2. ran \in Seq(Calls) /\ (ran' = ran \/ \E c \in Calls : ran' = Append(ran, c))
  BY <1>1 DEF Provide, TypeOK
<1>3. (\A k \in Keys : stored[k].outcome = "ok" => ResultOf(k[2], stored[k].run))'
  <2>1. \A c, run : ResultOf(c, run) => ResultOf(c, run)'
    BY <1>2, ResultStays
  <2> QED BY <1>1, <2>1 DEF Faithful
<1>4. (\A t \in told \cup completed : ResultOf(t.call, t.run))'
  BY <1>1, <1>2, ResultStays DEF Faithful
<1>5. (call.stage = "ok" => ResultOf(call.call, Len(ran)))'
  <2>1. SUFFICES ASSUME ok PROVE ResultOf(call.call, Len(ran))'
    BY <1>1
  <2>2. ran' = Append(ran, call.call)
    BY <2>1 DEF Provide
  <2>3. Len(ran') \in 1 .. Len(ran') /\ ran'[Len(ran')] = call.call
    BY <1>1, <1>2, <2>2
  <2> QED BY <1>1, <2>3 DEF ResultOf
<1> QED BY <1>1, <1>3, <1>4, <1>5 DEF Faithful

\* Faithfulness is inductive.
LEMMA FaithfulStep == TypeOK /\ Counted /\ Faithful /\ [Next]_vars => Faithful'
<1> SUFFICES ASSUME TypeOK, Counted, Faithful, [Next]_vars PROVE Faithful'
  OBVIOUS
<1>0. call.stage # "none" => call.key \in Keys /\ call.key[2] = call.call
  BY CountTypes DEF Faithful, Asking
<1>1. ASSUME NEW c \in Calls, Ask(c) PROVE Faithful'
  BY <1>1, AskFaithful
<1>2. ASSUME NEW row, Record(call.key, row), call.stage # "none", call'.stage = "none",
             row.outcome = "ok" => ResultOf(call.call, row.run),
             UNCHANGED ran,
             \A t \in told' \cup completed' :
               t \in told \cup completed \/ ResultOf(t.call, t.run)
      PROVE  Faithful'
  <2>1. \A k \in Keys : stored'[k].outcome = "ok" => ResultOf(k[2], stored'[k].run)
    BY <1>0, <1>2, RecordFaithful
  <2> QED BY <1>2, <2>1 DEF Faithful, ResultOf
<1>3. ASSUME NEW listed \in SUBSET Calls, Refuse(listed) PROVE Faithful'
  BY <1>2, <1>3 DEF Refuse, Raise, NoCall
<1>4. ASSUME NEW listed \in SUBSET Calls, Charge(listed) PROVE Faithful'
  <2>1. call.stage = "asked" /\ call'.stage = "running" /\ call'.key = call.key
        /\ call'.call = call.call /\ UNCHANGED <<stored, told, completed, ran>>
    BY <1>4, CountTypes DEF Charge, Asking
  <2> QED BY <1>0, <2>1 DEF Faithful, ResultOf
<1>5. ASSUME NEW worked \in BOOLEAN, NEW ok \in BOOLEAN, Provide(worked, ok) PROVE Faithful'
  BY <1>5, ProvideFaithful
<1>6. CASE ReportResult
  <2>1. call.stage = "ok" /\ ResultOf(call.call, Len(ran))
    BY <1>6 DEF ReportResult, Faithful
  <2> QED BY <1>2, <1>6, <2>1 DEF ReportResult, NoCall
<1>7. CASE ReportError
  BY <1>2, <1>7 DEF ReportError, Raise, NoCall
<1>8. CASE CrashUnlogged
  <2>1. call.stage = "ok" => ResultOf(call.call, Len(ran))
    BY DEF Faithful
  <2> QED BY <1>2, <1>8, <2>1 DEF CrashUnlogged, Restarted, NoCall
<1>9. ASSUME \/ GiveTask \/ TaskDone \/ Saves \/ RunEnds \/ Crash
             \/ \E q \in Payments : Pay(q) \/ CrashPaying(q)
             \/ UNCHANGED vars
      PROVE  Faithful'
  <2>1. UNCHANGED <<stored, told, completed, ran>> /\ (call' = call \/ call'.stage = "none")
    BY <1>9 DEF GiveTask, TaskDone, Saves, RunEnds, Crash, Pay, CrashPaying, Restarted, vars,
                toolVars, NoCall
  <2> QED BY <2>1, FaithfulFrame
<1> QED
  BY <1>1, <1>3, <1>4, <1>5, <1>6, <1>7, <1>8, <1>9 DEF Next

\* Told results are among those that are faithful.
LEMMA FaithfulSuffices == Faithful => ToldWhatRan
  BY DEF Faithful, ToldWhatRan, ResultOf

-----------------------------------------------------------------------------
(* Types *)

\* The mission starts well typed.
LEMMA TypeInit == Init => TypeOK
<1> SUFFICES ASSUME Init PROVE TypeOK
  OBVIOUS
<1>1. MaxStarted \in Nat /\ 0 \in 0 .. MaxStarted /\ 0 \in 0 .. MaxCrashes
  BY SideEffectsAssumption DEF MaxStarted
<1>2. stored \in [Keys -> [outcome : {None, "ok", "error"}, run : 0 .. MaxStarted]]
  <2>1. NoRow \in [outcome : {None, "ok", "error"}, run : 0 .. MaxStarted]
    BY <1>1 DEF NoRow
  <2> QED BY <2>1 DEF Init
<1>3. ran \in Seq(Calls) /\ Len(ran) = 0
  BY DEF Init
<1>4. seen \in [Runtimes -> SUBSET completed]
  BY DEF Init
<1>5. spent \in [row : Nat, held : [Runtimes -> Nat]] /\ paid \in [Payments -> Nat]
  BY DEF Init
<1>6. known \in [Runtimes -> (0 .. MaxStarted) \cup {Unread}]
  BY DEF Init
<1>7. completed \cup told \subseteq [call : Calls, run : 1 .. MaxStarted]
  BY DEF Init
<1>8. /\ processes \in BOOLEAN /\ turn \in Runtimes /\ call = NoCall
      /\ failing \in BOOLEAN /\ over \in BOOLEAN /\ stopped \in BOOLEAN
      /\ receipts \subseteq Payments /\ crashes = 0 /\ started = 0
  BY DEF Init, Runtimes
<1>9. started \in 0 .. MaxStarted /\ crashes \in 0 .. MaxCrashes /\ Len(ran) <= MaxStarted
  BY <1>1, <1>3, <1>8
<1> QED BY <1>2, <1>3, <1>4, <1>5, <1>6, <1>7, <1>8, <1>9 DEF TypeOK

Rows == [outcome : {None, "ok", "error"}, run : 0 .. MaxStarted]

\* The tool calls' part of the types.
ToolTypes ==
  /\ known \in [Runtimes -> (0 .. MaxStarted) \cup {Unread}]
  /\ started \in 0 .. MaxStarted
  /\ stored \in [Keys -> Rows]
  /\ ran \in Seq(Calls) /\ Len(ran) <= MaxStarted
  /\ completed \cup told \subseteq [call : Calls, run : 1 .. MaxStarted]
  /\ seen \in [Runtimes -> SUBSET completed]
  /\ call = NoCall \/ call \in Asking
  /\ failing \in BOOLEAN

\* The rest of them.
MissionTypes ==
  /\ processes \in BOOLEAN /\ turn \in Runtimes
  /\ over \in BOOLEAN /\ stopped \in BOOLEAN
  /\ spent \in [row : Nat, held : [Runtimes -> Nat]]
  /\ paid \in [Payments -> Nat] /\ receipts \subseteq Payments
  /\ crashes \in 0 .. MaxCrashes

\* The two parts are all of it.
LEMMA TypeParts == TypeOK <=> ToolTypes /\ MissionTypes
  BY DEF TypeOK, ToolTypes, MissionTypes, Asking, Rows

\* A table in which a row is recorded stays a table of rows.
LEMMA RecordTypes ==
  ASSUME ToolTypes, NEW key \in Keys, NEW row \in Rows, Record(key, row)
  PROVE  stored' \in [Keys -> Rows]
  BY DEF Record, ToolTypes

\* Taking the count.
LEMMA AskTypes ==
  ASSUME TypeOK, Counted, Faithful, NEW c \in Calls, Ask(c)
  PROVE  ToolTypes'
<1> DEFINE used == CallsUsed(turn)
           key == ToolKey(used, c)
<1>0. ToolTypes /\ turn \in Runtimes
  BY TypeParts DEF MissionTypes
<1>1. used \in 0 .. MaxStarted /\ key \in Keys /\ key[2] = c
  <2>1. used \in 0 .. MaxStarted
    BY <1>0, UsedBounds, CountTypes
  <2> QED BY <2>1 DEF ToolKey, Keys
<1>2. known' \in [Runtimes -> (0 .. MaxStarted) \cup {Unread}]
  BY <1>0, <1>1 DEF Ask, ToolTypes
<1>3. call' = NoCall \/ call' \in Asking
  BY <1>0, <1>1 DEF Ask, Working, Raise, ToolTypes, Asking
<1>4. failing' \in BOOLEAN
  BY <1>0 DEF Ask, Raise, ToolTypes
<1>5. completed' \cup told' \subseteq [call : Calls, run : 1 .. MaxStarted]
  <2>1. CASE told' = told
    BY <1>0, <2>1 DEF Ask, ToolTypes
  <2>2. CASE stored[key].outcome = "ok" /\ told' = told \cup {[call |-> c, run |-> stored[key].run]}
    <3>1. stored[key].run \in 1 .. Len(ran)
      BY <1>1, <2>2 DEF Faithful, ResultOf
    <3>2. stored[key].run \in 1 .. MaxStarted
      BY <1>0, <3>1, CountTypes DEF ToolTypes
    <3> QED BY <1>0, <2>2, <3>2 DEF Ask, ToolTypes
  <2> QED BY <2>1, <2>2 DEF Ask
<1>6. UNCHANGED <<started, stored, ran, completed, seen>>
  BY DEF Ask
<1> QED BY <1>0, <1>2, <1>3, <1>4, <1>5, <1>6 DEF ToolTypes

\* Running a tool and reporting what came of it.
LEMMA CallTypes ==
  ASSUME TypeOK, Counted, Counted', Faithful,
         \/ \E listed \in SUBSET Calls : Refuse(listed) \/ Charge(listed)
         \/ \E worked, ok \in BOOLEAN : Provide(worked, ok)
         \/ ReportResult \/ ReportError
  PROVE  ToolTypes'
<1>0. /\ ToolTypes /\ turn \in Runtimes /\ call \in Asking
      /\ MaxStarted \in Nat /\ started \in Nat /\ started <= MaxStarted
      /\ Len(ran) \in Nat /\ Len(ran) <= started
  <2>1. call.stage # "none"
    BY DEF Refuse, Charge, Provide, ReportResult, ReportError
  <2> QED BY <2>1, TypeParts, CountTypes DEF MissionTypes, Counted
<1>1. call.key \in Keys /\ call.call \in Calls
  BY <1>0 DEF Asking
<1>2. /\ Len(ran) \in 0 .. MaxStarted
      /\ [outcome |-> "error", run |-> 0] \in Rows
      /\ [outcome |-> "ok", run |-> Len(ran)] \in Rows
  BY <1>0 DEF Rows
<1>3. ASSUME NEW listed \in SUBSET Calls, Refuse(listed) PROVE ToolTypes'
  <2>1. stored' \in [Keys -> Rows]
    BY <1>0, <1>1, <1>2, <1>3, RecordTypes DEF Refuse
  <2> QED BY <1>0, <1>3, <2>1 DEF Refuse, Raise, ToolTypes
<1>4. ASSUME NEW listed \in SUBSET Calls, Charge(listed) PROVE ToolTypes'
  <2>1. started' = started + 1 /\ processes' = processes /\ processes \in BOOLEAN
    BY <1>4, CountTypes DEF Charge
  <2>2. started' <= MaxStarted
    BY <1>0, <2>1, CountTypes DEF Counted
  <2>3. started' \in 0 .. MaxStarted
    BY <1>0, <2>1, <2>2
  <2>4. known' \in [Runtimes -> (0 .. MaxStarted) \cup {Unread}]
    <3>1. known[turn] # Unread /\ known[turn] <= started /\ known[turn] \in Nat
      BY <1>0, <1>4, CountTypes DEF Charge, Counted
    <3>2. known[turn] + 1 \in 0 .. MaxStarted
      BY <1>0, <2>1, <2>2, <3>1
    <3> QED BY <1>0, <1>4, <3>2 DEF Charge, ToolTypes
  <2>5. call' \in Asking
    BY <1>0, <1>4 DEF Charge, Asking
  <2> QED BY <1>0, <1>4, <2>3, <2>4, <2>5 DEF Charge, ToolTypes
<1>5. ASSUME NEW worked \in BOOLEAN, NEW ok \in BOOLEAN, Provide(worked, ok) PROVE ToolTypes'
  <2>1. ran' \in Seq(Calls) /\ Len(ran') \in {Len(ran), Len(ran) + 1}
    BY <1>0, <1>1, <1>5 DEF Provide, ToolTypes
  <2>2. Len(ran') <= started /\ started' = started
    BY <1>5 DEF Provide, Counted
  <2>3. Len(ran') <= MaxStarted
    BY <1>0, <2>1, <2>2
  <2>4. call' \in Asking
    BY <1>0, <1>5 DEF Provide, Asking
  <2> QED BY <1>0, <1>5, <2>1, <2>3, <2>4 DEF Provide, ToolTypes
<1>6. CASE ReportResult
  <2>1. stored' \in [Keys -> Rows]
    BY <1>0, <1>1, <1>2, <1>6, RecordTypes DEF ReportResult
  <2>2. [call |-> call.call, run |-> Len(ran)] \in [call : Calls, run : 1 .. MaxStarted]
    <3>1. Len(ran) \in 1 .. Len(ran)
      BY <1>6 DEF ReportResult, Faithful, ResultOf
    <3>2. Len(ran) \in 1 .. MaxStarted
      BY <1>0, <3>1
    <3> QED BY <1>1, <3>2
  <2>3. completed' \cup told' \subseteq [call : Calls, run : 1 .. MaxStarted]
    BY <1>0, <1>6, <2>2 DEF ReportResult, ToolTypes
  <2>4. seen' \in [Runtimes -> SUBSET completed']
    BY <1>0, <1>6 DEF ReportResult, ToolTypes
  <2> QED BY <1>0, <1>6, <2>1, <2>3, <2>4 DEF ReportResult, ToolTypes
<1>7. CASE ReportError
  <2>1. stored' \in [Keys -> Rows]
    BY <1>0, <1>1, <1>2, <1>7, RecordTypes DEF ReportError
  <2> QED BY <1>0, <1>7, <2>1 DEF ReportError, Raise, ToolTypes
<1> QED BY <1>3, <1>4, <1>5, <1>6, <1>7

\* What a restart leaves of the tool calls' variables.
LEMMA RestartTypes ==
  ASSUME ToolTypes, Restarted, seen' = [r \in Runtimes |-> completed],
         stored' \in [Keys -> Rows], UNCHANGED <<started, completed, ran, told>>
  PROVE  ToolTypes'
<1>1. known' \in [Runtimes -> (0 .. MaxStarted) \cup {Unread}]
  BY DEF Restarted
<1>2. seen' \in [Runtimes -> SUBSET completed']
  OBVIOUS
<1> QED BY <1>1, <1>2 DEF Restarted, ToolTypes

\* The types of the tool calls' variables are kept.
LEMMA ToolTypesStep ==
  ASSUME TypeOK, Counted, Counted', Faithful, [Next]_vars
  PROVE  ToolTypes'
<1>0. ToolTypes /\ turn \in Runtimes
  BY TypeParts DEF MissionTypes
<1>1. ASSUME NEW c \in Calls, Ask(c) PROVE ToolTypes'
  BY <1>1, AskTypes
<1>2. ASSUME \/ \E listed \in SUBSET Calls : Refuse(listed) \/ Charge(listed)
             \/ \E worked, ok \in BOOLEAN : Provide(worked, ok)
             \/ ReportResult \/ ReportError
      PROVE  ToolTypes'
  BY <1>2, CallTypes
<1>3. CASE GiveTask
  <2>1. CallsUsed(Server) \in 0 .. MaxStarted
    BY UsedBounds, CountTypes DEF Runtimes
  <2>2. known' \in [Runtimes -> (0 .. MaxStarted) \cup {Unread}]
    BY <1>0, <1>3, <2>1 DEF GiveTask, ToolTypes
  <2>3. seen' \in [Runtimes -> SUBSET completed']
    BY <1>0, <1>3 DEF GiveTask, ToolTypes
  <2> QED BY <1>0, <1>3, <2>2, <2>3 DEF GiveTask, ToolTypes
<1>4. CASE TaskDone \/ Saves \/ (\E q \in Payments : Pay(q)) \/ UNCHANGED vars
  <2>1. UNCHANGED toolVars
    BY <1>4 DEF TaskDone, Saves, Pay, vars
  <2> QED BY <1>0, <2>1 DEF toolVars, ToolTypes
<1>5. CASE RunEnds
  BY <1>0, <1>5 DEF RunEnds, ToolTypes
<1>6. ASSUME Crash \/ \E q \in Payments : CrashPaying(q) PROVE ToolTypes'
  <2>1. Restarted /\ seen' = [r \in Runtimes |-> completed]
        /\ UNCHANGED <<stored, started, completed, ran, told>>
    BY <1>6 DEF Crash, CrashPaying
  <2>2. stored' \in [Keys -> Rows]
    BY <1>0, <2>1 DEF ToolTypes
  <2> QED BY <1>0, <2>1, <2>2, RestartTypes
<1>7. CASE CrashUnlogged
  <2>1. call \in Asking /\ call.stage \in {"ok", "error"}
    BY <1>7, CountTypes DEF CrashUnlogged
  <2>2. Len(ran) \in 0 .. MaxStarted /\ 0 \in 0 .. MaxStarted
    BY CountTypes DEF TypeOK
  <2>3. [outcome |-> call.stage, run |-> IF call.stage = "ok" THEN Len(ran) ELSE 0] \in Rows
    BY <2>1, <2>2 DEF Rows
  <2>4. call.key \in Keys
    BY <2>1 DEF Asking
  <2>5. stored' \in [Keys -> Rows]
    BY <1>0, <1>7, <2>3, <2>4, RecordTypes DEF CrashUnlogged
  <2> QED BY <1>0, <1>7, <2>5, RestartTypes DEF CrashUnlogged
<1> QED
  BY <1>1, <1>2, <1>3, <1>4, <1>5, <1>6, <1>7 DEF Next

\* A restart's part of the rest.
LEMMA MissionRestarts ==
  ASSUME MissionTypes, Restarted, crashes < MaxCrashes, UNCHANGED <<processes, over>>,
         spent' \in [row : Nat, held : [Runtimes -> Nat]],
         paid' \in [Payments -> Nat], receipts' \subseteq Payments
  PROVE  MissionTypes'
<1>1. crashes + 1 \in 0 .. MaxCrashes
  BY SideEffectsAssumption DEF MissionTypes
<1> QED BY <1>1 DEF Restarted, MissionTypes, Runtimes

\* The types of the other variables are kept.
LEMMA MissionTypesStep ==
  ASSUME TypeOK, [Next]_vars
  PROVE  MissionTypes'
<1>0. MissionTypes /\ \A q \in Payments : Amount[q] \in Nat
  BY TypeParts, SideEffectsAssumption
<1>h. /\ spent.row \in Nat /\ spent.held \in [Runtimes -> Nat]
      /\ \A n \in Nat : [row |-> n, held |-> [r \in Runtimes |-> n]]
                          \in [row : Nat, held : [Runtimes -> Nat]]
      /\ [spent EXCEPT !.held = [r \in Runtimes |-> spent.row]]
           \in [row : Nat, held : [Runtimes -> Nat]]
  BY <1>0 DEF MissionTypes
<1>1. ASSUME \/ \E c \in Calls : Ask(c)
             \/ \E listed \in SUBSET Calls : Refuse(listed) \/ Charge(listed)
             \/ \E worked, ok \in BOOLEAN : Provide(worked, ok)
             \/ ReportResult \/ ReportError
             \/ UNCHANGED vars
      PROVE  MissionTypes'
  <2>1. UNCHANGED <<processes, turn, over, stopped, spent, crashes, payVars>>
    BY <1>1 DEF Ask, Refuse, Charge, Provide, ReportResult, ReportError, vars
  <2> QED BY <1>0, <2>1 DEF payVars, MissionTypes
<1>2. CASE GiveTask
  <2>1. spent' \in [row : Nat, held : [Runtimes -> Nat]]
    BY <1>0, <1>2 DEF GiveTask, MissionTypes
  <2> QED BY <1>0, <1>2, <2>1 DEF GiveTask, payVars, MissionTypes, Runtimes
<1>3. CASE TaskDone
  BY <1>0, <1>3 DEF TaskDone, payVars, MissionTypes, Runtimes
<1>4. CASE Saves
  BY <1>0, <1>h, <1>4 DEF Saves, payVars, MissionTypes
<1>5. CASE RunEnds
  BY <1>0, <1>h, <1>5 DEF RunEnds, payVars, MissionTypes, Runtimes
<1>6. CASE Crash
  BY <1>0, <1>h, <1>6, MissionRestarts DEF Crash, payVars, MissionTypes
<1>7. CASE CrashUnlogged
  BY <1>0, <1>h, <1>7, MissionRestarts DEF CrashUnlogged, payVars, MissionTypes
<1>8. ASSUME NEW q \in Payments, Pay(q) PROVE MissionTypes'
  <2>1. paid' \in [Payments -> Nat]
    BY <1>0, <1>8 DEF Pay, MissionTypes
  <2>2. spent.row + Amount[q] \in Nat
    BY <1>0, <1>h
  <2>3. spent' \in [row : Nat, held : [Runtimes -> Nat]]
    BY <1>0, <1>8, <2>2 DEF Pay, MissionTypes
  <2> QED BY <1>0, <1>8, <2>1, <2>3 DEF Pay, MissionTypes
<1>9. ASSUME NEW q \in Payments, CrashPaying(q) PROVE MissionTypes'
  <2>1. paid' \in [Payments -> Nat]
    BY <1>0, <1>9 DEF CrashPaying, MissionTypes
  <2>2. spent.row + Amount[q] \in Nat
    BY <1>0, <1>h
  <2>3. spent' \in [row : Nat, held : [Runtimes -> Nat]]
    BY <1>h, <1>9, <2>2 DEF CrashPaying
  <2> QED BY <1>0, <1>9, <2>1, <2>3, MissionRestarts DEF CrashPaying, MissionTypes
<1> QED
  BY <1>1, <1>2, <1>3, <1>4, <1>5, <1>6, <1>7, <1>8, <1>9 DEF Next

-----------------------------------------------------------------------------
(* The theorems about tool calls *)

\* Types, counts and results hold together: each needs the others.
ToolInvariant == TypeOK /\ Counted /\ Faithful

\* It is an invariant.
LEMMA ToolInvariantHolds == Spec => []ToolInvariant
<1>1. Init => ToolInvariant
  BY TypeInit, CountedInit, FaithfulInit DEF ToolInvariant
<1>2. ToolInvariant /\ [Next]_vars => ToolInvariant'
  <2> SUFFICES ASSUME ToolInvariant, [Next]_vars PROVE ToolInvariant'
    OBVIOUS
  <2>1. Counted' /\ Faithful'
    BY CountedStep, FaithfulStep DEF ToolInvariant
  <2>2. ToolTypes' /\ MissionTypes'
    BY <2>1, ToolTypesStep, MissionTypesStep DEF ToolInvariant
  <2>3. TypeOK'
    BY <2>2 DEF TypeOK, ToolTypes, MissionTypes, Asking, Rows
  <2> QED BY <2>1, <2>3 DEF ToolInvariant
<1> QED BY <1>1, <1>2, PTL DEF Spec

\* Type correctness of calls, keys, results, payments and rows.
THEOREM TypeCorrect == Spec => []TypeOK
<1>1. ToolInvariant => TypeOK
  BY DEF ToolInvariant
<1> QED BY <1>1, ToolInvariantHolds, PTL

\* Through any restarts, no more tools are started than the limit allows, or twice as
\* many with worker processes.
THEOREM ToolBudgetHolds == Spec => []ToolBudget
<1>1. ToolInvariant => ToolBudget
  BY CountedSuffices DEF ToolInvariant
<1> QED BY <1>1, ToolInvariantHolds, PTL

\* Every result a model is told, replayed ones included, is one of that very call.
THEOREM ToldWhatRanHolds == Spec => []ToldWhatRan
<1>1. ToolInvariant => ToldWhatRan
  BY FaithfulSuffices DEF ToolInvariant
<1> QED BY <1>1, ToolInvariantHolds, PTL

-----------------------------------------------------------------------------
(* Payments *)

\* The deaths that came between paying under a key and recording it.
Died(q) == {d \in paidAtCrash : d[1] = q}

\* Every payment under a key but the recorded one is owed to such a death, of which a
\* restart has at most one.
PayInvariant ==
  /\ TypeOK
  /\ IsFiniteSet(paidAtCrash)
  /\ \A d \in paidAtCrash : d[2] \in Nat /\ d[2] < crashes
  /\ \A q \in Payments :
       paid[q] <= Cardinality(Died(q)) + (IF q \in receipts THEN 1 ELSE 0)

\* Deaths are counted in natural numbers.
LEMMA DiedFinite ==
  ASSUME IsFiniteSet(paidAtCrash), NEW q
  PROVE  IsFiniteSet(Died(q)) /\ Cardinality(Died(q)) \in Nat
<1>1. IsFiniteSet(Died(q))
  <2>1. Died(q) \subseteq paidAtCrash
    BY DEF Died
  <2> QED BY <2>1, FS_Subset
<1> QED BY <1>1, FS_CardinalityType

\* Nothing is paid at first.
LEMMA PayInit == Init => PayInvariant
<1> SUFFICES ASSUME Init PROVE PayInvariant
  OBVIOUS
<1>1. TypeOK /\ paidAtCrash = {} /\ receipts = {} /\ \A q \in Payments : paid[q] = 0
  BY TypeInit DEF Init
<1>2. IsFiniteSet(paidAtCrash)
  BY <1>1, FS_EmptySet
<1>3. \A q \in Payments : Cardinality(Died(q)) \in Nat
  BY <1>2, DiedFinite
<1> QED BY <1>1, <1>2, <1>3 DEF PayInvariant

\* A payment that is recorded.
LEMMA PayRecorded ==
  ASSUME PayInvariant, TypeOK', NEW p \in Payments, Pay(p)
  PROVE  PayInvariant'
<1>1. /\ p \notin receipts /\ receipts' = receipts \cup {p}
      /\ paid' = [paid EXCEPT ![p] = @ + 1]
      /\ UNCHANGED <<paidAtCrash, crashes>>
  BY DEF Pay, MayPay
<1>2. IsFiniteSet(paidAtCrash)
  BY DEF PayInvariant
<1>3. ASSUME NEW q \in Payments
      PROVE  paid'[q] <= Cardinality(Died(q)) + (IF q \in receipts' THEN 1 ELSE 0)
  <2>1. paid[q] \in Nat /\ Cardinality(Died(q)) \in Nat
    BY <1>2, DiedFinite DEF PayInvariant, TypeOK
  <2>2. paid[q] <= Cardinality(Died(q)) + (IF q \in receipts THEN 1 ELSE 0)
    BY DEF PayInvariant
  <2>3. paid'[q] = IF q = p THEN paid[q] + 1 ELSE paid[q]
    BY <1>1 DEF PayInvariant, TypeOK
  <2> QED BY <1>1, <2>1, <2>2, <2>3
<1>4. \A q \in Payments : Died(q)' = Died(q)
  BY <1>1 DEF Died
<1> QED BY <1>1, <1>2, <1>3, <1>4 DEF PayInvariant

\* A payment after which the server dies.
LEMMA PayLost ==
  ASSUME PayInvariant, TypeOK', NEW p \in Payments, CrashPaying(p)
  PROVE  PayInvariant'
<1>1. /\ receipts' = receipts /\ crashes' = crashes + 1
      /\ paid' = [paid EXCEPT ![p] = @ + 1]
      /\ paidAtCrash' = paidAtCrash \cup {<<p, crashes>>}
  BY DEF CrashPaying, Restarted
<1>2. IsFiniteSet(paidAtCrash) /\ crashes \in Nat
  BY DEF PayInvariant, TypeOK
<1>3. IsFiniteSet(paidAtCrash')
  BY <1>1, <1>2, FS_AddElement
<1>4. <<p, crashes>> \notin Died(p)
  BY <1>2 DEF PayInvariant, Died
<1>5. Died(p)' = Died(p) \cup {<<p, crashes>>}
  BY <1>1 DEF Died
<1>6. Cardinality(Died(p)') = Cardinality(Died(p)) + 1
  BY <1>2, <1>4, <1>5, DiedFinite, FS_AddElement
<1>7. \A q \in Payments : q # p => Died(q)' = Died(q)
  BY <1>1 DEF Died
<1>8. ASSUME NEW q \in Payments
      PROVE  paid'[q] <= Cardinality(Died(q)') + (IF q \in receipts' THEN 1 ELSE 0)
  <2>1. paid[q] \in Nat /\ Cardinality(Died(q)) \in Nat
    BY <1>2, DiedFinite DEF PayInvariant, TypeOK
  <2>2. paid[q] <= Cardinality(Died(q)) + (IF q \in receipts THEN 1 ELSE 0)
    BY DEF PayInvariant
  <2>3. paid'[q] = IF q = p THEN paid[q] + 1 ELSE paid[q]
    BY <1>1 DEF PayInvariant, TypeOK
  <2> QED BY <1>1, <1>6, <1>7, <2>1, <2>2, <2>3
<1>9. \A d \in paidAtCrash' : d[2] \in Nat /\ d[2] < crashes'
  BY <1>1, <1>2 DEF PayInvariant
<1> QED BY <1>3, <1>8, <1>9 DEF PayInvariant

\* All other steps leave the payments alone.
LEMMA PayFrame ==
  ASSUME PayInvariant, TypeOK', UNCHANGED payVars, crashes' \in {crashes, crashes + 1}
  PROVE  PayInvariant'
<1>1. \A q \in Payments : Died(q)' = Died(q)
  BY DEF Died, payVars
<1>2. crashes \in Nat
  BY DEF PayInvariant, TypeOK
<1>3. \A d \in paidAtCrash' : d[2] \in Nat /\ d[2] < crashes'
  BY <1>2 DEF PayInvariant, payVars
<1> QED BY <1>1, <1>3 DEF PayInvariant, payVars

\* The invariant is inductive, given the types of the next state.
LEMMA PayStep == PayInvariant /\ TypeOK' /\ [Next]_vars => PayInvariant'
<1> SUFFICES ASSUME PayInvariant, TypeOK', [Next]_vars PROVE PayInvariant'
  OBVIOUS
<1>1. ASSUME NEW p \in Payments, Pay(p) PROVE PayInvariant'
  BY <1>1, PayRecorded
<1>2. ASSUME NEW p \in Payments, CrashPaying(p) PROVE PayInvariant'
  BY <1>2, PayLost
<1>3. ASSUME \/ \E c \in Calls : Ask(c)
             \/ \E listed \in SUBSET Calls : Refuse(listed) \/ Charge(listed)
             \/ \E worked, ok \in BOOLEAN : Provide(worked, ok)
             \/ ReportResult \/ ReportError \/ UNCHANGED vars
      PROVE  PayInvariant'
  <2>1. UNCHANGED payVars /\ crashes' = crashes
    BY <1>3 DEF Ask, Refuse, Charge, Provide, ReportResult, ReportError, vars
  <2> QED BY <2>1, PayFrame
<1>4. CASE GiveTask \/ TaskDone \/ Saves \/ RunEnds
  <2>1. UNCHANGED payVars /\ crashes' = crashes
    BY <1>4 DEF GiveTask, TaskDone, Saves, RunEnds
  <2> QED BY <2>1, PayFrame
<1>5. CASE Crash \/ CrashUnlogged
  <2>1. UNCHANGED payVars /\ crashes' = crashes + 1
    BY <1>5 DEF Crash, CrashUnlogged, Restarted
  <2> QED BY <2>1, PayFrame
<1> QED BY <1>1, <1>2, <1>3, <1>4, <1>5 DEF Next

\* What the invariant says of the payments made.
LEMMA PaySuffices == PayInvariant => PaidTwiceOnlyByCrash
<1> SUFFICES ASSUME PayInvariant, NEW q \in Payments
             PROVE  paid[q] <= 1 + Cardinality({d \in paidAtCrash : d[1] = q})
  BY DEF PaidTwiceOnlyByCrash
<1>1. paid[q] \in Nat /\ Cardinality(Died(q)) \in Nat
  BY DiedFinite DEF PayInvariant, TypeOK
<1>2. paid[q] <= Cardinality(Died(q)) + (IF q \in receipts THEN 1 ELSE 0)
  BY DEF PayInvariant
<1>3. paid[q] <= 1 + Cardinality(Died(q))
  BY <1>1, <1>2
<1> QED BY <1>3 DEF Died

\* A client that retries a payment under its key pays once, unless the server died
\* between paying and recording the key; then once more for each such death.
THEOREM PaidTwiceOnlyByCrashHolds == Spec => []PaidTwiceOnlyByCrash
<1>1. Spec => []PayInvariant
  BY PayInit, PayStep, TypeCorrect, PTL DEF Spec
<1> QED BY <1>1, PaySuffices, PTL
=============================================================================
