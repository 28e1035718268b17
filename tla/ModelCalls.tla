----------------------------- MODULE ModelCalls -----------------------------
(***************************************************************************)
(* A call to a model: SwarmRuntime.model_call with its retries, decide,    *)
(* work and verify of app/llm.py, the planners and the judge of            *)
(* app/planning.py, ModelRouter of app/router.py, and the token budget of  *)
(* app/resources.py.                                                       *)
(*                                                                         *)
(* The missions of a server share one router.  What they share in it is    *)
(* the history of each provider, which ranks the providers; the last       *)
(* decision, which is only reported, is left out.  A step ends where a     *)
(* coroutine suspends: in a probe of a local daemon, in a request, in a    *)
(* back-off.                                                               *)
(***************************************************************************)
EXTENDS Adapters, Integers, FiniteSets, Sequences

CONSTANTS Missions,
          Provider,     \* the adapters in the order of registration
          ReplyKinds,   \* the replies that are considered
          Pricings,     \* how the deployment prices what no catalog lists
          Price, Budget,
          MaxRetries, MaxPlanners, Window

ASSUME CallsAssumption ==
  /\ Provider \in Seq([local : BOOLEAN, known : BOOLEAN, errors : [FailureClasses -> SUBSET Nat],
                       dialect : {"responses", "chat", "messages", "converse", "generate"}])
  /\ Len(Provider) > 0
  /\ ReplyKinds \subseteq Replies
  /\ Pricings \subseteq {"default", "fail", "skip"}
  /\ {Price, Budget, MaxRetries} \subseteq Nat
  /\ {MaxPlanners, Window} \subseteq Nat \ {0}

VARIABLES pricing,  \* the deployment's choice
          private,  \* the missions created with privacy "local_only"
          spent,    \* token_spent of each mission, in completions
          call,     \* the call each mission is making
          history   \* of each provider, whether its latest requests succeeded

vars == <<pricing, private, spent, call, history>>

P == DOMAIN Provider

Local(p) == Provider[p].local

Kinds == {"decision", "work", "writing", "verification"}

Retryable == {"rate_limit", "timeout"}

\* told[p] is what became of p in this round: "no" until it is its turn, "skipped" if it
\* was unavailable then, "asked" while the request is under way, and the outcome.
Told == {"no", "skipped", "asked"} \cup Outcomes

Quiet == [p \in P |-> "no"]

\* "over": the mission has ended.  planners are being asked, or were, before a judge is;
\* alone: the chain is one provider that was chosen, not a route to walk.
Calls == [pc : {"idle", "selecting", "planning", "routing", "walking", "waiting", "charging", "over"},
          kind : Kinds, stakes : BOOLEAN, attempt : 1 .. MaxRetries + 1,
          planners : SUBSET P, bill : 0 .. MaxPlanners + 1,
          chain : UNION {[1 .. n -> P] : n \in 0 .. Len(Provider)}, alone : BOOLEAN,
          told : [P -> Told]]

Resting(pc) == [pc |-> pc, kind |-> "work", stakes |-> FALSE, attempt |-> 1, planners |-> {},
                bill |-> 0, chain |-> <<>>, alone |-> FALSE, told |-> Quiet]

Init ==
  /\ pricing \in Pricings
  /\ private \in SUBSET Missions
  /\ spent = [m \in Missions |-> 0]
  /\ call = [m \in Missions |-> Resting("idle")]
  /\ history = [p \in P |-> <<>>]

------------------------------------------------------------------------------
\* The router.

\* Faulty: a local model is preferred, not required.
EligibleAny(m, listed) == listed

\* _hard_rejection_reasons: no shipped adapter lacks a capability or is unconfigured.
Eligible(m, listed) == {p \in listed : m \in private => Local(p)}

Successes(p) == Cardinality({i \in DOMAIN history[p] : history[p][i]})

\* What it is and how it is: an entry of the catalog rates "high".
Merits(p, kind, healthy) ==
  LET known == Provider[p].known
      reasoning == IF known THEN 23 ELSE 8
      coding == IF kind = "work" THEN 0 ELSE IF known THEN 18 ELSE 6
  IN  reasoning + coding + 5 + IF p \in healthy THEN 5 ELSE 0

\* score_delta: between -8, of failures only, and 8; times 84000 to be whole (for up to
\* 8 outcomes).
TrackRecord(p) ==
  LET n == Len(history[p])
  IN  IF n = 0 THEN 0 ELSE ((8 * 84000) \div n) * (2 * Successes(p) - n)

\* score_model, times 84000 too: a hundredth is deducted for each place in the catalog.
Score(p, kind, healthy, listed) ==
  84000 * Merits(p, kind, healthy) + TrackRecord(p) - 840 * Cardinality({q \in listed : q < p})

\* select(): the eligible ones, best first.
Routes(m, healthy, listed) ==
  LET S == Eligible(m, listed)
  IN  {route \in [1 .. Cardinality(S) -> S] :
         \A i, j \in DOMAIN route : i < j =>
           Score(route[i], call[m].kind, healthy, listed) > Score(route[j], call[m].kind, healthy, listed)}

\* catalog(), as who is healthy and who is listed: a daemon may be down, or list no
\* model; others are always there.
Catalogs == {cat \in (SUBSET P) \X (SUBSET P) :
               {p \in P : ~Local(p)} \subseteq cat[1] \cap cat[2]}

Recorded(p, ok) ==
  LET h == Append(history[p], ok)
  IN  [history EXCEPT ![p] = IF Len(h) > Window THEN Tail(h) ELSE h]

------------------------------------------------------------------------------
\* The caller.

Becomes(m, c) == call' = [call EXCEPT ![m] = c]

\* Faulty: the first charge beyond the budget is let pass.
AuthorizeStartLate(m) == spent[m] <= Budget \/ spent[m] = 0

\* authorize_start.
AuthorizeStart(m) == spent[m] < Budget \/ spent[m] = 0

FirstStep(kind) == IF kind \in {"decision", "verification"} THEN "selecting" ELSE "routing"

\* stakes: would the goal and the state call for several planners?
Begin(m, kind, stakes) ==
  /\ call[m].pc = "idle"
  /\ stakes => kind = "decision"
  /\ IF AuthorizeStart(m)
     THEN Becomes(m, [Resting(FirstStep(kind)) EXCEPT !.kind = kind, !.stakes = stakes])
     ELSE Becomes(m, Resting("over"))
  /\ UNCHANGED <<pricing, private, spent, history>>

\* Faulty: the budget of attempts is not consumed.
RaisesForEver(m, class, c) ==
  Becomes(m, IF class \in Retryable THEN [c EXCEPT !.pc = "waiting"]
             ELSE [Resting("over") EXCEPT !.told = c.told, !.planners = c.planners])

\* An error reaches model_call: it is retried as long as there are attempts and time.
\* What is not retried ends the mission; planners that are still at it go on.
Raises(m, class, c) ==
  LET ended == [Resting("over") EXCEPT !.told = c.told, !.planners = c.planners]
  IN  \/ Becomes(m, ended)
      \/ /\ class \in Retryable /\ c.attempt <= MaxRetries
         /\ Becomes(m, [c EXCEPT !.pc = "waiting", !.attempt = @ + 1])

\* After the back-off the whole call is made again.
Retry(m) ==
  /\ call[m].pc = "waiting"
  /\ Becomes(m, [call[m] EXCEPT !.pc = FirstStep(call[m].kind), !.planners = {}, !.bill = 0])
  /\ UNCHANGED <<pricing, private, spent, history>>

\* NoRouteError; it is an outage if a daemon that lists nothing did not even answer.
NoRoute(m) ==
  /\ call[m].pc \in {"selecting", "routing"}
  /\ \E cat \in Catalogs, class \in {"capability_mismatch", "provider_outage"} :
       /\ Eligible(m, cat[2]) = {}
       /\ class = "provider_outage" => cat[2] # P
       /\ Raises(m, class, [call[m] EXCEPT !.told = Quiet, !.planners = {}])
  /\ UNCHANGED <<pricing, private, spent, history>>

\* decide() and verify() look at the route first: several planners, or a verifier that
\* is not the first choice, need two providers.
Select(m) ==
  /\ call[m].pc = "selecting"
  /\ \E cat \in Catalogs : \E route \in Routes(m, cat[1], cat[2]) :
       /\ route # <<>>
       /\ LET c == [call[m] EXCEPT !.told = Quiet, !.chain = route]
              n == IF Len(route) < MaxPlanners THEN Len(route) ELSE MaxPlanners
          IN  IF Len(route) > 1 /\ c.kind = "verification"
              THEN Becomes(m, [c EXCEPT !.pc = "walking", !.chain = <<route[2]>>, !.alone = TRUE])
              ELSE IF Len(route) > 1 /\ c.stakes
              THEN Becomes(m, [c EXCEPT !.pc = "planning", !.planners = {route[i] : i \in 1 .. n}])
              ELSE Becomes(m, [c EXCEPT !.pc = "routing", !.chain = call[m].chain,
                                        !.told = call[m].told])
  /\ UNCHANGED <<pricing, private, spent, history>>

\* complete() selects again, for the judge too.
Route(m) ==
  /\ call[m].pc = "routing"
  /\ \E cat \in Catalogs : \E route \in Routes(m, cat[1], cat[2]) :
       /\ route # <<>>
       /\ Becomes(m, [call[m] EXCEPT !.pc = "walking", !.chain = route, !.alone = FALSE,
                                     !.told = Quiet])
  /\ UNCHANGED <<pricing, private, spent, history>>

\* Whose turn it is: every planner's at once, or the next of the chain.
Turn(m) ==
  LET c == call[m]
  IN  IF c.pc = "walking"
      THEN {c.chain[i] : i \in {i \in DOMAIN c.chain : \A j \in 1 .. i - 1 :
                                  c.told[c.chain[j]] \notin {"no", "asked"}}}
      ELSE IF c.pc \in {"planning", "over"} THEN c.planners ELSE {}

Tells(m, p, what) == [call[m] EXCEPT !.told[p] = what]

Ask(m, p) ==
  /\ p \in Turn(m) /\ call[m].told[p] = "no"
  /\ Becomes(m, Tells(m, p, "asked"))
  /\ UNCHANGED <<pricing, private, spent, history>>

\* _skip_reason: a local daemon does not answer its health check.
Skip(m, p) ==
  /\ p \in Turn(m) /\ call[m].told[p] = "no" /\ Local(p)
  /\ Becomes(m, Tells(m, p, "skipped"))
  /\ UNCHANGED <<pricing, private, spent, history>>

\* Faulty: whatever went wrong, the next is asked.
FailsOverAlways(told) == told # "answer"

\* FAILOVER_FAILURE_CLASSES, and what is skipped.
FailsOver(told) == told \in {"skipped", "provider_outage"}

\* A planner's or a judge's answer may still be no valid decision, a verifier's no verdict.
Judged(m, outcome) ==
  LET c == call[m]
      validated == c.planners # {} \/ c.bill > 0 \/ c.kind = "verification"
  IN  IF outcome = "answer" /\ validated THEN {"answer", "invalid_output"} ELSE {outcome}

\* A reply to the walk, or to the verifier.
Reply(m, p, reply) ==
  LET outcome == Complete(Provider[p], reply)
  IN  /\ call[m].pc = "walking" /\ p \in Turn(m) /\ call[m].told[p] = "asked"
      /\ history' = IF outcome = "unclassified" THEN history ELSE Recorded(p, outcome = "answer")
      /\ \E told \in Judged(m, outcome) :
           LET c == Tells(m, p, told)
           IN  IF told = "answer" THEN Becomes(m, [c EXCEPT !.pc = "charging", !.bill = @ + 1])
               ELSE IF FailsOver(told) THEN Becomes(m, c)
               ELSE Raises(m, told, c)
      /\ UNCHANGED <<pricing, private, spent>>

\* The chain is at its end: an outage, whether or not anybody was asked.
NobodyAnswered(m) ==
  /\ call[m].pc = "walking"
  /\ \A i \in DOMAIN call[m].chain : FailsOver(call[m].told[call[m].chain[i]])
  /\ Raises(m, "provider_outage", call[m])
  /\ UNCHANGED <<pricing, private, spent, history>>

\* A reply to a planner; an exception that is no ProviderError ends the call at once.
PlannerReply(m, p, reply) ==
  LET outcome == Complete(Provider[p], reply)
  IN  /\ call[m].pc \in {"planning", "over"} /\ p \in call[m].planners /\ call[m].told[p] = "asked"
      /\ history' = IF outcome = "unclassified" THEN history ELSE Recorded(p, outcome = "answer")
      /\ \E told \in Judged(m, outcome) :
           LET c == Tells(m, p, told)
           IN  IF told = "unclassified" THEN Raises(m, told, c) ELSE Becomes(m, c)
      /\ UNCHANGED <<pricing, private, spent>>

\* gather() is through: without a proposal the last error counts, otherwise a judge is
\* asked, and will be billed for the proposals too.
Gathered(m) ==
  LET c == call[m]
      proposed == {p \in c.planners : c.told[p] = "answer"}
      last == CHOOSE i \in DOMAIN c.chain :
                /\ c.chain[i] \in c.planners
                /\ \A j \in DOMAIN c.chain : c.chain[j] \in c.planners => j <= i
      error == c.told[c.chain[last]]
  IN  /\ c.pc = "planning"
      /\ \A p \in c.planners : c.told[p] \notin {"no", "asked"}
      /\ IF proposed = {}
         THEN Raises(m, IF error = "skipped" THEN "provider_outage" ELSE error, c)
         ELSE Becomes(m, [c EXCEPT !.pc = "routing", !.planners = {}, !.bill = Cardinality(proposed)])
      /\ UNCHANGED <<pricing, private, spent, history>>

\* _account_tokens: the whole bill at the price of who answered last, which is nothing
\* for a local model, if it answers under the name the latest catalog lists.
Charge(m) ==
  /\ call[m].pc = "charging"
  /\ LET total == spent[m] + Price * call[m].bill
         local == \E p \in P : Local(p) /\ call[m].told[p] = "answer"
     IN  \/ /\ local \/ pricing = "skip"
            /\ Becomes(m, Resting("idle")) /\ UNCHANGED spent
         \/ /\ pricing = "fail"
            /\ Becomes(m, Resting("over")) /\ UNCHANGED spent
         \/ /\ pricing = "default"
            /\ spent' = [spent EXCEPT ![m] = total]
            /\ Becomes(m, Resting(IF total > Budget THEN "over" ELSE "idle"))
  /\ UNCHANGED <<pricing, private, history>>

\* stop, pause, kill, shutdown or the time limit, in the middle of a call.
Cancel(m) ==
  /\ call[m].pc \notin {"idle", "over"}
  /\ Becomes(m, Resting("over"))
  /\ UNCHANGED <<pricing, private, spent, history>>

CallStep(m) ==
  \/ Retry(m) \/ NoRoute(m) \/ Select(m) \/ Route(m) \/ NobodyAnswered(m) \/ Gathered(m) \/ Charge(m)
  \/ \E p \in P : Ask(m, p) \/ Skip(m, p)
  \/ \E p \in P, reply \in ReplyKinds : Reply(m, p, reply) \/ PlannerReply(m, p, reply)

Next ==
  \E m \in Missions :
    \/ \E kind \in Kinds, stakes \in BOOLEAN : Begin(m, kind, stakes)
    \/ CallStep(m)
    \/ Cancel(m)

Spec == Init /\ [][Next]_vars

\* Requests time out, daemons answer or do not, and back-offs end.
FairSpec == Spec /\ \A m \in Missions : WF_vars(CallStep(m))

------------------------------------------------------------------------------

TypeOK ==
  /\ pricing \in Pricings
  /\ private \subseteq Missions
  /\ spent \in [Missions -> Nat]
  /\ call \in [Missions -> Calls]
  /\ history \in [P -> UNION {[1 .. n -> BOOLEAN] : n \in 0 .. Window}]

\* A "local_only" mission's prompts reach no cloud, as planner, judge, verifier, fallback
\* or retry (router.py:175).
LocalOnlyStaysLocal ==
  \A m \in private : \A p \in P : ~Local(p) => call[m].told[p] = "no"

\* Of a route, nobody sees the prompt unless all before are down: errors of any other
\* class stay on the provider that raised them (providers.py:135).
FailoverOnlyAfterOutage ==
  \A m \in Missions : LET c == call[m] IN
    c.pc \in {"walking", "charging"} =>
      \A i, j \in DOMAIN c.chain :
        i < j /\ c.told[c.chain[j]] \notin {"no", "skipped"} =>
          c.told[c.chain[i]] \in {"skipped", "provider_outage"}

\* Once the budget is exceeded nothing more is charged: what a mission costs beyond its
\* budget is at most one call, with its planners (resources.py:269).
OverspendsByOneCall ==
  [][\A m \in Missions : spent'[m] > spent[m] =>
       /\ spent[m] < Budget \/ spent[m] = 0
       /\ spent'[m] > Budget => call'[m].pc = "over"]_vars

\* Every call ends, though each step of it may be retried, skipped or passed on.
CallsEnd ==
  \A m \in Missions : call[m].pc \notin {"idle", "over"} ~> call[m].pc \in {"idle", "over"}

\* A rate limit or a timeout is retried with the provider that raised it.
RetriesStay ==
  [][\A m \in Missions : LET c == call[m] IN
       c.pc = "routing" /\ c.kind = "work" /\ call'[m].pc = "walking" =>
         \A p \in P : c.told[p] \in Retryable => Head(call'[m].chain) = p]_vars
=============================================================================
