------------------------- MODULE ModelCalls_proofs -------------------------
(***************************************************************************)
(* Proofs about ModelCalls, for any registry of adapters, any replies, any *)
(* prices and budget, and any limits of retries and planners.              *)
(***************************************************************************)
EXTENDS ModelCalls, FiniteSetTheorems, TLAPS

\* Whatever comes back, it is an answer, a failure class or an unclassified error.
LEMMA OutcomeTypes ==
  ASSUME NEW p \in P, NEW reply \in ReplyKinds
  PROVE  Complete(Provider[p], reply) \in Outcomes
<1>1. reply \in Replies /\ reply.body \in Bodies /\ reply.status \in Nat
      /\ reply.via \in {"timeout", "unreachable", "http"}
  BY CallsAssumption DEF Replies
<1> DEFINE Dialects == {"responses", "chat", "messages", "converse", "generate"}
           Shape == [local : BOOLEAN, known : BOOLEAN, errors : [FailureClasses -> SUBSET Nat],
                     dialect : Dialects]
<1>2. Provider[p].dialect \in Dialects
  <2>1. Provider \in Seq(Shape)
    BY CallsAssumption
  <2> HIDE DEF Shape
  <2>2. Provider[p] \in Shape
    BY <2>1 DEF P
  <2> QED BY <2>2 DEF Shape
<1>3. \A body \in Bodies : Content(body) \in Outcomes
  BY DEF Content, Outcomes, FailureClasses
<1>4. \A body \in Bodies : /\ ResponsesOutput(body) \in Outcomes
                           /\ ChatOutput(body) \in Outcomes
                           /\ MessagesOutput(body) \in Outcomes
                           /\ GenerateOutput(body) \in Outcomes
  BY <1>3 DEF ResponsesOutput, ChatOutput, MessagesOutput, GenerateOutput, Outcomes, FailureClasses
<1>5. Output(Provider[p].dialect, reply.body) \in Outcomes
  BY <1>1, <1>2, <1>4 DEF Output, ConverseOutput
<1>6. HttpError(Provider[p].errors, reply.status) \in Outcomes
  BY DEF HttpError, Outcomes, FailureClasses
<1>7. reply.via = "http" => reply.status >= 400 \/ reply.status < 400
  BY <1>1
<1>8. {"timeout", "provider_outage", "unclassified"} \subseteq Outcomes
  BY DEF Outcomes, FailureClasses
<1> QED BY <1>1, <1>5, <1>6, <1>7, <1>8 DEF Complete

\* A planner's or judge's answer may be invalid, nothing else changes.
LEMMA JudgedTypes ==
  ASSUME NEW m, NEW outcome \in Outcomes
  PROVE  Judged(m, outcome) \subseteq Outcomes
  BY DEF Judged, Outcomes, FailureClasses

-----------------------------------------------------------------------------
(* What holds of a call *)

Places == {"idle", "selecting", "planning", "routing", "walking", "waiting", "charging", "over"}

\* The shape of a call; how long chains and how high bills get does not matter.
CallShape == [pc : Places, kind : Kinds, stakes : BOOLEAN, attempt : Nat, planners : SUBSET P,
              bill : Nat, chain : Seq(P), alone : BOOLEAN, told : [P -> Told]]

\* Nobody who is asked or may yet be asked in this round would break privacy.
LocalCall(m, c) ==
  m \in private =>
    /\ \A i \in DOMAIN c.chain : Local(c.chain[i])
    /\ \A p \in c.planners : Local(p)
    /\ \A p \in P : ~Local(p) => c.told[p] = "no"

\* A chain names nobody twice, and those before whom it was passed on are down.
WalkedCall(c) ==
  /\ c.pc \in {"walking", "charging"} =>
       \A i, j \in DOMAIN c.chain : i < j =>
         /\ c.chain[i] # c.chain[j]
         /\ c.told[c.chain[j]] \notin {"no", "skipped"} =>
              c.told[c.chain[i]] \in {"skipped", "provider_outage"}
  /\ c.pc = "walking" =>
       \A i \in DOMAIN c.chain :
         c.told[c.chain[i]] \in {"no", "skipped", "asked", "provider_outage"}

\* A call in progress was authorized by the budget, and nothing was charged since.
AuthorizedCall(m, c) == c.pc \notin {"idle", "over"} => AuthorizeStart(m)

SoundCall(m, c) ==
  c \in CallShape /\ LocalCall(m, c) /\ WalkedCall(c) /\ AuthorizedCall(m, c)

\* Every mission's call is sound.
CallInvariant ==
  /\ private \subseteq Missions
  /\ spent \in [Missions -> Nat]
  /\ history \in [P -> Seq(BOOLEAN)]
  /\ call \in [Missions -> CallShape]
  /\ \A m \in Missions : SoundCall(m, call[m])

\* The providers are finitely many.
LEMMA ProvidersFinite ==
  /\ P = 1 .. Len(Provider) /\ Len(Provider) \in Nat /\ IsFiniteSet(P)
  /\ \A S \in SUBSET P : IsFiniteSet(S) /\ Cardinality(S) \in Nat
<1>1. P = 1 .. Len(Provider) /\ Len(Provider) \in Nat
  BY CallsAssumption DEF P
<1>2. IsFiniteSet(P)
  BY <1>1, FS_Interval
<1>3. \A S \in SUBSET P : IsFiniteSet(S)
  BY <1>2, FS_Subset
<1> QED BY <1>1, <1>2, <1>3, FS_CardinalityType

\* A mission at rest, or one that has ended, has no call that could be unsound.
LEMMA RestingShape ==
  ASSUME NEW pc \in Places
  PROVE  /\ Resting(pc) \in CallShape
         /\ Resting(pc).pc = pc /\ Resting(pc).chain = <<>> /\ Resting(pc).planners = {}
         /\ \A p \in P : Resting(pc).told[p] = "no"
<1>1. Quiet \in [P -> Told]
  BY DEF Quiet, Told
<1>2. "work" \in Kinds
  BY DEF Kinds
<1>3. Resting(pc) \in CallShape
  BY <1>1, <1>2 DEF Resting, CallShape
<1> QED BY <1>3 DEF Resting, Quiet

\* The call with another round of planners.
TellsAll(c, told, planners) == [c EXCEPT !.told = told, !.planners = planners]

LEMMA TellsAllShape ==
  ASSUME NEW c \in CallShape, NEW told \in [P -> Told], NEW planners \in SUBSET P
  PROVE  /\ TellsAll(c, told, planners) \in CallShape
         /\ TellsAll(c, told, planners).pc = c.pc
         /\ TellsAll(c, told, planners).chain = c.chain
         /\ TellsAll(c, told, planners).planners = planners
         /\ TellsAll(c, told, planners).told = told
  BY DEF TellsAll, CallShape

\* The call at another place, at another attempt.
Attempts(c, pc, attempt) == [c EXCEPT !.pc = pc, !.attempt = attempt]

LEMMA AttemptsShape ==
  ASSUME NEW c \in CallShape, NEW pc \in Places, NEW attempt \in Nat
  PROVE  /\ Attempts(c, pc, attempt) \in CallShape
         /\ Attempts(c, pc, attempt).pc = pc
         /\ Attempts(c, pc, attempt).chain = c.chain
         /\ Attempts(c, pc, attempt).planners = c.planners
         /\ Attempts(c, pc, attempt).told = c.told
  BY DEF Attempts, CallShape

\* The call of another kind.
Begins(c, kind, stakes) == [c EXCEPT !.kind = kind, !.stakes = stakes]

LEMMA BeginsShape ==
  ASSUME NEW c \in CallShape, NEW kind \in Kinds, NEW stakes \in BOOLEAN
  PROVE  /\ Begins(c, kind, stakes) \in CallShape
         /\ Begins(c, kind, stakes).pc = c.pc
         /\ Begins(c, kind, stakes).chain = c.chain
         /\ Begins(c, kind, stakes).planners = c.planners
         /\ Begins(c, kind, stakes).told = c.told
  BY DEF Begins, CallShape

\* The call at another place, with other planners.
Plans(c, pc, planners) == [c EXCEPT !.pc = pc, !.planners = planners]

LEMMA PlansShape ==
  ASSUME NEW c \in CallShape, NEW pc \in Places, NEW planners \in SUBSET P
  PROVE  /\ Plans(c, pc, planners) \in CallShape
         /\ Plans(c, pc, planners).pc = pc
         /\ Plans(c, pc, planners).chain = c.chain
         /\ Plans(c, pc, planners).planners = planners
         /\ Plans(c, pc, planners).told = c.told
  BY DEF Plans, CallShape

\* The call at another place, along another chain.
Follows(c, pc, chain, told) == [c EXCEPT !.pc = pc, !.chain = chain, !.told = told]

LEMMA FollowsShape ==
  ASSUME NEW c \in CallShape, NEW pc \in Places, NEW chain \in Seq(P), NEW told \in [P -> Told]
  PROVE  /\ Follows(c, pc, chain, told) \in CallShape
         /\ Follows(c, pc, chain, told).pc = pc
         /\ Follows(c, pc, chain, told).chain = chain
         /\ Follows(c, pc, chain, told).planners = c.planners
         /\ Follows(c, pc, chain, told).told = told
  BY DEF Follows, CallShape

\* The call along a chain of one.
Chooses(c, p) == [c EXCEPT !.pc = "walking", !.chain = <<p>>, !.alone = TRUE]

LEMMA ChoosesShape ==
  ASSUME NEW c \in CallShape, NEW p \in P
  PROVE  /\ Chooses(c, p) \in CallShape
         /\ Chooses(c, p).pc = "walking"
         /\ Chooses(c, p).chain = <<p>>
         /\ Chooses(c, p).planners = c.planners
         /\ Chooses(c, p).told = c.told
<1>1. <<p>> \in Seq(P) /\ "walking" \in Places
  BY DEF Places
<1> DEFINE one == <<p>>
           d == [c EXCEPT !.pc = "walking", !.chain = one, !.alone = TRUE]
<1>2. d = Chooses(c, p)
  BY DEF Chooses
<1> HIDE DEF one
<1>3. /\ d \in CallShape /\ d.pc = "walking" /\ d.chain = one
      /\ d.planners = c.planners /\ d.told = c.told
  BY <1>1 DEF CallShape, one
<1> QED BY <1>2, <1>3 DEF one

\* The call at another place, with another bill and other planners.
Bills(c, pc, planners, bill) == [c EXCEPT !.pc = pc, !.planners = planners, !.bill = bill]

LEMMA BillsShape ==
  ASSUME NEW c \in CallShape, NEW pc \in Places, NEW planners \in SUBSET P, NEW bill \in Nat
  PROVE  /\ Bills(c, pc, planners, bill) \in CallShape
         /\ Bills(c, pc, planners, bill).pc = pc
         /\ Bills(c, pc, planners, bill).chain = c.chain
         /\ Bills(c, pc, planners, bill).planners = planners
         /\ Bills(c, pc, planners, bill).told = c.told
  BY DEF Bills, CallShape

\* The call that has been answered.
Answers(c) == [c EXCEPT !.pc = "charging", !.bill = @ + 1]

LEMMA AnswersShape ==
  ASSUME NEW c \in CallShape
  PROVE  /\ Answers(c) \in CallShape
         /\ Answers(c).pc = "charging"
         /\ Answers(c).chain = c.chain
         /\ Answers(c).planners = c.planners
         /\ Answers(c).told = c.told
<1> DEFINE bill == c.bill + 1
           d == [c EXCEPT !.pc = "charging", !.bill = bill]
<1>1. d = Answers(c) /\ bill \in Nat /\ "charging" \in Places
  BY DEF Answers, CallShape, Places
<1> HIDE DEF bill
<1>2. /\ d \in CallShape /\ d.pc = "charging" /\ d.chain = c.chain
      /\ d.planners = c.planners /\ d.told = c.told
  BY <1>1 DEF CallShape
<1> QED BY <1>1, <1>2

\* The call in which a provider has been told of.
TellsOne(c, p, what) == [c EXCEPT !.told[p] = what]

LEMMA TellsOneShape ==
  ASSUME NEW c \in CallShape, NEW p \in P, NEW what \in Told
  PROVE  /\ TellsOne(c, p, what) \in CallShape
         /\ TellsOne(c, p, what).pc = c.pc
         /\ TellsOne(c, p, what).chain = c.chain
         /\ TellsOne(c, p, what).planners = c.planners
         /\ TellsOne(c, p, what).told = [c.told EXCEPT ![p] = what]
<1> DEFINE told == [c.told EXCEPT ![p] = what]
           d == [c EXCEPT !.told = told]
<1>1. told \in [P -> Told] /\ d = TellsOne(c, p, what)
  BY DEF CallShape, TellsOne
<1> HIDE DEF told
<1>2. /\ d \in CallShape /\ d.pc = c.pc /\ d.chain = c.chain
      /\ d.planners = c.planners /\ d.told = told
  BY <1>1 DEF CallShape
<1> QED BY <1>1, <1>2 DEF told

\* A call that keeps what its providers said, asks no new planner and leaves the chain
\* is sound whatever came before, while the budget allows it.
LEMMA CalmSound ==
  ASSUME NEW m \in Missions, NEW c \in CallShape, LocalCall(m, c), NEW d \in CallShape,
         d.pc \notin {"walking", "charging"}, d.pc \in {"idle", "over"} \/ AuthorizeStart(m),
         d.chain = c.chain, d.planners \subseteq c.planners, d.told = c.told
  PROVE  SoundCall(m, d)
<1>1. LocalCall(m, d)
  BY DEF LocalCall
<1>2. WalkedCall(d)
  BY DEF WalkedCall
<1>3. AuthorizedCall(m, d)
  BY DEF AuthorizedCall
<1> QED BY <1>1, <1>2, <1>3 DEF SoundCall

\* The call of a mission that a step leaves alone stays sound.
LEMMA SoundStays ==
  ASSUME NEW m \in Missions, SoundCall(m, call[m]),
         private' = private, call'[m] = call[m], spent'[m] = spent[m]
  PROVE  SoundCall(m, call[m])'
<1>1. call[m] \in CallShape /\ LocalCall(m, call[m]) /\ WalkedCall(call[m])
      /\ AuthorizedCall(m, call[m])
  BY DEF SoundCall
<1>2. LocalCall(m, call[m])'
  BY <1>1 DEF LocalCall
<1>3. WalkedCall(call[m])'
  BY <1>1 DEF WalkedCall
<1>4. AuthorizedCall(m, call[m])'
  BY <1>1 DEF AuthorizedCall, AuthorizeStart
<1> QED BY <1>1, <1>2, <1>3, <1>4 DEF SoundCall

\* A step of one mission's call that leaves it sound leaves all of them sound.
LEMMA StepFrame ==
  ASSUME CallInvariant, NEW m \in Missions, NEW c, Becomes(m, c), SoundCall(m, c),
         UNCHANGED <<private, spent>>, history' \in [P -> Seq(BOOLEAN)]
  PROVE  CallInvariant'
<1>1. c \in CallShape
  BY DEF SoundCall
<1>2. call' \in [Missions -> CallShape]
  BY <1>1 DEF Becomes, CallInvariant
<1>3. ASSUME NEW n \in Missions PROVE SoundCall(n, call[n])'
  <2>1. call'[n] = IF n = m THEN c ELSE call[n]
    BY DEF Becomes, CallInvariant
  <2>2. SoundCall(n, call'[n])
    BY <2>1 DEF CallInvariant
  <2> QED BY <2>2 DEF SoundCall, LocalCall, WalkedCall, AuthorizedCall, AuthorizeStart
<1> QED BY <1>2, <1>3 DEF CallInvariant

\* The history grows and is cut to the window.
LEMMA RecordedTypes ==
  ASSUME CallInvariant, NEW p \in P, NEW ok \in BOOLEAN
  PROVE  Recorded(p, ok) \in [P -> Seq(BOOLEAN)]
<1> DEFINE h == Append(history[p], ok)
<1>1. h \in Seq(BOOLEAN) /\ h # <<>>
  BY DEF CallInvariant
<1>2. Tail(h) \in Seq(BOOLEAN)
  BY <1>1
<1> QED BY <1>1, <1>2 DEF Recorded, CallInvariant

\* Scores are numbers, so the order they give is strict.
LEMMA ScoreTypes ==
  ASSUME CallInvariant, NEW p \in P, NEW kind, NEW healthy, NEW listed \in SUBSET P
  PROVE  Score(p, kind, healthy, listed) \in Int
<1>1. Cardinality({q \in listed : q < p}) \in Nat
  BY ProvidersFinite
<1>2. history[p] \in Seq(BOOLEAN) /\ Len(history[p]) \in Nat
  BY DEF CallInvariant
<1>3. Successes(p) \in Nat
  <2>1. DOMAIN history[p] = 1 .. Len(history[p])
    BY <1>2
  <2>2. IsFiniteSet(1 .. Len(history[p]))
    BY <1>2, FS_Interval
  <2>3. IsFiniteSet({i \in DOMAIN history[p] : history[p][i]})
    BY <2>1, <2>2, FS_Subset
  <2> QED BY <2>3, FS_CardinalityType DEF Successes
<1>4. TrackRecord(p) \in Int
  <2> DEFINE n == Len(history[p])
             share == (8 * 84000) \div n
             balance == 2 * Successes(p) - n
  <2>1. n # 0 => share \in Int
    BY <1>2
  <2>2. balance \in Int
    BY <1>2, <1>3
  <2>3. TrackRecord(p) = IF n = 0 THEN 0 ELSE share * balance
    BY DEF TrackRecord
  <2> HIDE DEF n, share, balance
  <2> QED BY <2>1, <2>2, <2>3
<1>5. Merits(p, kind, healthy) \in Int
  BY DEF Merits
<1> QED BY <1>1, <1>4, <1>5 DEF Score

\* A route names eligible providers, each once.
LEMMA RouteTypes ==
  ASSUME CallInvariant, NEW m \in Missions, NEW healthy, NEW listed \in SUBSET P,
         NEW route \in Routes(m, healthy, listed)
  PROVE  /\ route \in Seq(P)
         /\ \A i, j \in DOMAIN route : i < j => route[i] # route[j]
         /\ m \in private => \A i \in DOMAIN route : Local(route[i])
<1> DEFINE S == Eligible(m, listed)
<1>1. S \in SUBSET P /\ Cardinality(S) \in Nat
  BY ProvidersFinite DEF Eligible
<1>2. route \in [1 .. Cardinality(S) -> S] /\ DOMAIN route = 1 .. Cardinality(S)
  BY DEF Routes
<1>3. route \in Seq(P)
  BY <1>1, <1>2
<1>4. ASSUME NEW i \in DOMAIN route, NEW j \in DOMAIN route, i < j PROVE route[i] # route[j]
  <2>1. Score(route[i], call[m].kind, healthy, listed) > Score(route[j], call[m].kind, healthy, listed)
    BY <1>4 DEF Routes
  <2>2. Score(route[i], call[m].kind, healthy, listed) \in Int
    BY <1>1, <1>2, ScoreTypes
  <2> QED BY <2>1, <2>2
<1>5. m \in private => \A i \in DOMAIN route : Local(route[i])
  BY <1>2 DEF Eligible
<1> QED BY <1>3, <1>4, <1>5

\* An error leaves a call to be made again, or none.
LEMMA RaisesStep ==
  ASSUME CallInvariant, NEW m \in Missions, NEW class, NEW c \in CallShape,
         LocalCall(m, c), class \in Retryable => AuthorizeStart(m), Raises(m, class, c),
         UNCHANGED <<private, spent>>, history' \in [P -> Seq(BOOLEAN)]
  PROVE  CallInvariant'
<1> DEFINE ended == [Resting("over") EXCEPT !.told = c.told, !.planners = c.planners]
           again == [c EXCEPT !.pc = "waiting", !.attempt = @ + 1]
<1>1. SoundCall(m, ended)
  <2>1. "over" \in Places
    BY DEF Places
  <2>2. ended \in CallShape /\ ended.pc = "over" /\ ended.chain = <<>>
        /\ ended.planners = c.planners /\ ended.told = c.told
    <3>1. c.told \in [P -> Told] /\ c.planners \in SUBSET P
      BY DEF CallShape
    <3>2. ended = TellsAll(Resting("over"), c.told, c.planners)
      BY DEF TellsAll
    <3> HIDE DEF ended
    <3> QED BY <2>1, <3>1, <3>2, RestingShape, TellsAllShape
  <2> HIDE DEF ended
  <2>3. LocalCall(m, ended)
    BY <2>2 DEF LocalCall
  <2> QED BY <2>2, <2>3, CalmSound
<1>2. ASSUME AuthorizeStart(m) PROVE SoundCall(m, again)
  <2>1. again \in CallShape /\ again.pc = "waiting" /\ again.chain = c.chain
        /\ again.planners = c.planners /\ again.told = c.told
    <3>1. again = Attempts(c, "waiting", c.attempt + 1)
      BY DEF Attempts
    <3>2. c.attempt + 1 \in Nat /\ "waiting" \in Places
      BY DEF CallShape, Places
    <3> HIDE DEF again
    <3> QED BY <3>1, <3>2, AttemptsShape
  <2> HIDE DEF again
  <2> QED BY <1>2, <2>1, CalmSound
<1>3. Becomes(m, ended) \/ (AuthorizeStart(m) /\ Becomes(m, again))
  BY DEF Raises
<1> HIDE DEF ended, again
<1> QED BY <1>1, <1>2, <1>3, StepFrame

\* What is known of the call of m.
LEMMA OfCall ==
  ASSUME CallInvariant, NEW m \in Missions
  PROVE  /\ call[m] \in CallShape /\ SoundCall(m, call[m]) /\ LocalCall(m, call[m])
         /\ WalkedCall(call[m]) /\ AuthorizedCall(m, call[m])
         /\ spent[m] \in Nat /\ history \in [P -> Seq(BOOLEAN)]
  BY DEF CallInvariant, SoundCall

\* A call is begun only within the budget.
LEMMA BeginStep ==
  ASSUME CallInvariant, NEW m \in Missions, NEW kind \in Kinds, NEW stakes \in BOOLEAN,
         Begin(m, kind, stakes)
  PROVE  CallInvariant'
<1> DEFINE c == [Resting(FirstStep(kind)) EXCEPT !.kind = kind, !.stakes = stakes]
<1>1. FirstStep(kind) \in Places /\ "over" \in Places
      /\ FirstStep(kind) \notin {"walking", "charging"}
  BY DEF FirstStep, Places
<1>2. /\ c \in CallShape /\ c.pc = FirstStep(kind) /\ c.chain = <<>> /\ c.planners = {}
      /\ \A p \in P : c.told[p] = "no"
  <2>1. c = Begins(Resting(FirstStep(kind)), kind, stakes)
    BY DEF Begins
  <2> HIDE DEF c
  <2> QED BY <1>1, <2>1, RestingShape, BeginsShape
<1>3. UNCHANGED <<private, spent, history>>
  BY DEF Begin
<1>4. CASE AuthorizeStart(m)
  <2>1. Becomes(m, c)
    BY <1>4 DEF Begin
  <2> HIDE DEF c
  <2>2. SoundCall(m, c)
    BY <1>1, <1>2, <1>4 DEF SoundCall, LocalCall, WalkedCall, AuthorizedCall
  <2> QED BY <1>3, <2>1, <2>2, StepFrame, OfCall
<1>5. CASE ~AuthorizeStart(m)
  <2>1. Becomes(m, Resting("over"))
    BY <1>5 DEF Begin
  <2>2. SoundCall(m, Resting("over"))
    BY <1>1, RestingShape DEF SoundCall, LocalCall, WalkedCall, AuthorizedCall
  <2> QED BY <1>3, <2>1, <2>2, StepFrame, OfCall
<1> QED BY <1>4, <1>5

\* A retry, a missing route and a cancellation.
LEMMA RestartStep ==
  ASSUME CallInvariant, NEW m \in Missions, Retry(m) \/ NoRoute(m) \/ Cancel(m)
  PROVE  CallInvariant'
<1>0. UNCHANGED <<private, spent, history>>
  BY DEF Retry, NoRoute, Cancel
<1>1. CASE Retry(m)
  <2> DEFINE c == [call[m] EXCEPT !.pc = FirstStep(call[m].kind), !.planners = {}, !.bill = 0]
  <2>1. FirstStep(call[m].kind) \in {"selecting", "routing"}
    BY DEF FirstStep
  <2>2. c \in CallShape /\ c.pc = FirstStep(call[m].kind) /\ c.chain = call[m].chain
        /\ c.planners = {} /\ c.told = call[m].told
    BY <2>1, OfCall DEF CallShape, Places
  <2>3. Becomes(m, c) /\ AuthorizeStart(m)
    BY <1>1, OfCall DEF Retry, AuthorizedCall
  <2> HIDE DEF c
  <2>4. SoundCall(m, c)
    BY <2>1, <2>2, <2>3, OfCall, CalmSound
  <2> QED BY <1>0, <2>3, <2>4, StepFrame, OfCall
<1>2. CASE NoRoute(m)
  <2> DEFINE c == [call[m] EXCEPT !.told = Quiet, !.planners = {}]
  <2>1. c \in CallShape /\ c.chain = call[m].chain /\ c.planners = {} /\ c.told = Quiet
    BY OfCall DEF CallShape, Quiet, Told
  <2>2. PICK class \in {"capability_mismatch", "provider_outage"} : Raises(m, class, c)
    BY <1>2 DEF NoRoute
  <2>3. AuthorizeStart(m)
    BY <1>2, OfCall DEF NoRoute, AuthorizedCall
  <2>4. LocalCall(m, c)
    BY <2>1, OfCall DEF LocalCall, Quiet
  <2> HIDE DEF c
  <2> QED BY <1>0, <2>1, <2>2, <2>3, <2>4, RaisesStep, OfCall
<1>3. CASE Cancel(m)
  <2>1. Becomes(m, Resting("over")) /\ "over" \in Places
    BY <1>3 DEF Cancel, Places
  <2>2. SoundCall(m, Resting("over"))
    BY <2>1, RestingShape DEF SoundCall, LocalCall, WalkedCall, AuthorizedCall
  <2> QED BY <1>0, <2>1, <2>2, StepFrame, OfCall
<1> QED BY <1>1, <1>2, <1>3

\* complete() selects: a fresh round along a route.
LEMMA RouteStep ==
  ASSUME CallInvariant, NEW m \in Missions, Route(m)
  PROVE  CallInvariant'
<1>1. PICK cat \in Catalogs : \E route \in Routes(m, cat[1], cat[2]) :
        /\ route # <<>>
        /\ Becomes(m, [call[m] EXCEPT !.pc = "walking", !.chain = route, !.alone = FALSE,
                                      !.told = Quiet])
  BY DEF Route
<1>2. PICK route \in Routes(m, cat[1], cat[2]) :
        Becomes(m, [call[m] EXCEPT !.pc = "walking", !.chain = route, !.alone = FALSE,
                                   !.told = Quiet])
  BY <1>1
<1> DEFINE c == [call[m] EXCEPT !.pc = "walking", !.chain = route, !.alone = FALSE, !.told = Quiet]
<1>3. cat[2] \in SUBSET P
  BY DEF Catalogs
<1>4. /\ route \in Seq(P)
      /\ \A i, j \in DOMAIN route : i < j => route[i] # route[j]
      /\ m \in private => \A i \in DOMAIN route : Local(route[i])
  BY <1>3, RouteTypes
<1>5. /\ c \in CallShape /\ c.pc = "walking" /\ c.chain = route /\ c.told = Quiet
      /\ c.planners = call[m].planners
  BY <1>4, OfCall DEF CallShape, Places, Quiet, Told
<1>6. AuthorizeStart(m) /\ UNCHANGED <<private, spent, history>> /\ Becomes(m, c)
  BY <1>2, OfCall DEF Route, AuthorizedCall
<1>7. \A i \in DOMAIN route : route[i] \in P
  BY <1>4
<1> HIDE DEF c
<1>8. LocalCall(m, c)
  BY <1>4, <1>5, OfCall DEF LocalCall, Quiet
<1>9. WalkedCall(c)
  BY <1>4, <1>5, <1>7 DEF WalkedCall, Quiet
<1>10. SoundCall(m, c)
  BY <1>5, <1>6, <1>8, <1>9 DEF SoundCall, AuthorizedCall
<1> QED BY <1>6, <1>10, StepFrame, OfCall

\* decide() and verify() look at the route: planners, a verifier, or neither.
LEMMA SelectStep ==
  ASSUME CallInvariant, NEW m \in Missions, Select(m)
  PROVE  CallInvariant'
<1>1. PICK cat \in Catalogs : \E route \in Routes(m, cat[1], cat[2]) :
        /\ route # <<>>
        /\ LET c == [call[m] EXCEPT !.told = Quiet, !.chain = route]
               n == IF Len(route) < MaxPlanners THEN Len(route) ELSE MaxPlanners
           IN  IF Len(route) > 1 /\ c.kind = "verification"
               THEN Becomes(m, [c EXCEPT !.pc = "walking", !.chain = <<route[2]>>, !.alone = TRUE])
               ELSE IF Len(route) > 1 /\ c.stakes
               THEN Becomes(m, [c EXCEPT !.pc = "planning", !.planners = {route[i] : i \in 1 .. n}])
               ELSE Becomes(m, [c EXCEPT !.pc = "routing", !.chain = call[m].chain,
                                         !.told = call[m].told])
  BY DEF Select
<1>2. PICK route \in Routes(m, cat[1], cat[2]) :
        LET c == [call[m] EXCEPT !.told = Quiet, !.chain = route]
            n == IF Len(route) < MaxPlanners THEN Len(route) ELSE MaxPlanners
        IN  IF Len(route) > 1 /\ c.kind = "verification"
            THEN Becomes(m, [c EXCEPT !.pc = "walking", !.chain = <<route[2]>>, !.alone = TRUE])
            ELSE IF Len(route) > 1 /\ c.stakes
            THEN Becomes(m, [c EXCEPT !.pc = "planning", !.planners = {route[i] : i \in 1 .. n}])
            ELSE Becomes(m, [c EXCEPT !.pc = "routing", !.chain = call[m].chain,
                                      !.told = call[m].told])
  BY <1>1
<1> DEFINE n == IF Len(route) < MaxPlanners THEN Len(route) ELSE MaxPlanners
           c == [call[m] EXCEPT !.told = Quiet, !.chain = route]
           walk == [c EXCEPT !.pc = "walking", !.chain = <<route[2]>>, !.alone = TRUE]
           plan == [c EXCEPT !.pc = "planning", !.planners = {route[i] : i \in 1 .. n}]
           rest == [c EXCEPT !.pc = "routing", !.chain = call[m].chain, !.told = call[m].told]
<1>3. cat[2] \in SUBSET P
  BY DEF Catalogs
<1>4. /\ route \in Seq(P) /\ Len(route) \in Nat /\ DOMAIN route = 1 .. Len(route)
      /\ \A i \in DOMAIN route : route[i] \in P
      /\ m \in private => \A i \in DOMAIN route : Local(route[i])
  BY <1>3, RouteTypes
<1>5. c \in CallShape /\ c.told = Quiet /\ c.chain = route /\ c.planners = call[m].planners
  BY <1>4, OfCall DEF CallShape, Quiet, Told
<1>6. AuthorizeStart(m) /\ UNCHANGED <<private, spent, history>>
  BY OfCall DEF Select, AuthorizedCall
<1>7. ASSUME Len(route) > 1 PROVE SoundCall(m, walk)
  <2>1. 2 \in DOMAIN route /\ route[2] \in P
    BY <1>4, <1>7
  <2>2. /\ walk \in CallShape /\ walk.pc = "walking" /\ walk.told = Quiet
        /\ walk.planners = call[m].planners
        /\ walk.chain = <<route[2]>>
    <3>1. walk = Chooses(c, route[2])
      BY DEF Chooses
    <3> HIDE DEF c, walk
    <3> QED BY <1>5, <2>1, <3>1, ChoosesShape
  <2>3. Len(walk.chain) = 1 /\ DOMAIN walk.chain = {1} /\ walk.chain[1] = route[2]
    <3> HIDE DEF walk
    <3> QED BY <2>2
  <2> HIDE DEF walk
  <2>4. LocalCall(m, walk)
    BY <1>4, <2>1, <2>2, <2>3, OfCall DEF LocalCall, Quiet
  <2>5. WalkedCall(walk)
    BY <2>1, <2>2, <2>3 DEF WalkedCall, Quiet
  <2> QED BY <1>6, <2>2, <2>4, <2>5 DEF SoundCall, AuthorizedCall
<1>8. SoundCall(m, plan)
  <2>1. n \in Nat /\ n <= Len(route)
    BY <1>4, CallsAssumption
  <2>2. \A i \in 1 .. n : i \in DOMAIN route
    BY <1>4, <2>1
  <2>3. {route[i] : i \in 1 .. n} \subseteq P
    BY <1>4, <2>2
  <2>4. /\ plan \in CallShape /\ plan.pc = "planning" /\ plan.told = Quiet
        /\ plan.chain = route /\ plan.planners = {route[i] : i \in 1 .. n}
    <3>1. "planning" \in Places
      BY DEF Places
    <3>2. plan = Plans(c, "planning", {route[i] : i \in 1 .. n})
      BY DEF Plans
    <3> HIDE DEF c, n, plan
    <3> QED BY <1>5, <2>3, <3>1, <3>2, PlansShape
  <2> HIDE DEF plan, n
  <2>5. LocalCall(m, plan)
    BY <1>4, <2>2, <2>4 DEF LocalCall, Quiet
  <2> QED BY <1>6, <2>4, <2>5 DEF SoundCall, WalkedCall, AuthorizedCall
<1>9. SoundCall(m, rest)
  <2>1. /\ rest \in CallShape /\ rest.pc = "routing" /\ rest.told = call[m].told
        /\ rest.chain = call[m].chain /\ rest.planners = call[m].planners
    <3>1. /\ "routing" \in Places /\ call[m].told \in [P -> Told] /\ call[m].chain \in Seq(P)
      BY OfCall DEF Places, CallShape
    <3>2. rest = Follows(c, "routing", call[m].chain, call[m].told)
      BY DEF Follows
    <3> HIDE DEF c, rest
    <3> QED BY <1>5, <3>1, <3>2, OfCall, FollowsShape
  <2> HIDE DEF rest
  <2> QED BY <1>6, <2>1, OfCall, CalmSound
<1>10. (Len(route) > 1 /\ Becomes(m, walk)) \/ Becomes(m, plan) \/ Becomes(m, rest)
  BY <1>2
<1> HIDE DEF walk, plan, rest
<1> QED BY <1>6, <1>7, <1>8, <1>9, <1>10, StepFrame, OfCall

-----------------------------------------------------------------------------
(* Asking *)

\* Whose turn it is has not been skipped over, and does not break privacy.
LEMMA TurnTypes ==
  ASSUME CallInvariant, NEW m \in Missions, NEW p \in Turn(m)
  PROVE  /\ p \in P
         /\ m \in private => Local(p)
         /\ call[m].pc \in {"walking", "planning", "over"}
         /\ call[m].pc = "walking" =>
              \E i \in DOMAIN call[m].chain :
                /\ p = call[m].chain[i]
                /\ \A j \in DOMAIN call[m].chain :
                     j < i => call[m].told[call[m].chain[j]] \notin {"no", "asked"}
<1> DEFINE c == call[m]
<1>1. c \in CallShape /\ LocalCall(m, c)
  BY OfCall
<1>2. c.chain \in Seq(P) /\ c.planners \subseteq P
  BY <1>1 DEF CallShape
<1>3. DOMAIN c.chain = 1 .. Len(c.chain) /\ Len(c.chain) \in Nat
      /\ \A i \in DOMAIN c.chain : c.chain[i] \in P
  BY <1>2
<1>4. CASE c.pc = "walking"
  <2>1. PICK i \in DOMAIN c.chain : /\ p = c.chain[i]
                                    /\ \A j \in 1 .. i - 1 : c.told[c.chain[j]] \notin {"no", "asked"}
    BY <1>4 DEF Turn
  <2>2. \A j \in DOMAIN c.chain : j < i => j \in 1 .. i - 1
    BY <1>3
  <2> QED BY <1>1, <1>3, <1>4, <2>1, <2>2 DEF LocalCall
<1>5. CASE c.pc # "walking"
  <2>1. p \in c.planners /\ c.pc \in {"planning", "over"}
    BY <1>5 DEF Turn
  <2> QED BY <1>1, <1>2, <1>5, <2>1 DEF LocalCall
<1> QED BY <1>4, <1>5

\* What is told of the one whose turn it is keeps the order of the chain.
LEMMA TellsTypes ==
  ASSUME CallInvariant, NEW m \in Missions, NEW p \in Turn(m),
         call[m].told[p] \in {"no", "asked"}, NEW what \in Told
  PROVE  /\ Tells(m, p, what) \in CallShape
         /\ Tells(m, p, what).pc = call[m].pc
         /\ LocalCall(m, Tells(m, p, what))
         /\ AuthorizedCall(m, Tells(m, p, what))
         /\ call[m].pc = "walking" =>
              \A i, j \in DOMAIN Tells(m, p, what).chain : i < j =>
                /\ Tells(m, p, what).chain[i] # Tells(m, p, what).chain[j]
                /\ Tells(m, p, what).told[Tells(m, p, what).chain[j]] \notin {"no", "skipped"} =>
                     Tells(m, p, what).told[Tells(m, p, what).chain[i]] \in {"skipped", "provider_outage"}
         /\ what \in {"skipped", "asked", "provider_outage"} => WalkedCall(Tells(m, p, what))
<1> DEFINE old == call[m]
           c == Tells(m, p, what)
<1>1. old \in CallShape /\ LocalCall(m, old) /\ WalkedCall(old) /\ AuthorizedCall(m, old)
  BY OfCall
<1>2. p \in P /\ (m \in private => Local(p)) /\ old.pc \in {"walking", "planning", "over"}
  BY TurnTypes
<1>3. /\ c \in CallShape /\ c.pc = old.pc /\ c.chain = old.chain
      /\ c.planners = old.planners /\ c.told = [old.told EXCEPT ![p] = what]
  <2>1. c = TellsOne(old, p, what)
    BY DEF Tells, TellsOne
  <2> HIDE DEF c, old
  <2> QED BY <1>1, <1>2, <2>1, TellsOneShape
<1>4. old.told \in [P -> Told] /\ old.chain \in Seq(P)
  BY <1>1 DEF CallShape
<1>5. DOMAIN old.chain = 1 .. Len(old.chain) /\ Len(old.chain) \in Nat
      /\ \A i \in DOMAIN old.chain : old.chain[i] \in P
  BY <1>4
<1>6. \A q \in P : c.told[q] = IF q = p THEN what ELSE old.told[q]
  BY <1>2, <1>3, <1>4
<1>6a. old.told[p] \in {"no", "asked"}
  OBVIOUS
<1>6b. old.pc = "walking" =>
         \E i \in DOMAIN old.chain :
           /\ p = old.chain[i]
           /\ \A j \in DOMAIN old.chain : j < i => old.told[old.chain[j]] \notin {"no", "asked"}
  BY TurnTypes
<1> HIDE DEF c, old
<1>7. LocalCall(m, c)
  BY <1>1, <1>2, <1>3, <1>6 DEF LocalCall
<1>8. AuthorizedCall(m, c)
  BY <1>1, <1>3 DEF AuthorizedCall
<1>9. ASSUME old.pc = "walking", NEW i \in DOMAIN c.chain, NEW j \in DOMAIN c.chain, i < j
      PROVE  /\ c.chain[i] # c.chain[j]
             /\ c.told[c.chain[j]] \notin {"no", "skipped"} =>
                  c.told[c.chain[i]] \in {"skipped", "provider_outage"}
  <2>1. i \in DOMAIN old.chain /\ j \in DOMAIN old.chain
        /\ c.chain[i] = old.chain[i] /\ c.chain[j] = old.chain[j]
    BY <1>3
  <2>2. old.chain[i] # old.chain[j]
        /\ (old.told[old.chain[j]] \notin {"no", "skipped"} =>
              old.told[old.chain[i]] \in {"skipped", "provider_outage"})
    BY <1>1, <1>9, <2>1 DEF WalkedCall
  <2>3. old.told[old.chain[i]] \in {"no", "skipped", "asked", "provider_outage"}
    BY <1>1, <1>9, <2>1 DEF WalkedCall
  <2>4. c.told[old.chain[i]] = (IF old.chain[i] = p THEN what ELSE old.told[old.chain[i]])
        /\ c.told[old.chain[j]] = (IF old.chain[j] = p THEN what ELSE old.told[old.chain[j]])
    BY <1>5, <1>6, <2>1
  <2>5. CASE old.chain[j] = p
    <3>1. PICK k \in DOMAIN old.chain :
            /\ p = old.chain[k]
            /\ \A l \in DOMAIN old.chain : l < k => old.told[old.chain[l]] \notin {"no", "asked"}
      BY <1>6b, <1>9
    <3>2. k = j
      <4>1. k \in Nat /\ j \in Nat
        BY <1>5, <2>1, <3>1
      <4>2. ~(k < j) /\ ~(j < k)
        BY <1>1, <1>9, <2>1, <2>5, <3>1 DEF WalkedCall
      <4> QED BY <4>1, <4>2
    <3>3. old.told[old.chain[i]] \notin {"no", "asked"}
      BY <1>9, <2>1, <3>1, <3>2
    <3> QED BY <2>1, <2>2, <2>3, <2>4, <2>5, <3>3
  <2>6. CASE old.chain[i] = p
    <3>1. old.told[old.chain[j]] \in {"no", "skipped"}
      BY <1>6a, <2>2, <2>6
    <3> QED BY <2>1, <2>2, <2>4, <2>6, <3>1
  <2>7. CASE old.chain[i] # p /\ old.chain[j] # p
    BY <2>1, <2>2, <2>4, <2>7
  <2> QED BY <2>5, <2>6, <2>7
<1>10. ASSUME what \in {"skipped", "asked", "provider_outage"} PROVE WalkedCall(c)
  <2>1. c.pc = "walking" => \A i \in DOMAIN c.chain :
          c.told[c.chain[i]] \in {"no", "skipped", "asked", "provider_outage"}
    BY <1>1, <1>3, <1>5, <1>6, <1>10 DEF WalkedCall
  <2>2. c.pc # "charging"
    BY <1>2, <1>3
  <2> QED BY <1>3, <1>9, <2>1, <2>2 DEF WalkedCall
<1> QED BY <1>3, <1>7, <1>8, <1>9, <1>10 DEF c, old

\* A provider is asked, or skipped.
LEMMA AskStep ==
  ASSUME CallInvariant, NEW m \in Missions, NEW p \in P, Ask(m, p) \/ Skip(m, p)
  PROVE  CallInvariant'
<1>1. PICK what \in {"asked", "skipped"} : Becomes(m, Tells(m, p, what))
  BY DEF Ask, Skip
<1>2. p \in Turn(m) /\ call[m].told[p] \in {"no", "asked"}
      /\ UNCHANGED <<private, spent, history>>
  BY DEF Ask, Skip
<1>3. what \in Told
  BY DEF Told
<1>4. SoundCall(m, Tells(m, p, what))
  BY <1>2, <1>3, TellsTypes DEF SoundCall
<1> QED BY <1>1, <1>2, <1>4, StepFrame, OfCall

\* What a reply does to the history, and what may be told of it.
LEMMA ReplyTypes ==
  ASSUME CallInvariant, NEW m \in Missions, NEW p \in P, NEW reply \in ReplyKinds,
         history' = IF Complete(Provider[p], reply) = "unclassified" THEN history
                    ELSE Recorded(p, Complete(Provider[p], reply) = "answer")
  PROVE  /\ history' \in [P -> Seq(BOOLEAN)]
         /\ Judged(m, Complete(Provider[p], reply)) \subseteq Told
<1>1. Complete(Provider[p], reply) \in Outcomes
  BY OutcomeTypes
<1>2. Judged(m, Complete(Provider[p], reply)) \subseteq Outcomes
  BY <1>1, JudgedTypes
<1>3. (Complete(Provider[p], reply) = "answer") \in BOOLEAN
  OBVIOUS
<1>4. Recorded(p, Complete(Provider[p], reply) = "answer") \in [P -> Seq(BOOLEAN)]
  BY <1>3, RecordedTypes
<1> QED BY <1>2, <1>4, OfCall DEF Told

\* The walk, or the verifier, is answered.
LEMMA ReplyStep ==
  ASSUME CallInvariant, NEW m \in Missions, NEW p \in P, NEW reply \in ReplyKinds,
         Reply(m, p, reply)
  PROVE  CallInvariant'
<1>1. PICK told \in Judged(m, Complete(Provider[p], reply)) :
        LET c == Tells(m, p, told)
        IN  IF told = "answer" THEN Becomes(m, [c EXCEPT !.pc = "charging", !.bill = @ + 1])
            ELSE IF FailsOver(told) THEN Becomes(m, c)
            ELSE Raises(m, told, c)
  BY DEF Reply
<1>2. p \in Turn(m) /\ call[m].told[p] \in {"no", "asked"} /\ call[m].pc = "walking"
      /\ UNCHANGED <<private, spent>>
  BY DEF Reply
<1>3. history' \in [P -> Seq(BOOLEAN)] /\ told \in Told
  BY ReplyTypes DEF Reply
<1>4. AuthorizeStart(m)
  BY <1>2, OfCall DEF AuthorizedCall
<1> DEFINE c == Tells(m, p, told)
<1>5. c \in CallShape /\ LocalCall(m, c) /\ AuthorizedCall(m, c)
  BY <1>2, <1>3, TellsTypes
<1>6. CASE told = "answer"
  <2>1. Becomes(m, Answers(c))
    BY <1>1, <1>6 DEF Answers
  <2>2. \A i, j \in DOMAIN c.chain : i < j =>
          /\ c.chain[i] # c.chain[j]
          /\ c.told[c.chain[j]] \notin {"no", "skipped"} =>
               c.told[c.chain[i]] \in {"skipped", "provider_outage"}
    BY <1>2, <1>3, TellsTypes
  <2> HIDE DEF c
  <2>3. SoundCall(m, Answers(c))
    BY <1>4, <1>5, <2>2, AnswersShape DEF SoundCall, LocalCall, WalkedCall, AuthorizedCall
  <2> QED BY <1>2, <1>3, <2>1, <2>3, StepFrame
<1>7. CASE told # "answer" /\ FailsOver(told)
  <2>1. Becomes(m, c)
    BY <1>1, <1>7
  <2>2. SoundCall(m, c)
    BY <1>2, <1>3, <1>7, TellsTypes DEF FailsOver, SoundCall
  <2> HIDE DEF c
  <2> QED BY <1>2, <1>3, <2>1, <2>2, StepFrame
<1>8. CASE told # "answer" /\ ~FailsOver(told)
  <2>1. Raises(m, told, c)
    BY <1>1, <1>8
  <2> HIDE DEF c
  <2> QED BY <1>2, <1>3, <1>4, <1>5, <2>1, RaisesStep
<1> QED BY <1>6, <1>7, <1>8

\* A planner answers, perhaps when the call has ended.
LEMMA PlannerReplyStep ==
  ASSUME CallInvariant, NEW m \in Missions, NEW p \in P, NEW reply \in ReplyKinds,
         PlannerReply(m, p, reply)
  PROVE  CallInvariant'
<1>1. PICK told \in Judged(m, Complete(Provider[p], reply)) :
        IF told = "unclassified" THEN Raises(m, told, Tells(m, p, told))
        ELSE Becomes(m, Tells(m, p, told))
  BY DEF PlannerReply
<1>2. call[m].pc \in {"planning", "over"} /\ call[m].told[p] \in {"no", "asked"}
      /\ p \in call[m].planners /\ UNCHANGED <<private, spent>>
  BY DEF PlannerReply
<1>3. p \in Turn(m)
  BY <1>2 DEF Turn
<1>4. history' \in [P -> Seq(BOOLEAN)] /\ told \in Told
  BY ReplyTypes DEF PlannerReply
<1> DEFINE c == Tells(m, p, told)
<1>5. /\ c \in CallShape /\ c.pc = call[m].pc /\ LocalCall(m, c) /\ AuthorizedCall(m, c)
  BY <1>2, <1>3, <1>4, TellsTypes
<1> HIDE DEF c
<1>6. CASE told = "unclassified"
  <2>1. Raises(m, told, c) /\ told \notin Retryable
    BY <1>1, <1>6 DEF c, Retryable
  <2> QED BY <1>2, <1>4, <1>5, <2>1, RaisesStep
<1>7. CASE told # "unclassified"
  <2>1. Becomes(m, c)
    BY <1>1, <1>7 DEF c
  <2>2. SoundCall(m, c)
    BY <1>2, <1>5 DEF SoundCall, WalkedCall
  <2> QED BY <1>2, <1>4, <2>1, <2>2, StepFrame
<1> QED BY <1>6, <1>7

\* The chain is at its end, or the planners are through.
LEMMA RoundStep ==
  ASSUME CallInvariant, NEW m \in Missions, NobodyAnswered(m) \/ Gathered(m)
  PROVE  CallInvariant'
<1>1. AuthorizeStart(m) /\ UNCHANGED <<private, spent, history>>
  BY OfCall DEF NobodyAnswered, Gathered, AuthorizedCall
<1>2. ASSUME NEW class, Raises(m, class, call[m]) PROVE CallInvariant'
  BY <1>1, <1>2, RaisesStep, OfCall
<1>3. CASE NobodyAnswered(m)
  BY <1>2, <1>3 DEF NobodyAnswered
<1>4. CASE Gathered(m)
  <2> DEFINE proposed == {p \in call[m].planners : call[m].told[p] = "answer"}
             c == Bills(call[m], "routing", {}, Cardinality(proposed))
  <2>1. (\E class : Raises(m, class, call[m])) \/ Becomes(m, c)
    BY <1>4 DEF Gathered, Bills
  <2>2. Cardinality(proposed) \in Nat /\ "routing" \in Places
    <3>1. proposed \in SUBSET P
      BY OfCall DEF CallShape
    <3> QED BY <3>1, ProvidersFinite DEF Places
  <2> HIDE DEF proposed
  <2>3. /\ c \in CallShape /\ c.pc = "routing" /\ c.chain = call[m].chain /\ c.planners = {}
        /\ c.told = call[m].told
    BY <2>2, OfCall, BillsShape
  <2> HIDE DEF c
  <2>4. SoundCall(m, c)
    BY <1>1, <2>3, OfCall, CalmSound
  <2>5. CASE Becomes(m, c)
    BY <1>1, <2>4, <2>5, StepFrame, OfCall
  <2> QED BY <1>2, <2>1, <2>5
<1> QED BY <1>3, <1>4

\* A call is charged to its own mission, which is at rest afterwards.
LEMMA ChargeStep ==
  ASSUME CallInvariant, NEW m \in Missions, Charge(m)
  PROVE  /\ CallInvariant'
         /\ \A n \in Missions : spent'[n] # spent[n] =>
              /\ n = m /\ spent'[n] = spent[n] + Price * call[n].bill
              /\ spent'[n] > Budget => call'[n].pc = "over"
<1> DEFINE total == spent[m] + Price * call[m].bill
<1>1. total \in Nat
  <2>1. Price \in Nat /\ call[m].bill \in Nat /\ spent[m] \in Nat
    BY CallsAssumption, OfCall DEF CallShape
  <2> QED BY <2>1
<1>2. PICK pc \in {"idle", "over"} :
        /\ Becomes(m, Resting(pc))
        /\ \/ UNCHANGED spent
           \/ spent' = [spent EXCEPT ![m] = total] /\ (total > Budget => pc = "over")
  BY DEF Charge
<1> HIDE DEF total
<1>3. UNCHANGED <<private, history>>
  BY DEF Charge
<1>4. /\ Resting(pc) \in CallShape /\ Resting(pc).pc = pc /\ Resting(pc).chain = <<>>
      /\ Resting(pc).planners = {} /\ \A p \in P : Resting(pc).told[p] = "no"
  BY RestingShape DEF Places
<1>5. /\ spent' \in [Missions -> Nat]
      /\ \A n \in Missions : n # m => spent'[n] = spent[n]
      /\ spent'[m] # spent[m] => spent'[m] = total /\ (total > Budget => pc = "over")
  BY <1>1, <1>2 DEF CallInvariant
<1>6. /\ call' \in [Missions -> CallShape]
      /\ \A n \in Missions : call'[n] = IF n = m THEN Resting(pc) ELSE call[n]
  BY <1>2, <1>4 DEF Becomes, CallInvariant
<1>7. ASSUME NEW n \in Missions PROVE SoundCall(n, call[n])'
  <2>1. CASE n # m
    <3>1. SoundCall(n, call[n]) /\ call'[n] = call[n] /\ spent'[n] = spent[n]
      BY <1>5, <1>6, <2>1 DEF CallInvariant
    <3> QED BY <1>3, <3>1, SoundStays
  <2>2. CASE n = m
    <3>1. call'[n] = Resting(pc)
      BY <1>6, <2>2
    <3>2. LocalCall(m, Resting(pc))'
      BY <1>3, <1>4 DEF LocalCall
    <3>3. WalkedCall(Resting(pc)) /\ AuthorizedCall(m, Resting(pc))'
      BY <1>4 DEF WalkedCall, AuthorizedCall
    <3> QED BY <1>4, <2>2, <3>1, <3>2, <3>3 DEF SoundCall
  <2> QED BY <2>1, <2>2
<1>8. CallInvariant'
  BY <1>3, <1>5, <1>6, <1>7 DEF CallInvariant
<1>9. \A n \in Missions : spent'[n] # spent[n] =>
        /\ n = m /\ spent'[n] = spent[n] + Price * call[n].bill
        /\ spent'[n] > Budget => call'[n].pc = "over"
  BY <1>4, <1>5, <1>6 DEF total
<1> QED BY <1>8, <1>9

-----------------------------------------------------------------------------
(* The theorems *)

LEMMA CallInvariantInit == Init => CallInvariant
<1> SUFFICES ASSUME Init PROVE CallInvariant
  OBVIOUS
<1>1. "idle" \in Places
  BY DEF Places
<1>2. /\ spent = [m \in Missions |-> 0] /\ call = [m \in Missions |-> Resting("idle")]
      /\ history = [p \in P |-> <<>>] /\ private \subseteq Missions
  BY DEF Init
<1>3. \A m \in Missions : SoundCall(m, call[m])
  <2> TAKE m \in Missions
  <2>1. call[m] = Resting("idle")
    BY <1>2
  <2>2. Resting("idle") \in CallShape /\ Resting("idle").pc = "idle"
        /\ Resting("idle").chain = <<>> /\ Resting("idle").planners = {}
        /\ \A p \in P : Resting("idle").told[p] = "no"
    BY <1>1, RestingShape
  <2>3. LocalCall(m, Resting("idle"))
    BY <2>2 DEF LocalCall
  <2> QED BY <2>1, <2>2, <2>3, CalmSound DEF AuthorizedCall
<1>4. call \in [Missions -> CallShape] /\ history \in [P -> Seq(BOOLEAN)]
  BY <1>1, <1>2, RestingShape
<1> QED BY <1>2, <1>3, <1>4 DEF CallInvariant

LEMMA CallInvariantStep == CallInvariant /\ [Next]_vars => CallInvariant'
<1> SUFFICES ASSUME CallInvariant, [Next]_vars PROVE CallInvariant'
  OBVIOUS
<1>1. CASE UNCHANGED vars
  <2>1. UNCHANGED <<private, spent, call, history>>
    BY <1>1 DEF vars
  <2>2. \A m \in Missions : SoundCall(m, call[m])'
    <3> TAKE m \in Missions
    <3>1. SoundCall(m, call[m])
      BY DEF CallInvariant
    <3> QED BY <2>1, <3>1, SoundStays
  <2> QED BY <2>1, <2>2 DEF CallInvariant
<1>2. CASE Next
  <2>1. PICK m \in Missions :
          \/ \E kind \in Kinds, stakes \in BOOLEAN : Begin(m, kind, stakes)
          \/ CallStep(m)
          \/ Cancel(m)
    BY <1>2 DEF Next
  <2>2. CASE \E kind \in Kinds, stakes \in BOOLEAN : Begin(m, kind, stakes)
    BY <2>2, BeginStep
  <2>3. CASE CallStep(m)
    <3>1. CASE Retry(m) \/ NoRoute(m)
      BY <3>1, RestartStep
    <3>2. CASE Select(m)
      BY <3>2, SelectStep
    <3>3. CASE Route(m)
      BY <3>3, RouteStep
    <3>4. CASE NobodyAnswered(m) \/ Gathered(m)
      BY <3>4, RoundStep
    <3>5. CASE Charge(m)
      BY <3>5, ChargeStep
    <3>6. CASE \E p \in P : Ask(m, p) \/ Skip(m, p)
      BY <3>6, AskStep
    <3>7. CASE \E p \in P, reply \in ReplyKinds : Reply(m, p, reply) \/ PlannerReply(m, p, reply)
      BY <3>7, ReplyStep, PlannerReplyStep
    <3> QED BY <2>3, <3>1, <3>2, <3>3, <3>4, <3>5, <3>6, <3>7 DEF CallStep
  <2>4. CASE Cancel(m)
    BY <2>4, RestartStep
  <2> QED BY <2>1, <2>2, <2>3, <2>4
<1> QED BY <1>1, <1>2

\* Every call in progress was authorized, walks its chain in order, and keeps privacy.
THEOREM CallsSound == Spec => []CallInvariant
BY CallInvariantInit, CallInvariantStep, PTL DEF Spec

\* No provider that is not local ever sees a "local_only" mission's prompt: not as planner,
\* judge, verifier, fallback or retry, whatever the registry (router.py:175).
THEOREM LocalOnlyStaysLocalHolds == Spec => []LocalOnlyStaysLocal
<1>1. CallInvariant => LocalOnlyStaysLocal
  BY DEF CallInvariant, SoundCall, LocalCall, LocalOnlyStaysLocal
<1> QED BY <1>1, CallsSound, PTL

\* The next of a route sees the prompt only when all before it are down (providers.py:135).
THEOREM FailoverOnlyAfterOutageHolds == Spec => []FailoverOnlyAfterOutage
<1>1. CallInvariant => FailoverOnlyAfterOutage
  BY DEF CallInvariant, SoundCall, WalkedCall, FailoverOnlyAfterOutage
<1> QED BY <1>1, CallsSound, PTL

\* Beyond its budget a mission is charged for one call at most (resources.py:269).
THEOREM OverspendsByOneCallHolds == Spec => OverspendsByOneCall
<1> DEFINE A == \A m \in Missions : spent'[m] > spent[m] =>
                  /\ spent[m] < Budget \/ spent[m] = 0
                  /\ spent'[m] > Budget => call'[m].pc = "over"
<1>1. ASSUME CallInvariant, [Next]_vars PROVE [A]_vars
  <2>1. CASE UNCHANGED spent
    <3>1. \A m \in Missions : spent[m] \in Nat
      BY <1>1 DEF CallInvariant
    <3> QED BY <2>1, <3>1
  <2>2. CASE \E m \in Missions : Charge(m)
    <3>1. PICK m \in Missions : Charge(m)
      BY <2>2
    <3>2. AuthorizeStart(m)
      BY <1>1, <3>1, OfCall DEF Charge, AuthorizedCall
    <3>3. \A n \in Missions : spent[n] \in Nat
      BY <1>1 DEF CallInvariant
    <3>4. \A n \in Missions : spent'[n] # spent[n] => n = m /\ (spent'[n] > Budget => call'[n].pc = "over")
      BY <1>1, <3>1, ChargeStep
    <3>5. \A n \in Missions : spent'[n] > spent[n] => spent'[n] # spent[n]
      BY <3>3
    <3> QED BY <3>2, <3>4, <3>5 DEF AuthorizeStart
  <2>3. UNCHANGED spent \/ \E m \in Missions : Charge(m)
    <3>1. ASSUME NEW m \in Missions, CallStep(m) PROVE UNCHANGED spent \/ Charge(m)
      <4>1. CASE Retry(m) \/ NoRoute(m) \/ Select(m) \/ Route(m) \/ NobodyAnswered(m) \/ Gathered(m)
        BY <4>1 DEF Retry, NoRoute, Select, Route, NobodyAnswered, Gathered
      <4>2. CASE \E p \in P : Ask(m, p) \/ Skip(m, p)
        BY <4>2 DEF Ask, Skip
      <4>3. CASE \E p \in P, reply \in ReplyKinds : Reply(m, p, reply) \/ PlannerReply(m, p, reply)
        BY <4>3 DEF Reply, PlannerReply
      <4> QED BY <3>1, <4>1, <4>2, <4>3 DEF CallStep
    <3>2. ASSUME NEW m \in Missions,
                 Cancel(m) \/ \E kind \in Kinds, stakes \in BOOLEAN : Begin(m, kind, stakes)
          PROVE  UNCHANGED spent
      BY <3>2 DEF Begin, Cancel
    <3> QED BY <1>1, <3>1, <3>2 DEF Next, vars
  <2> QED BY <2>1, <2>2, <2>3
<1> QED BY <1>1, CallsSound, PTL DEF Spec, OverspendsByOneCall
=============================================================================
