---------------------------- MODULE ExclusiveJobs ----------------------------
(***************************************************************************)
(* What the work queue promises its callers, with no rows, leases or       *)
(* attempts: a job is open, held by one worker, or done; a holder may lose *)
(* it by letting its lease lapse, and a job that is done stays done.       *)
(* app/queue.py implements it: WorkQueue refines this specification.       *)
(***************************************************************************)
CONSTANTS Owners, Jobs, Nobody

VARIABLES phase,    \* of each job
          holder    \* who may act on it now

Init ==
  /\ phase = [j \in Jobs |-> "none"]
  /\ holder = [j \in Jobs |-> Nobody]

Add(j) ==
  /\ phase[j] = "none"
  /\ phase' = [phase EXCEPT ![j] = "open"]
  /\ UNCHANGED holder

Take(o, j) ==
  /\ phase[j] = "open"
  /\ phase' = [phase EXCEPT ![j] = "held"]
  /\ holder' = [holder EXCEPT ![j] = o]

\* Only the holder's own report ends a tenancy before its lease lapses.
Settle(j, outcome) ==
  /\ phase[j] = "held"
  /\ phase' = [phase EXCEPT ![j] = outcome]
  /\ holder' = [holder EXCEPT ![j] = Nobody]

\* Time passes: any number of leases run out at once.
Lapse(expired) ==
  /\ \A j \in expired : phase[j] = "held"
  /\ phase' = [j \in Jobs |-> IF j \in expired THEN "open" ELSE phase[j]]
  /\ holder' = [j \in Jobs |-> IF j \in expired THEN Nobody ELSE holder[j]]

Next ==
  \/ \E j \in Jobs : Add(j) \/ \E outcome \in {"open", "done"} : Settle(j, outcome)
  \/ \E o \in Owners, j \in Jobs : Take(o, j)
  \/ \E expired \in SUBSET Jobs : Lapse(expired)

Spec == Init /\ [][Next]_<<phase, holder>>

==============================================================================
