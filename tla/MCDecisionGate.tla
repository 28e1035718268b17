--------------------------- MODULE MCDecisionGate ---------------------------
EXTENDS DecisionGate, TLC

CONSTANTS s1, s2

Step(kind, sound, n) == [kind |-> kind, sound |-> sound, n |-> n]
Page == Step("http", TRUE, 1)
File == Step("file", TRUE, 1)
Tests == Step("pytest", TRUE, 1)
Odd == Step("file", FALSE, 2)

Two == {s1, s2}
NamedByTasks == s1 :> {Tests} @@ s2 :> {File}
AllClaims ==
  {NoClaim} \cup
  [blank : {FALSE}, markers : SUBSET Markers, steps : {{}, {Page}, {Page, File}, {Odd}}]
=============================================================================
