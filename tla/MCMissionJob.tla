---------------------------- MODULE MCMissionJob ----------------------------
EXTENDS MissionJob, TLC

TwoTasks == 1 .. 2

Scope(n, deaths, disturb) == [tasks |-> 1 .. n, faults |-> deaths, disturbed |-> disturb]

\* Two attempts, or one death or stall, while nobody moves between reads and saves; one
\* attempt where anybody may.
SmallScopes == {Scope(2, 0, FALSE), Scope(1, 1, FALSE), Scope(1, 0, TRUE)}

LateScope == {Scope(1, 1, TRUE)}

BigScope == {Scope(2, 1, FALSE)}

QuietScope == {Scope(2, 0, FALSE)}
=============================================================================
