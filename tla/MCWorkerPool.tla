---------------------------- MODULE MCWorkerPool ----------------------------
EXTENDS WorkerPool, TLC

CONSTANTS w1, w2

MCWorkers == {w1, w2}
OneJob == {1}
TwoJobs == 1 .. 2
ReportedOutcomes == {"ok", "error"}
AllOutcomes == {"ok", "error", "TimeoutError"}
==============================================================================
