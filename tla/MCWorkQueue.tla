----------------------------- MODULE MCWorkQueue -----------------------------
EXTENDS WorkQueue, TLC

CONSTANTS o1, o2

MCOwners == {o1, o2}
MCJobs == 1 .. 2
MCKinds == {"agent", "other"}
MCTTLs == {1, 2}
MCRetryDelays == {0, 1}

OwnerSymmetry == Permutations(MCOwners)
==============================================================================
