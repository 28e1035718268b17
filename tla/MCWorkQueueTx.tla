---------------------------- MODULE MCWorkQueueTx ----------------------------
EXTENDS WorkQueueTx, TLC

CONSTANTS o1, o2

MCOwners == {o1, o2}
MCJobs == {1}
MCKinds == {"agent"}
MCTTLs == {1, 2}
MCRetryDelays == {0}

OwnerSymmetry == Permutations(MCOwners)
==============================================================================
