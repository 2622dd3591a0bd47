\* Three workers: one can serve, one hold a waiting socket and one be free.
CONSTANT NumWorkers = 3
SPECIFICATION FairPoolSpec
INVARIANT BuffersExclusive
INVARIANT NoWorkerLost
INVARIANT HandOffNoticed
PROPERTY HandOffServed
PROPERTY KeepsAccepting
