\* The daemon hosts the session again after a crash or a shutdown.
CONSTANT Batches <- MCBatches
SPECIFICATION FairSpec
CHECK_DEADLOCK FALSE
INVARIANTS TypeOK CallsAreSafe
PROPERTIES DecisionsAreFinal EveryCallEnds
