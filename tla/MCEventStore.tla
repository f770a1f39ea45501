---------------------------- MODULE MCEventStore ----------------------------
EXTENDS EventStore, TLC
CONSTANTS p1, p2
MCProc == {p1, p2}
MCSymmetry == Permutations(MCProc)
=============================================================================
