-------------------------- MODULE MCRescanReserver ---------------------------
EXTENDS RescanReserver, TLC

CONSTANTS t1, t2, t3

MCThreads == {t1, t2, t3}

MCSymmetry == Permutations(MCThreads)

=============================================================================
