------------------------- MODULE MC_BreakerRecovery -------------------------
EXTENDS BreakerRecovery

MCLevel == 0..100
=============================================================================
