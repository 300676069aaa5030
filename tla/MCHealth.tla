------------------------------ MODULE MCHealth ------------------------------
\* HealthMonitor on small instances.
EXTENDS HealthMonitor, TLC

Symmetry == Permutations(Monitor)
=============================================================================
