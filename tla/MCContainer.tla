---------------------------- MODULE MCContainer ----------------------------
\* ContainerLifecycle on small instances.
EXTENDS ContainerLifecycle, TLC

Symmetry == Permutations(Client)
=============================================================================
