-------------------------- MODULE MCProcessMonitor --------------------------
\* Instances of ProcessMonitor for TLC.
EXTENDS ProcessMonitor, TLC

Symmetry == Permutations(Names)
=============================================================================
