--------------------------- MODULE MCMemCachePool ---------------------------
\* Instances of MemCachePool for TLC.  Liveness is checked: no symmetry.
EXTENDS MemCachePool
=============================================================================
