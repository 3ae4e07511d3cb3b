---------------------------- MODULE MCSyncTokens ----------------------------
\* Instances of SyncTokens for TLC.  Names, transactions and clients are
\* interchangeable.
EXTENDS SyncTokens, TLC

Symmetry == Permutations(Names) \cup Permutations(Txns) \cup Permutations(Clients)
=============================================================================
