------------------------ MODULE MCImplicitScheduling ------------------------
\* Instance of ImplicitScheduling for TLC.
EXTENDS ImplicitScheduling
=============================================================================
