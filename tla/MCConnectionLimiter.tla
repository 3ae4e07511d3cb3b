------------------------- MODULE MCConnectionLimiter -------------------------
\* The instance of ConnectionLimiter for TLC.
EXTENDS ConnectionLimiter
=============================================================================
