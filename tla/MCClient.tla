------------------------------ MODULE MCClient ------------------------------
EXTENDS Client

\* Nothing is claimed of what comes after the user has crossed a CoreThread: these
\* states are checked but not gone on from.
Bounded == ~crossed
=============================================================================
