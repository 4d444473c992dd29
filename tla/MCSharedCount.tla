--------------------------- MODULE MCSharedCount ---------------------------
EXTENDS SharedCount
=============================================================================
