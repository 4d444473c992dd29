--------------------------- MODULE MCKeyExchange ---------------------------
EXTENDS KeyExchange
=============================================================================
