--------------------------- MODULE MCReceivePath ---------------------------
EXTENDS ReceivePath

\* Once a client has cut a packet and its session is closed, nothing can become false
\* but InOrder, which ReceivePathProofs shows for these states too: they are checked
\* but not gone on from.
Bounded == \A s \in Sessions : open[s] \/ "split" \notin past[s]
=============================================================================
