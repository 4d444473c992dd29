--------------------------- MODULE MCChannelTick ---------------------------
EXTENDS ChannelTick
=============================================================================
