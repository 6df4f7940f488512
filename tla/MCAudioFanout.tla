--------------------------- MODULE MCAudioFanout ---------------------------
EXTENDS AudioFanout
=============================================================================
