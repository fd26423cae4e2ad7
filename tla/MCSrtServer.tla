--------------------------- MODULE MCSrtServer -----------------------------
EXTENDS SrtServer
=============================================================================
