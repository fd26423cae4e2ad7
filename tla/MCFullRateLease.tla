--------------------------- MODULE MCFullRateLease ---------------------------
EXTENDS FullRateLease
=============================================================================
