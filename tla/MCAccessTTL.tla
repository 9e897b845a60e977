---------------------------- MODULE MCAccessTTL ----------------------------
EXTENDS AccessTTL
=============================================================================
