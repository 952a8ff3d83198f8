------------------------------- MODULE MCAgent ------------------------------
EXTENDS Agent

CONSTANTS t1, t2, g1, g2, g3, bad
=============================================================================
