------------------------------- MODULE MCTurn -------------------------------
\* Instances of Turn for TLC: the constants are given by the .cfg files.
EXTENDS Turn
=============================================================================
