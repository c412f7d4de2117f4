------------------------------ MODULE MCPresence ------------------------------
\* Instances of Presence for TLC: two tabs of one player.
EXTENDS Presence
CONSTANTS tab1, tab2, anna
MCPresence_LoginOf == [c \in {tab1, tab2} |-> anna]
=============================================================================
