-------------------------------- MODULE MCHub --------------------------------
\* Instances of Hub for TLC: two tabs of one player, and a login without one.
EXTENDS Hub
CONSTANTS tab1, tab2, anna, bess
MCHub_LoginOf == [c \in {tab1, tab2} |-> anna]
=============================================================================
