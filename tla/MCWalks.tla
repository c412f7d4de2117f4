------------------------------ MODULE MCWalks -------------------------------
(* A small place to walk about in: a building's door, the pin before it, a    *)
(* paved way south from the pin, and a rougher way round on the west side.    *)
EXTENDS Walks

CONSTANTS ann, bob, cal

\*   x:  0     1
\*  0         door
\*  1   west  pin
\*  2   rough south
\*  3   turf  lane
MCGrid == [t \in {<<1, 0>>, <<0, 1>>, <<1, 1>>, <<0, 2>>, <<1, 2>>, <<0, 3>>, <<1, 3>>} |->
             IF t[1] = 0 THEN 3 ELSE 1]
MCDoor == <<1, 0>>
MCPin == <<1, 1>>
Ring == <<<<0, 0>>, <<1, 0>>, <<2, 0>>, <<0, 1>>, <<2, 1>>, <<0, 2>>, <<1, 2>>, <<2, 2>>>>
MCSlots == [a \in Actors |-> IF a = ann THEN Ring ELSE SubSeq(Ring, 5, 8) \o SubSeq(Ring, 1, 4)]
MCRank == [a \in Actors |-> CASE a = ann -> 1 [] a = bob -> 2 [] a = cal -> 3]
MCSpots == {<<1, 3>>}
=============================================================================
