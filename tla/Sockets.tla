------------------------------ MODULE Sockets ------------------------------
(***************************************************************************)
(* What the world may rely on from the websocket hub, and all it can see   *)
(* of it (Hub.ConnectedLogins, src/engine/sim/httpapi/hub.go:142-153):     *)
(* while the hub runs, the logins it lists are those of the clients it     *)
(* holds, whatever order clients come, go and are evicted in; once it has  *)
(* stopped the list stands still.  The Hub module implements this one; the *)
(* Presence module is built on it.                                         *)
(***************************************************************************)
EXTENDS Connections

VARIABLES
    held,         \* the clients the hub sends to
    listed,       \* the keys of connectedLogins
    up            \* Hub.Run has not returned

sockets == <<held, listed, up>>

SocketsInit == held = {} /\ listed = {} /\ up = TRUE

\* The hub holds cs from here on, and lists their logins.
Holding(cs) == held' = cs /\ listed' = {LoginOf[c] : c \in cs}

Join(c) == up /\ Holding(held \cup {c}) /\ UNCHANGED up

\* One client that went, or all that were too slow for a frame.
Leave(cs) == up /\ cs \subseteq held /\ Holding(held \ cs) /\ UNCHANGED up

HubEnds == up /\ up' = FALSE /\ held' = {} /\ UNCHANGED listed

SocketsNext ==
    \/ \E c \in Clients : Join(c)
    \/ \E cs \in SUBSET held : Leave(cs)
    \/ HubEnds

SocketsSpec == SocketsInit /\ [][SocketsNext]_sockets
=============================================================================
