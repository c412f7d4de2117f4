-------------------------------- MODULE Hub --------------------------------
(***************************************************************************)
(* The websocket fan-out: handleEvents, the read and write pump of every   *)
(* client, and the one goroutine that owns the client set                  *)
(* (src/engine/sim/httpapi/hub.go, events_handler.go, client.go).          *)
(*                                                                         *)
(* The goroutines meet in four buffered channels -- register, unregister,  *)
(* broadcast and each client's send -- so what one of them has sent the    *)
(* other may see much later, and never in an order fixed between channels. *)
(*                                                                         *)
(* A frame is its target (a login, or All); the content of frames and the  *)
(* delivery counters of the umbilical are left out.  A client is one       *)
(* socket; its name is used again when all its goroutines have ended.      *)
(***************************************************************************)
EXTENDS Naturals, Sequences, FiniteSets, Connections

CONSTANTS
    RegBuffer,        \* regBuffer
    SendBuffer,       \* clientSendBuffer
    BroadcastBuffer   \* broadcastBuffer

All == "all"          \* hubFrame.target = ""

ASSUME HubAssumption ==
    /\ IsFiniteSet(Clients)
    /\ LoginOf \in [Clients -> Logins] /\ All \notin Logins
    /\ {RegBuffer, SendBuffer, BroadcastBuffer} \subseteq Nat \ {0}

VARIABLES
    socket,      \* the connection: none, upgraded (no pump yet), open, closed
    readPump,    \* off, reading, leaving (about to unregister), done
    writePump,   \* off, writing, done
    queued,      \* frames in client.send
    closes,      \* how often client.send was closed
    register,
    unregister,
    broadcast,
    clients,     \* the map of Run
    connectedLogins,
    hub          \* up, or down once Run returned and closed done

hubVars == <<socket, readPump, writePump, queued, closes, register, unregister,
             broadcast, clients, connectedLogins, hub>>
pumps == <<socket, readPump, writePump>>
queues == <<register, unregister, broadcast>>

HubTypeOK ==
    /\ socket \in [Clients -> {"none", "upgraded", "open", "closed"}]
    /\ readPump \in [Clients -> {"off", "reading", "leaving", "done"}]
    /\ writePump \in [Clients -> {"off", "writing", "done"}]
    /\ queued \in [Clients -> 0 .. SendBuffer]
    /\ closes \in [Clients -> Nat]
    /\ register \in Seq(Clients) /\ Len(register) <= RegBuffer
    /\ unregister \in Seq(Clients) /\ Len(unregister) <= RegBuffer
    /\ broadcast \in Seq(Logins \cup {All}) /\ Len(broadcast) <= BroadcastBuffer
    /\ clients \subseteq Clients
    /\ connectedLogins \in [Logins -> 0 .. Cardinality(Clients)]
    /\ hub \in {"up", "down"}

HubInit ==
    /\ socket = [c \in Clients |-> "none"]
    /\ readPump = [c \in Clients |-> "off"]
    /\ writePump = [c \in Clients |-> "off"]
    /\ queued = [c \in Clients |-> 0]
    /\ closes = [c \in Clients |-> 0]
    /\ register = <<>> /\ unregister = <<>> /\ broadcast = <<>>
    /\ clients = {}
    /\ connectedLogins = [l \in Logins |-> 0]
    /\ hub = "up"

(***************************************************************************)
(* handleEvents.                                                           *)
(***************************************************************************)

In(c, q) == \E i \in DOMAIN q : q[i] = c

\* No goroutine of this process knows the client.
Forgotten(c) ==
    /\ socket[c] \in {"none", "closed"}
    /\ readPump[c] \in {"off", "done"} /\ writePump[c] \in {"off", "done"}
    /\ ~In(c, register) /\ ~In(c, unregister) /\ c \notin clients

\* The upgrade; the hub has not shut down; the hello frame is queued.
Upgrade(c) ==
    /\ Forgotten(c) /\ hub = "up"
    /\ socket' = [socket EXCEPT ![c] = "upgraded"]
    /\ readPump' = [readPump EXCEPT ![c] = "off"]
    /\ writePump' = [writePump EXCEPT ![c] = "off"]
    /\ queued' = [queued EXCEPT ![c] = 1]
    /\ closes' = [closes EXCEPT ![c] = 0]
    /\ UNCHANGED <<queues, clients, connectedLogins, hub>>

\* hub.register <- c, then the pumps are started.
Enlist(c) ==
    /\ socket[c] = "upgraded" /\ Len(register) < RegBuffer
    /\ register' = Append(register, c)
    /\ socket' = [socket EXCEPT ![c] = "open"]
    /\ readPump' = [readPump EXCEPT ![c] = "reading"]
    /\ writePump' = [writePump EXCEPT ![c] = "writing"]
    /\ UNCHANGED <<queued, closes, unregister, broadcast, clients, connectedLogins, hub>>

\* The hub is done, or the request's context has ended, which may be at any time.
TurnAway(c) ==
    /\ socket[c] = "upgraded"
    /\ socket' = [socket EXCEPT ![c] = "closed"]
    /\ UNCHANGED <<readPump, writePump, queued, closes, queues, clients, connectedLogins, hub>>

(***************************************************************************)
(* The pumps.                                                              *)
(***************************************************************************)

\* The peer closes the socket, or stops answering pings until the read deadline.
PeerGone(c) ==
    /\ socket[c] = "open"
    /\ socket' = [socket EXCEPT ![c] = "closed"]
    /\ UNCHANGED <<readPump, writePump, queued, closes, queues, clients, connectedLogins, hub>>

ReadFails(c) ==
    /\ readPump[c] = "reading" /\ socket[c] = "closed"
    /\ readPump' = [readPump EXCEPT ![c] = "leaving"]
    /\ UNCHANGED <<socket, writePump, queued, closes, queues, clients, connectedLogins, hub>>

\* Mutant: the pump waits for the hub only.
MutUnregister(c) ==
    /\ readPump[c] = "leaving"
    /\ Len(unregister) < RegBuffer
    /\ unregister' = Append(unregister, c)
    /\ readPump' = [readPump EXCEPT ![c] = "done"]
    /\ UNCHANGED <<socket, writePump, queued, closes, register, broadcast,
                   clients, connectedLogins, hub>>

\* hub.unregister <- c, unless the hub is done: either case when both are ready.
Unregister(c) ==
    /\ readPump[c] = "leaving"
    /\ \/ /\ Len(unregister) < RegBuffer
          /\ unregister' = Append(unregister, c)
       \/ /\ hub = "down"
          /\ UNCHANGED unregister
    /\ readPump' = [readPump EXCEPT ![c] = "done"]
    /\ UNCHANGED <<socket, writePump, queued, closes, register, broadcast,
                   clients, connectedLogins, hub>>

WriteFrame(c) ==
    /\ writePump[c] = "writing" /\ queued[c] > 0 /\ socket[c] = "open"
    /\ queued' = [queued EXCEPT ![c] = @ - 1]
    /\ UNCHANGED <<pumps, closes, queues, clients, connectedLogins, hub>>

\* A write or a ping fails, or the send channel is closed and drained: the pump
\* ends and closes the socket.
WritePumpEnds(c) ==
    /\ writePump[c] = "writing"
    /\ socket[c] = "closed" \/ (queued[c] = 0 /\ closes[c] > 0)
    /\ writePump' = [writePump EXCEPT ![c] = "done"]
    /\ socket' = [socket EXCEPT ![c] = "closed"]
    /\ UNCHANGED <<readPump, queued, closes, queues, clients, connectedLogins, hub>>

(***************************************************************************)
(* Handle on the world goroutine, Run on the hub's.                        *)
(***************************************************************************)

\* A full broadcast queue drops the frame: no step.
Handle(target) ==
    /\ hub = "up" /\ Len(broadcast) < BroadcastBuffer
    /\ broadcast' = Append(broadcast, target)
    /\ UNCHANGED <<pumps, queued, closes, register, unregister, clients, connectedLogins, hub>>

Tracked(logins, l) == [logins EXCEPT ![l] = @ + 1]

Holders(cs, l) == Cardinality({c \in cs : LoginOf[c] = l})

\* Mutant: the entry goes with the first socket.
MutUntracked(logins, cs) == [l \in Logins |-> IF Holders(cs, l) > 0 THEN 0 ELSE logins[l]]

\* untrackLogin for every client of cs: the entry is deleted with its last socket.
Untracked(logins, cs) ==
    [l \in Logins |-> IF Holders(cs, l) >= logins[l] THEN 0 ELSE logins[l] - Holders(cs, l)]

Admit ==
    /\ hub = "up" /\ register # <<>>
    /\ clients' = clients \cup {Head(register)}
    /\ connectedLogins' = Tracked(connectedLogins, LoginOf[Head(register)])
    /\ register' = Tail(register)
    /\ UNCHANGED <<pumps, queued, closes, unregister, broadcast, hub>>

\* Guarded by membership, so an evicted client is not closed twice.
Dismiss ==
    /\ hub = "up" /\ unregister # <<>>
    /\ unregister' = Tail(unregister)
    /\ LET c == Head(unregister) IN
       IF c \in clients
       THEN /\ clients' = clients \ {c}
            /\ closes' = [closes EXCEPT ![c] = @ + 1]
            /\ connectedLogins' = Untracked(connectedLogins, {c})
       ELSE UNCHANGED <<clients, closes, connectedLogins>>
    /\ UNCHANGED <<pumps, queued, register, broadcast, hub>>

\* Mutant: an eviction leaves the login counted.
MutBroadcast ==
    /\ hub = "up" /\ broadcast # <<>>
    /\ LET addressed == {c \in clients : Head(broadcast) \in {All, LoginOf[c]}}
           slow == {c \in addressed : queued[c] = SendBuffer}
       IN /\ queued' = [c \in Clients |-> IF c \in addressed \ slow
                                          THEN queued[c] + 1 ELSE queued[c]]
          /\ closes' = [c \in Clients |-> IF c \in slow THEN closes[c] + 1 ELSE closes[c]]
          /\ clients' = clients \ slow
    /\ broadcast' = Tail(broadcast)
    /\ UNCHANGED <<pumps, register, unregister, connectedLogins, hub>>

\* Every addressed client whose queue is full is a slow consumer and evicted.
Broadcast ==
    /\ hub = "up" /\ broadcast # <<>>
    /\ LET addressed == {c \in clients : Head(broadcast) \in {All, LoginOf[c]}}
           slow == {c \in addressed : queued[c] = SendBuffer}
       IN /\ queued' = [c \in Clients |-> IF c \in addressed \ slow
                                          THEN queued[c] + 1 ELSE queued[c]]
          /\ closes' = [c \in Clients |-> IF c \in slow THEN closes[c] + 1 ELSE closes[c]]
          /\ clients' = clients \ slow
          /\ connectedLogins' = Untracked(connectedLogins, slow)
    /\ broadcast' = Tail(broadcast)
    /\ UNCHANGED <<pumps, register, unregister, hub>>

\* ctx is cancelled: close(done), then every client's send.
HubDown ==
    /\ hub = "up"
    /\ hub' = "down"
    /\ closes' = [c \in Clients |-> IF c \in clients THEN closes[c] + 1 ELSE closes[c]]
    /\ clients' = {}
    /\ UNCHANGED <<pumps, queued, queues, connectedLogins>>

PumpStep(c) == ReadFails(c) \/ Unregister(c) \/ WriteFrame(c) \/ WritePumpEnds(c)
HubStep == Admit \/ Dismiss \/ Broadcast

HubNext ==
    \/ \E c \in Clients :
          Upgrade(c) \/ Enlist(c) \/ TurnAway(c) \/ PeerGone(c) \/ PumpStep(c)
    \/ \E target \in Logins \cup {All} : Handle(target)
    \/ HubStep
    \/ HubDown

HubSpec == HubInit /\ [][HubNext]_hubVars

\* The pumps and the hub are goroutines that run whenever they can; the hub's
\* select takes every case that stays ready, and a channel serves the senders that
\* wait for it in turn.  Nobody has to connect, disconnect or emit.
HubFairSpec ==
    /\ HubSpec
    /\ \A c \in Clients :
          /\ WF_hubVars(ReadFails(c)) /\ SF_hubVars(Unregister(c))
          /\ WF_hubVars(WriteFrame(c)) /\ WF_hubVars(WritePumpEnds(c))
    /\ WF_hubVars(Admit) /\ WF_hubVars(Dismiss) /\ WF_hubVars(Broadcast)

(***************************************************************************)
(* What the hub owes its clients and the world.                            *)
(***************************************************************************)

\* A client the hub still sends to has an open channel, and no channel is closed
\* twice: a send on a closed channel, or a second close, would take the process
\* down.  Eviction, the pump's own unregister and the shutdown each close, in any
\* order (hub.go:223-232, 241-248).
OpenWhileListed == \A c \in Clients : closes[c] <= 1 /\ (c \in clients => closes[c] = 0)

\* The refcounts are the clients the hub holds, tab by tab: a player with two
\* tabs stays listed when one of them goes (hub.go:88-93).
RefcountsTrue == hub = "up" => \A l \in Logins : connectedLogins[l] = Holders(clients, l)

\* Channels, clients and refcounts together, over well-typed state.
HubSound == HubTypeOK /\ OpenWhileListed /\ RefcountsTrue

\* The hub is what the presence of players is built on: its clients and the keys
\* of its refcounts, seen from the world, behave as Sockets says (hub.go:142-153).
World == INSTANCE Sockets WITH
    held <- clients,
    listed <- {l \in Logins : connectedLogins[l] > 0},
    up <- hub = "up"

HubIsSockets == World!SocketsSpec

\* A client whose channel was closed, or whose peer went away, loses both its
\* goroutines: also when the hub is gone and nobody reads unregister, and also
\* when it was left in the register buffer, where nobody will close its channel
\* (client.go:46-49, events_handler.go:99-102).
ClosedClientsEnd ==
    \A c \in Clients :
        (closes[c] > 0 \/ socket[c] = "closed")
            ~> (readPump[c] \in {"off", "done"} /\ writePump[c] \in {"off", "done"})

\* Once the hub has dealt with every connect and disconnect it was told of, a
\* login it lists has a socket whose pumps still run: "the set of logins that
\* currently hold at least one live WS client" (hub.go:142-143).
ListedAlive ==
    (hub = "up" /\ register = <<>> /\ unregister = <<>>)
        => \A l \in Logins : connectedLogins[l] > 0
              => \E c \in Clients : LoginOf[c] = l /\ readPump[c] \in {"reading", "leaving"}
=============================================================================
