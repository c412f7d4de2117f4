---------------------------- MODULE ServerProofs ----------------------------
(***************************************************************************)
(* Proofs about the process and the sockets of its players: Hub, for any   *)
(* number of clients and logins and any length of the channels; Presence,  *)
(* for any number of clients and logins; Engine, for any number of         *)
(* workers, commands and days and any capacity of the queues.              *)
(*                                                                         *)
(* Hub.  No channel is closed twice because a client the hub knows, or is  *)
(* about to be told of, has never been closed: HubInv adds to              *)
(* OpenWhileListed that the register queue names each client once, and     *)
(* only clients that are not yet in the map.  The same invariant makes the *)
(* refcounts exact, and with exact refcounts each step of the hub is a     *)
(* step of Sockets.                                                        *)
(*                                                                         *)
(* Presence.  That a connected player is never judged absent rests on      *)
(* ages: seen of a stamped login is at most the age of the last heartbeat, *)
(* or the login is in the batch a heartbeat is about to stamp; and no      *)
(* heartbeat is later than MaxLate.                                        *)
(*                                                                         *)
(* Engine.  What the stop leaves on disk rests on its order: StagesInv     *)
(* says who is gone at each stage of run, SnapInv where the snapshot       *)
(* command of run stands in the world's queue and that no worker's command *)
(* is behind the one of the last checkpoint.                               *)
(***************************************************************************)
EXTENDS Hub, Presence, Engine, FiniteSetTheorems, TLAPS

-----------------------------------------------------------------------------
\* Hub

USE HubAssumption

----------------------------------------------------------------------------
(* The inductive invariant *)

\* The register queue: each client once, never closed, not yet in the map.
RegisterInv ==
    /\ \A i, j \in DOMAIN register : register[i] = register[j] => i = j
    /\ \A i \in DOMAIN register : register[i] \notin clients /\ closes[register[i]] = 0
    /\ \A c \in Clients : socket[c] = "upgraded" =>
          ~In(c, register) /\ c \notin clients /\ closes[c] = 0

HubInv == HubSound /\ RegisterInv

----------------------------------------------------------------------------
(* Counting the sockets of a login *)

LEMMA HoldersCount ==
    ASSUME NEW cs \in SUBSET Clients, NEW l \in Logins
    PROVE  /\ IsFiniteSet({c \in cs : LoginOf[c] = l})
           /\ Holders(cs, l) \in 0 .. Cardinality(Clients)
           /\ Holders(cs, l) = 0 <=> \A c \in cs : LoginOf[c] # l
<1> DEFINE S == {c \in cs : LoginOf[c] = l}
<1>1. S \in SUBSET Clients
  OBVIOUS
<1>2. IsFiniteSet(S) /\ Cardinality(S) <= Cardinality(Clients)
  BY <1>1, FS_Subset DEF HubAssumption
<1>3. Cardinality(S) \in Nat /\ Cardinality(Clients) \in Nat
  BY <1>2, FS_CardinalityType DEF HubAssumption
<1>4. Cardinality(S) = 0 <=> S = {}
  BY <1>2, FS_EmptySet
<1> QED
  BY <1>2, <1>3, <1>4 DEF Holders

\* A client more is a socket more for its login alone.
LEMMA HoldersJoin ==
    ASSUME NEW cs \in SUBSET Clients, NEW c \in Clients \ cs, NEW l \in Logins
    PROVE  Holders(cs \cup {c}, l) = IF LoginOf[c] = l THEN Holders(cs, l) + 1 ELSE Holders(cs, l)
<1> DEFINE S == {d \in cs : LoginOf[d] = l}
<1>1. IsFiniteSet(S)
  BY HoldersCount
<1>2. CASE LoginOf[c] = l
  <2>1. {d \in cs \cup {c} : LoginOf[d] = l} = S \cup {c}
    BY <1>2
  <2>2. Cardinality(S \cup {c}) = Cardinality(S) + 1
    BY <1>1, FS_AddElement
  <2> QED
    BY <1>2, <2>1, <2>2 DEF Holders
<1>3. CASE LoginOf[c] # l
  <2>1. {d \in cs \cup {c} : LoginOf[d] = l} = S
    BY <1>3
  <2> QED
    BY <1>3, <2>1 DEF Holders
<1> QED
  BY <1>2, <1>3

----------------------------------------------------------------------------
(* The steps *)

LEMMA HubInitial == HubInit => HubInv
<1> SUFFICES ASSUME HubInit PROVE HubInv
  OBVIOUS
<1>1. \A l \in Logins : Holders({}, l) = 0
  BY HoldersCount
<1>2. Cardinality(Clients) \in Nat
  BY FS_CardinalityType DEF HubAssumption
<1>3. HubTypeOK
  BY <1>2 DEF HubInit, HubTypeOK, HubAssumption
<1>4. OpenWhileListed /\ RefcountsTrue
  BY <1>1 DEF HubInit, OpenWhileListed, RefcountsTrue
<1>5. RegisterInv
  BY DEF HubInit, RegisterInv
<1> QED
  BY <1>3, <1>4, <1>5 DEF HubInv, HubSound

\* Steps that touch neither the map, the closes nor the register queue, and
\* upgrade nobody, keep everything but their own types.
LEMMA Outside ==
    ASSUME HubInv, HubTypeOK',
           UNCHANGED <<closes, register, clients, connectedLogins, hub>>,
           \A c \in Clients : socket'[c] = "upgraded" => socket[c] = "upgraded"
    PROVE  HubInv'
<1>1. (OpenWhileListed /\ RefcountsTrue)'
  BY DEF HubInv, HubSound, OpenWhileListed, RefcountsTrue, Holders
<1>2. RegisterInv'
  BY DEF HubInv, RegisterInv, In
<1> QED
  BY <1>1, <1>2 DEF HubInv, HubSound

LEMMA UpgradeKeeps ==
    ASSUME HubInv, NEW c \in Clients, Upgrade(c)
    PROVE  HubInv'
<1> USE DEF HubInv, HubSound
<1>1. HubTypeOK'
  <2>1. 1 \in 0 .. SendBuffer
    BY DEF HubAssumption
  <2>2. /\ socket' \in [Clients -> {"none", "upgraded", "open", "closed"}]
        /\ readPump' \in [Clients -> {"off", "reading", "leaving", "done"}]
        /\ writePump' \in [Clients -> {"off", "writing", "done"}]
        /\ queued' \in [Clients -> 0 .. SendBuffer]
        /\ closes' \in [Clients -> Nat]
    BY <2>1 DEF HubTypeOK, Upgrade
  <2> QED
    BY <2>2 DEF HubTypeOK, Upgrade, queues
<1>2. OpenWhileListed'
  BY DEF HubTypeOK, OpenWhileListed, Upgrade
<1>3. RefcountsTrue'
  BY DEF RefcountsTrue, Upgrade, Holders
<1>4. RegisterInv'
  BY DEF RegisterInv, In, Upgrade, Forgotten, HubTypeOK, queues
<1> QED
  BY <1>1, <1>2, <1>3, <1>4

LEMMA Joined ==
    ASSUME NEW q \in Seq(Clients), NEW c \in Clients
    PROVE  /\ \A i \in DOMAIN q : Append(q, c)[i] = q[i] /\ q[i] \in Clients
           /\ Append(q, c)[Len(q) + 1] = c
           /\ DOMAIN Append(q, c) = DOMAIN q \cup {Len(q) + 1}
OBVIOUS

LEMMA EnlistKeeps ==
    ASSUME HubInv, NEW c \in Clients, Enlist(c)
    PROVE  HubInv'
<1> USE DEF HubInv, HubSound
<1>1. HubTypeOK'
  BY DEF HubTypeOK, Enlist
<1>2. OpenWhileListed' /\ RefcountsTrue'
  BY DEF OpenWhileListed, RefcountsTrue, Enlist, Holders
<1>3. /\ \A i \in DOMAIN register : register'[i] = register[i] /\ register[i] \in Clients
      /\ register'[Len(register) + 1] = c
      /\ DOMAIN register' = DOMAIN register \cup {Len(register) + 1}
  <2>1. register \in Seq(Clients) /\ register' = Append(register, c)
    BY DEF HubTypeOK, Enlist
  <2> QED
    BY <2>1, Joined
<1>4. RegisterInv'
  <2>1. ~In(c, register) /\ c \notin clients /\ closes[c] = 0
    BY DEF RegisterInv, Enlist
  <2>2. \A i \in DOMAIN register : register[i] # c
    BY <2>1 DEF In
  <2>3. clients' = clients /\ closes' = closes
    BY DEF Enlist
  <2>4. \A i, j \in DOMAIN register' : register'[i] = register'[j] => i = j
    BY <1>3, <2>2 DEF RegisterInv
  <2>5. \A i \in DOMAIN register' : register'[i] \notin clients' /\ closes'[register'[i]] = 0
    BY <1>3, <2>1, <2>3 DEF RegisterInv
  <2>6. ASSUME NEW d \in Clients, socket'[d] = "upgraded"
        PROVE  ~In(d, register)' /\ d \notin clients' /\ closes'[d] = 0
    <3>1. d # c /\ socket[d] = "upgraded"
      BY <2>6 DEF Enlist, HubTypeOK
    <3> QED
      BY <1>3, <2>3, <3>1 DEF RegisterInv, In
  <2> QED
    BY <2>4, <2>5, <2>6 DEF RegisterInv
<1> QED
  BY <1>1, <1>2, <1>4

\* What a queue holds behind its head.
LEMMA Behind ==
    ASSUME NEW q \in Seq(Clients), q # <<>>
    PROVE  /\ Head(q) \in Clients /\ 1 \in DOMAIN q /\ Head(q) = q[1]
           /\ Tail(q) \in Seq(Clients) /\ Len(Tail(q)) = Len(q) - 1
           /\ \A i \in DOMAIN Tail(q) : i + 1 \in DOMAIN q /\ Tail(q)[i] = q[i + 1]
OBVIOUS

LEMMA AdmitKeeps ==
    ASSUME HubInv, Admit
    PROVE  HubInv'
<1> USE DEF HubInv, HubSound
<1> DEFINE c == Head(register)
<1>1. register \in Seq(Clients) /\ register # <<>>
  BY DEF Admit, HubTypeOK
<1>2. c \in Clients /\ c \notin clients /\ closes[c] = 0
  BY <1>1, Behind DEF RegisterInv
<1>3. \A l \in Logins : connectedLogins'[l] = Holders(clients', l)
  <2> TAKE l \in Logins
  <2>1. Holders(clients \cup {c}, l)
          = IF LoginOf[c] = l THEN Holders(clients, l) + 1 ELSE Holders(clients, l)
    BY <1>2, HoldersJoin DEF HubTypeOK
  <2>2. connectedLogins[l] = Holders(clients, l)
    BY DEF Admit, RefcountsTrue
  <2>3. connectedLogins'[l]
          = IF LoginOf[c] = l THEN connectedLogins[l] + 1 ELSE connectedLogins[l]
    BY <1>2 DEF Admit, Tracked, HubTypeOK, HubAssumption
  <2> QED
    BY <2>1, <2>2, <2>3 DEF Admit
<1>4. clients' \in SUBSET Clients
  BY <1>2 DEF Admit, HubTypeOK
<1>5. \A l \in Logins : connectedLogins'[l] \in 0 .. Cardinality(Clients)
  <2>1. \A l \in Logins : Holders(clients', l) \in 0 .. Cardinality(Clients)
    BY <1>4, HoldersCount
  <2> QED
    BY <1>3, <2>1
<1>6. HubTypeOK'
  <2>1. register' \in Seq(Clients) /\ Len(register') <= RegBuffer
    BY <1>1, Behind DEF Admit, HubTypeOK, HubAssumption
  <2>2. connectedLogins' \in [Logins -> 0 .. Cardinality(Clients)]
    BY <1>5 DEF Admit, Tracked, HubTypeOK
  <2> QED
    BY <1>4, <2>1, <2>2 DEF Admit, HubTypeOK, pumps
<1>7. OpenWhileListed'
  BY <1>2 DEF OpenWhileListed, Admit
<1>8. RefcountsTrue'
  BY <1>3 DEF RefcountsTrue
<1>9. RegisterInv'
  <2>1. /\ 1 \in DOMAIN register /\ register[1] = c
        /\ \A i \in DOMAIN register' :
              i + 1 \in DOMAIN register /\ register'[i] = register[i + 1] /\ i \in Nat /\ i > 0
    BY <1>1, Behind DEF Admit
  <2>2. \A i \in DOMAIN register' : register'[i] # c
    BY <2>1 DEF RegisterInv
  <2>3. \A i, j \in DOMAIN register' : register'[i] = register'[j] => i = j
    BY <2>1 DEF RegisterInv
  <2>4. \A i \in DOMAIN register' : register'[i] \notin clients' /\ closes'[register'[i]] = 0
    BY <2>1, <2>2 DEF RegisterInv, Admit
  <2>5. \A d \in Clients : In(d, register') => In(d, register)
    BY <2>1 DEF In
  <2>6. \A d \in Clients : socket'[d] = "upgraded" =>
           ~In(d, register') /\ d \notin clients' /\ closes'[d] = 0
    BY <2>1, <2>5 DEF RegisterInv, Admit, In, pumps
  <2> QED
    BY <2>3, <2>4, <2>6 DEF RegisterInv, In
<1> QED
  BY <1>6, <1>7, <1>8, <1>9

\* The refcounts after clients of the map have gone: untrackLogin leaves exact refcounts
\* exact, however many clients go at once.
LEMMA GoneCounts ==
    ASSUME HubInv, NEW gone \in SUBSET clients, hub = "up"
    PROVE  \A l \in Logins : Untracked(connectedLogins, gone)[l] = Holders(clients \ gone, l)
<1> SUFFICES ASSUME NEW l \in Logins
             PROVE  Untracked(connectedLogins, gone)[l] = Holders(clients \ gone, l)
  OBVIOUS
<1>1. connectedLogins[l] = Holders(clients, l)
  BY DEF HubInv, HubSound, RefcountsTrue
<1>2. clients \in SUBSET Clients
  BY DEF HubInv, HubSound, HubTypeOK
<1> DEFINE S == {c \in clients : LoginOf[c] = l}
           G == {c \in gone : LoginOf[c] = l}
<1>3. {c \in clients \ gone : LoginOf[c] = l} = S \ G
  OBVIOUS
<1>4. IsFiniteSet(S) /\ IsFiniteSet(G) /\ S \cap G = G /\ G \in SUBSET S
  BY <1>2, HoldersCount
<1>5. Cardinality(S \ G) = Cardinality(S) - Cardinality(G)
  BY <1>4, FS_Difference
<1>6. Cardinality(S) \in Nat /\ Cardinality(G) \in Nat /\ Cardinality(S \ G) \in Nat
  BY <1>4, FS_CardinalityType, FS_Difference
<1>7. Holders(clients \ gone, l) = Holders(clients, l) - Holders(gone, l)
  BY <1>3, <1>5 DEF Holders
<1>8. /\ Holders(clients, l) \in Nat /\ Holders(gone, l) \in Nat
      /\ Holders(clients \ gone, l) \in Nat
  BY <1>3, <1>6 DEF Holders
<1>9. Untracked(connectedLogins, gone)[l]
        = IF Holders(gone, l) >= Holders(clients, l) THEN 0
                                                     ELSE Holders(clients, l) - Holders(gone, l)
  BY <1>1 DEF Untracked
<1> QED
  BY <1>7, <1>8, <1>9

\* Clients of the map go: their channels are closed and their logins untracked.
LEMMA GoneKeeps ==
    ASSUME HubInv, HubTypeOK', NEW gone \in SUBSET clients, hub = "up",
           clients' = clients \ gone,
           \A c \in Clients : closes'[c] = IF c \in gone THEN closes[c] + 1 ELSE closes[c],
           connectedLogins' = Untracked(connectedLogins, gone),
           UNCHANGED <<socket, register>>
    PROVE  HubInv'
<1> USE DEF HubInv, HubSound
<1>1. OpenWhileListed'
  BY DEF OpenWhileListed, HubTypeOK
<1>2. RefcountsTrue'
  BY GoneCounts DEF RefcountsTrue
<1>3. RegisterInv'
  <2>1. \A i \in DOMAIN register : register[i] \in Clients
    BY DEF HubTypeOK
  <2> QED
    BY <2>1 DEF RegisterInv, In
<1> QED
  BY <1>1, <1>2, <1>3

\* The types of what GoneKeeps changes.
LEMMA GoneTyped ==
    ASSUME HubInv, NEW gone \in SUBSET clients, hub = "up"
    PROVE  Untracked(connectedLogins, gone) \in [Logins -> 0 .. Cardinality(Clients)]
<1>2. \A l \in Logins : Untracked(connectedLogins, gone)[l] = Holders(clients \ gone, l)
  BY GoneCounts
<1>3. \A l \in Logins : Holders(clients \ gone, l) \in 0 .. Cardinality(Clients)
  BY HoldersCount DEF HubInv, HubSound, HubTypeOK
<1>4. Untracked(connectedLogins, gone)
        = [l \in Logins |-> Untracked(connectedLogins, gone)[l]]
  BY DEF Untracked
<1> QED
  BY <1>2, <1>3, <1>4

LEMMA DismissKeeps ==
    ASSUME HubInv, Dismiss
    PROVE  HubInv'
<1> USE DEF HubInv, HubSound
<1> DEFINE c == Head(unregister)
<1>1. unregister \in Seq(Clients) /\ unregister # <<>> /\ hub = "up"
  BY DEF Dismiss, HubTypeOK
<1>2. c \in Clients /\ unregister' \in Seq(Clients) /\ Len(unregister') <= RegBuffer
  BY <1>1, Behind DEF Dismiss, HubTypeOK, HubAssumption
<1>3. CASE c \in clients
  <2>1. Untracked(connectedLogins, {c}) \in [Logins -> 0 .. Cardinality(Clients)]
    BY <1>1, <1>3, GoneTyped
  <2>2. HubTypeOK'
    <3>1. closes' \in [Clients -> Nat] /\ clients' \subseteq Clients
      <4>1. closes' = [closes EXCEPT ![c] = closes[c] + 1] /\ clients' = clients \ {c}
        BY <1>3 DEF Dismiss
      <4>2. closes \in [Clients -> Nat] /\ clients \subseteq Clients
        BY DEF HubTypeOK
      <4>3. closes[c] + 1 \in Nat
        BY <1>2, <4>2
      <4> QED
        BY <4>1, <4>2, <4>3
    <3>2. connectedLogins' = Untracked(connectedLogins, {c})
      BY <1>3 DEF Dismiss
    <3>3. connectedLogins' \in [Logins -> 0 .. Cardinality(Clients)]
      BY <2>1, <3>2
    <3>4. UNCHANGED <<socket, readPump, writePump, queued, register, broadcast, hub>>
      BY <1>3 DEF Dismiss, pumps
    <3> QED
      BY <1>2, <3>1, <3>3, <3>4 DEF HubTypeOK
  <2>3. \A d \in Clients : closes'[d] = IF d \in {c} THEN closes[d] + 1 ELSE closes[d]
    BY <1>3 DEF Dismiss, HubTypeOK
  <2> QED
    BY <1>1, <1>3, <2>2, <2>3, GoneKeeps DEF Dismiss, pumps
<1>4. CASE c \notin clients
  <2>1. HubTypeOK'
    BY <1>2, <1>4 DEF Dismiss, HubTypeOK, pumps
  <2> QED
    BY <1>4, <2>1, Outside DEF Dismiss, pumps
<1> QED
  BY <1>3, <1>4

LEMMA BroadcastKeeps ==
    ASSUME HubInv, Broadcast
    PROVE  HubInv'
<1> USE DEF HubInv, HubSound
<1> DEFINE addressed == {c \in clients : Head(broadcast) \in {All, LoginOf[c]}}
           slow == {c \in addressed : queued[c] = SendBuffer}
<1>1. /\ slow \in SUBSET clients /\ hub = "up" /\ clients' = clients \ slow
      /\ \A c \in Clients : closes'[c] = IF c \in slow THEN closes[c] + 1 ELSE closes[c]
      /\ connectedLogins' = Untracked(connectedLogins, slow)
      /\ UNCHANGED <<socket, register>>
  BY DEF Broadcast, pumps
<1>2. Untracked(connectedLogins, slow) \in [Logins -> 0 .. Cardinality(Clients)]
  BY <1>1, GoneTyped
<1>3. HubTypeOK'
  <2>1. broadcast' \in Seq(Logins \cup {All}) /\ Len(broadcast') <= BroadcastBuffer
    BY DEF Broadcast, HubTypeOK, HubAssumption
  <2>2. queued' \in [Clients -> 0 .. SendBuffer]
    BY DEF Broadcast, HubTypeOK, HubAssumption
  <2>3. closes' \in [Clients -> Nat]
    BY DEF Broadcast, HubTypeOK
  <2> QED
    BY <1>1, <1>2, <2>1, <2>2, <2>3 DEF Broadcast, HubTypeOK, pumps
<1> QED
  BY <1>1, <1>3, GoneKeeps

LEMMA HubDownKeeps ==
    ASSUME HubInv, HubDown
    PROVE  HubInv'
<1> USE DEF HubInv, HubSound
<1>1. HubTypeOK'
  BY DEF HubDown, HubTypeOK, pumps, queues
<1>2. OpenWhileListed' /\ RefcountsTrue'
  BY DEF HubDown, OpenWhileListed, RefcountsTrue, HubTypeOK
<1>3. RegisterInv'
  <2>1. \A i \in DOMAIN register : register[i] \in Clients
    BY DEF HubTypeOK
  <2> QED
    BY <2>1 DEF HubDown, RegisterInv, In, pumps, queues
<1> QED
  BY <1>1, <1>2, <1>3

LEMMA HubStepKeeps == HubInv /\ [HubNext]_hubVars => HubInv'
<1> SUFFICES ASSUME HubInv, [HubNext]_hubVars PROVE HubInv'
  OBVIOUS
<1> USE DEF HubInv, HubSound
<1>1. ASSUME NEW c \in Clients, TurnAway(c) \/ PeerGone(c) \/ PumpStep(c) PROVE HubInv'
  <2>1. HubTypeOK'
    <3>1. CASE TurnAway(c) \/ PeerGone(c)
      BY <3>1 DEF TurnAway, PeerGone, HubTypeOK, queues
    <3>2. CASE ReadFails(c)
      BY <3>2 DEF ReadFails, HubTypeOK, queues
    <3>3. CASE Unregister(c)
      <4>1. unregister' \in Seq(Clients) /\ Len(unregister') <= RegBuffer
        <5>1. unregister' = unregister
              \/ (unregister' = Append(unregister, c) /\ Len(unregister) < RegBuffer)
          BY <3>3 DEF Unregister
        <5>2. unregister \in Seq(Clients) /\ Len(unregister) <= RegBuffer /\ RegBuffer \in Nat
          BY DEF HubTypeOK, HubAssumption
        <5>3. Append(unregister, c) \in Seq(Clients)
              /\ Len(Append(unregister, c)) = Len(unregister) + 1 /\ Len(unregister) \in Nat
          BY <5>2
        <5> QED
          BY <5>1, <5>2, <5>3
      <4> QED
        BY <3>3, <4>1 DEF Unregister, HubTypeOK
    <3>4. CASE WriteFrame(c)
      BY <3>4 DEF WriteFrame, HubTypeOK, pumps, queues
    <3>5. CASE WritePumpEnds(c)
      BY <3>5 DEF WritePumpEnds, HubTypeOK, queues
    <3> QED
      BY <1>1, <3>1, <3>2, <3>3, <3>4, <3>5 DEF PumpStep
  <2>2. UNCHANGED <<closes, register, clients, connectedLogins, hub>>
    BY <1>1 DEF TurnAway, PeerGone, PumpStep, ReadFails, Unregister, WriteFrame, WritePumpEnds, queues
  <2>3. \A d \in Clients : socket'[d] = "upgraded" => socket[d] = "upgraded"
    BY <1>1 DEF TurnAway, PeerGone, PumpStep, ReadFails, Unregister, WriteFrame, WritePumpEnds,
                pumps, HubTypeOK
  <2> QED
    BY <2>1, <2>2, <2>3, Outside
<1>2. ASSUME NEW target \in Logins \cup {All}, Handle(target) PROVE HubInv'
  <2>1. HubTypeOK'
    BY <1>2 DEF Handle, HubTypeOK, pumps, HubAssumption
  <2> QED
    BY <1>2, <2>1, Outside DEF Handle, pumps
<1>3. CASE UNCHANGED hubVars
  <2>1. HubTypeOK'
    BY <1>3 DEF hubVars, HubTypeOK
  <2> QED
    BY <1>3, <2>1, Outside DEF hubVars
<1> QED
  BY <1>1, <1>2, <1>3, UpgradeKeeps, EnlistKeeps, AdmitKeeps, DismissKeeps, BroadcastKeeps,
     HubDownKeeps DEF HubNext, HubStep

LEMMA HubInvariant == HubSpec => []HubInv
BY HubInitial, HubStepKeeps, PTL DEF HubSpec

\* Whatever the order in which clients come, fall behind, leave and are cut off,
\* no channel is sent to or closed after it was closed, and the refcounts are the
\* sockets held (hub.go:88-93, 223-248).
THEOREM HubIsSound == HubSpec => []HubSound
BY HubInvariant, PTL DEF HubInv

----------------------------------------------------------------------------
(* The hub implements Sockets *)

\* After a step too, a login has an entry exactly while a client of it is held.
LEMMA HeldAfter ==
    ASSUME HubInv', hub' = "up"
    PROVE  {l \in Logins : connectedLogins'[l] > 0} = {LoginOf[c] : c \in clients'}
<1>1. \A l \in Logins : connectedLogins'[l] > 0 <=> \E c \in clients' : LoginOf[c] = l
  <2> TAKE l \in Logins
  <2>1. connectedLogins'[l] = Holders(clients', l)
    BY DEF HubInv, HubSound, RefcountsTrue, Holders
  <2>2. clients' \in SUBSET Clients
    BY DEF HubInv, HubSound, HubTypeOK
  <2>4. Holders(clients', l) \in 0 .. Cardinality(Clients)
    BY <2>2, HoldersCount
  <2>5. Holders(clients', l) = 0 <=> \A c \in clients' : LoginOf[c] # l
    BY <2>2, HoldersCount
  <2> QED
    BY <2>1, <2>4, <2>5
<1>2. \A c \in clients' : LoginOf[c] \in Logins
  BY DEF HubInv, HubSound, HubTypeOK, HubAssumption
<1> QED
  BY <1>1, <1>2

LEMMA HubStartsAsSockets == HubInit => World!SocketsInit
BY DEF HubInit, World!SocketsInit

LEMMA HubStepsAsSockets ==
    ASSUME HubInv, HubInv', [HubNext]_hubVars
    PROVE  [World!SocketsNext]_(World!sockets)
<1> USE DEF World!sockets
<1>1. ASSUME UNCHANGED <<clients, connectedLogins, hub>>
      PROVE  UNCHANGED World!sockets
  BY <1>1
<1>2. CASE Admit
  <2>1. PICK c \in Clients : c = Head(register)
    BY <1>2, Behind DEF Admit, HubInv, HubSound, HubTypeOK
  <2>2. {l \in Logins : connectedLogins'[l] > 0} = {LoginOf[d] : d \in clients'}
    BY <1>2, HeldAfter DEF Admit
  <2>3. World!Join(c)
    BY <1>2, <2>1, <2>2 DEF Admit, World!Join, World!Holding
  <2> QED
    BY <2>3 DEF World!SocketsNext
<1>3. ASSUME NEW gone \in SUBSET clients, hub = "up", hub' = "up", clients' = clients \ gone
      PROVE  World!SocketsNext
  <2>1. {l \in Logins : connectedLogins'[l] > 0} = {LoginOf[c] : c \in clients'}
    BY <1>3, HeldAfter
  <2>2. World!Leave(gone)
    BY <1>3, <2>1 DEF World!Leave, World!Holding
  <2> QED
    BY <2>2 DEF World!SocketsNext
<1>4. CASE Dismiss
  <2>1. CASE Head(unregister) \in clients
    BY <1>3, <1>4, <2>1 DEF Dismiss
  <2>2. CASE Head(unregister) \notin clients
    BY <1>1, <1>4, <2>2 DEF Dismiss
  <2> QED
    BY <2>1, <2>2
<1>5. CASE Broadcast
  BY <1>3, <1>5 DEF Broadcast
<1>6. CASE HubDown
  <2>1. World!HubEnds
    BY <1>6 DEF HubDown, World!HubEnds
  <2> QED
    BY <2>1 DEF World!SocketsNext
<1>7. ASSUME NEW c \in Clients,
             Upgrade(c) \/ Enlist(c) \/ TurnAway(c) \/ PeerGone(c) \/ PumpStep(c)
      PROVE  UNCHANGED <<clients, connectedLogins, hub>>
  BY <1>7 DEF Upgrade, Enlist, TurnAway, PeerGone, PumpStep, ReadFails, Unregister, WriteFrame,
              WritePumpEnds
<1>8. ASSUME NEW target \in Logins \cup {All}, Handle(target)
      PROVE  UNCHANGED <<clients, connectedLogins, hub>>
  BY <1>8 DEF Handle
<1>9. CASE UNCHANGED hubVars
  BY <1>1, <1>9 DEF hubVars
<1> QED
  BY <1>1, <1>2, <1>4, <1>5, <1>6, <1>7, <1>8, <1>9 DEF HubNext, HubStep

\* The hub, seen from the world, is Sockets: its list of logins is exact at every
\* moment until the hub stops, and stands still afterwards (hub.go:142-153).
THEOREM HubImplementsSockets == HubSpec => HubIsSockets
<1>1. HubInv /\ HubInv' /\ [HubNext]_hubVars => [World!SocketsNext]_(World!sockets)
  BY HubStepsAsSockets
<1> QED
  BY <1>1, HubStartsAsSockets, HubInvariant, PTL DEF HubSpec, HubIsSockets, World!SocketsSpec

HIDE HubAssumption

-----------------------------------------------------------------------------
\* Presence

USE PresenceAssumption

----------------------------------------------------------------------------
(* The inductive invariants *)

\* What Presence takes from Sockets.
SocketsInv == IF up THEN listed = {LoginOf[c] : c \in held} ELSE held = {}

PresenceInv == PresenceSound /\ SocketsInv

\* A stamped socket's login was seen within the age of the last heartbeat; while
\* a heartbeat is on its way it is in its batch, or was seen after the reading.
AgeInv ==
    \A c \in held : stamps[c] = "done" =>
        /\ seen[LoginOf[c]] <= beatAge
        /\ beat # {} /\ LoginOf[c] \notin beat => seen[LoginOf[c]] = 0

----------------------------------------------------------------------------
(* The steps of Sockets *)

LEMMA JoinKeeps ==
    ASSUME PresenceInv, NEW c \in Clients, Join(c)
    PROVE  SocketsInv' /\ held' \subseteq Clients /\ listed' \subseteq Logins /\ up' \in BOOLEAN
BY DEF PresenceInv, PresenceSound, PresenceTypeOK, SocketsInv, Join, Holding, PresenceAssumption

LEMMA GoingKeeps ==
    ASSUME PresenceInv, (\E cs \in SUBSET held : cs # {} /\ Leave(cs)) \/ HubEnds
    PROVE  /\ SocketsInv' /\ held' \subseteq held
           /\ listed' \subseteq Logins /\ up' \in BOOLEAN
BY DEF PresenceInv, PresenceSound, PresenceTypeOK, SocketsInv, Leave, Holding, HubEnds,
       PresenceAssumption

----------------------------------------------------------------------------
(* Types, and the offline bed *)

LEMMA PresenceInitial == PresenceInit => PresenceInv
<1> SUFFICES ASSUME PresenceInit PROVE PresenceInv
  OBVIOUS
<1>1. PresenceTypeOK /\ SocketsInv
  BY DEF PresenceInit, SocketsInit, PresenceTypeOK, SocketsInv, PresenceAssumption
<1>2. OfflineBedMeansAway
  BY DEF PresenceInit, OfflineBedMeansAway, Stale, PresenceAssumption
<1> QED
  BY <1>1, <1>2 DEF PresenceInv, PresenceSound

\* A stamp wakes whom it finds away.
LEMMA SeenKeeps ==
    ASSUME PresenceInv, NEW logins \in SUBSET Logins, Seen(logins)
    PROVE  /\ seen' \in [Logins -> 0 .. StaleAfter + 1]
           /\ bedded' \in [Logins -> {"awake", "tap", "idle", "offline"}]
           /\ OfflineBedMeansAway'
<1> USE DEF PresenceInv, PresenceSound, PresenceTypeOK, Seen, Stale, PresenceAssumption
<1>1. /\ seen' \in [Logins -> 0 .. StaleAfter + 1]
      /\ bedded' \in [Logins -> {"awake", "tap", "idle", "offline"}]
  OBVIOUS
<1>2. OfflineBedMeansAway'
  BY DEF OfflineBedMeansAway
<1> QED
  BY <1>1, <1>2

LEMMA PlayerKeeps ==
    ASSUME PresenceInv, PlayerNext
    PROVE  PresenceInv'
<1> USE DEF PresenceInv, PresenceSound
<1>1. ASSUME NEW c \in Clients, Connect(c) PROVE PresenceInv'
  <2>1. PresenceTypeOK' /\ SocketsInv'
    BY <1>1, JoinKeeps DEF Connect, attention, clock, PresenceTypeOK
  <2>2. OfflineBedMeansAway'
    BY <1>1 DEF Connect, OfflineBedMeansAway, Stale
  <2> QED
    BY <2>1, <2>2
<1>2. ASSUME NEW c \in Clients, StampConnected(c) PROVE PresenceInv'
  <2>1. OfflineBedMeansAway' /\ PresenceTypeOK'
    BY <1>2, SeenKeeps DEF StampConnected, Attended, clock, sockets, PresenceTypeOK,
                           PresenceAssumption
  <2>2. SocketsInv'
    BY <1>2 DEF StampConnected, sockets, SocketsInv
  <2> QED
    BY <2>1, <2>2
<1>3. ASSUME NEW c \in Clients, StampLost(c) PROVE PresenceInv'
  BY <1>3 DEF StampLost, attention, clock, sockets, PresenceTypeOK, SocketsInv,
              OfflineBedMeansAway, Stale
<1>4. CASE Disconnect
  <2>1. SocketsInv' /\ held' \subseteq held /\ listed' \subseteq Logins /\ up' \in BOOLEAN
    BY <1>4, GoingKeeps DEF Disconnect
  <2>2. UNCHANGED pcVars
    BY <1>4 DEF Disconnect
  <2> QED
    BY <2>1, <2>2 DEF pcVars, PresenceTypeOK, OfflineBedMeansAway, Stale
<1>5. ASSUME NEW l \in Logins, Act(l) PROVE PresenceInv'
  BY <1>5 DEF Act, Attended, clock, sockets, PresenceTypeOK, SocketsInv, OfflineBedMeansAway,
              Stale, PresenceAssumption
<1>6. ASSUME NEW l \in Logins, Attend(l) PROVE PresenceInv'
  BY <1>6 DEF Attend, Attended, clock, sockets, PresenceTypeOK, SocketsInv,
              OfflineBedMeansAway, Stale
<1>7. ASSUME NEW l \in Logins, SleepPC(l) \/ WakePC(l) PROVE PresenceInv'
  BY <1>7 DEF SleepPC, WakePC, attention, clock, sockets, PresenceTypeOK, SocketsInv,
              OfflineBedMeansAway, Stale
<1>8. ASSUME NEW l \in Logins, BedChanges(l) PROVE PresenceInv'
  BY <1>8 DEF BedChanges, attention, clock, sockets, PresenceTypeOK, SocketsInv,
              OfflineBedMeansAway, Stale
<1>9. ASSUME NEW l \in Logins, Linger(l) PROVE PresenceInv'
  BY <1>9 DEF Linger, clock, sockets, PresenceTypeOK, SocketsInv, OfflineBedMeansAway, Stale
<1> QED
  BY <1>1, <1>2, <1>3, <1>4, <1>5, <1>6, <1>7, <1>8, <1>9 DEF PlayerNext

LEMMA SweepKeeps ==
    ASSUME PresenceInv, SweepNext
    PROVE  PresenceInv'
<1> USE DEF PresenceInv, PresenceSound
<1>1. CASE ReadLogins
  BY <1>1 DEF ReadLogins, attention, sockets, PresenceTypeOK, SocketsInv, OfflineBedMeansAway,
              Stale, PresenceAssumption
<1>2. CASE Heartbeat
  <2>1. OfflineBedMeansAway' /\ PresenceTypeOK'
    BY <1>2, SeenKeeps DEF Heartbeat, attention, sockets, PresenceTypeOK, PresenceAssumption
  <2>2. SocketsInv'
    BY <1>2 DEF Heartbeat, sockets, SocketsInv
  <2> QED
    BY <2>1, <2>2
<1>3. ASSUME NEW rested, NEW capped, WakeExpiredPCSleepers(rested, capped) PROVE PresenceInv'
  BY <1>3 DEF WakeExpiredPCSleepers, attention, clock, sockets, PresenceTypeOK, SocketsInv,
              OfflineBedMeansAway, Stale
<1>4. ASSUME NEW tired, AutoBedIdleLodgerPCs(tired) PROVE PresenceInv'
  BY <1>4 DEF AutoBedIdleLodgerPCs, attention, clock, sockets, PresenceTypeOK, SocketsInv,
              OfflineBedMeansAway, Stale
<1>5. CASE AutoBedOfflineLodgerPCs
  BY <1>5 DEF AutoBedOfflineLodgerPCs, attention, clock, sockets, PresenceTypeOK, SocketsInv,
              OfflineBedMeansAway, Stale
<1>6. CASE SweepPCIdleAudience
  BY <1>6 DEF SweepPCIdleAudience, Candle, Idle, Asleep, Stale, clock, sockets, PresenceTypeOK,
              SocketsInv, OfflineBedMeansAway
<1> QED
  BY <1>1, <1>2, <1>3, <1>4, <1>5, <1>6 DEF SweepNext

LEMMA PresenceKeeps == PresenceInv /\ [PresenceNext]_presenceVars => PresenceInv'
<1> SUFFICES ASSUME PresenceInv, [PresenceNext]_presenceVars PROVE PresenceInv'
  OBVIOUS
<1> USE DEF PresenceInv, PresenceSound
<1>1. CASE HorizonRaised
  BY <1>1 DEF HorizonRaised, Idle, clock, sockets, PresenceTypeOK, SocketsInv,
              OfflineBedMeansAway, Stale
<1>2. CASE Tick
  <2>1. PresenceTypeOK'
    BY <1>2 DEF Tick, attention, sockets, PresenceTypeOK, Stale, PresenceAssumption
  <2>2. SocketsInv' /\ OfflineBedMeansAway'
    BY <1>2 DEF Tick, sockets, SocketsInv, OfflineBedMeansAway, PresenceTypeOK, Stale,
                PresenceAssumption
  <2> QED
    BY <2>1, <2>2
<1>3. CASE Restart
  BY <1>3 DEF Restart, PresenceTypeOK, SocketsInv, OfflineBedMeansAway, Stale,
              PresenceAssumption
<1>4. CASE UNCHANGED presenceVars
  BY <1>4 DEF presenceVars, pcVars, sockets, PresenceTypeOK, SocketsInv, OfflineBedMeansAway, Stale
<1> QED
  BY <1>1, <1>2, <1>3, <1>4, PlayerKeeps, SweepKeeps DEF PresenceNext

LEMMA PresenceInvariant == PresenceSpec => []PresenceInv
BY PresenceInitial, PresenceKeeps, PTL DEF PresenceSpec

\* A character bedded because its player was away is awake before the player
\* counts as present again (pc_presence.go:241-250).
THEOREM PresenceIsSound == PresenceSpec => []PresenceSound
BY PresenceInvariant, PTL DEF PresenceInv

----------------------------------------------------------------------------
(* The heartbeat *)

LEMMA AgesStart == PresenceInit => AgeInv
BY DEF PresenceInit, SocketsInit, AgeInv

\* Steps that leave the clocks alone and stamp or admit no socket.
LEMMA OffTheClock ==
    ASSUME PresenceInv, AgeInv, held' \subseteq held, UNCHANGED <<beat, beatAge>>,
           \A c \in Clients : stamps'[c] = "done" => stamps[c] = "done",
           \A l \in Logins : seen'[l] = seen[l] \/ seen'[l] = 0
    PROVE  AgeInv'
<1> SUFFICES ASSUME NEW c \in held', stamps'[c] = "done"
             PROVE  /\ seen'[LoginOf[c]] <= beatAge
                    /\ beat # {} /\ LoginOf[c] \notin beat => seen'[LoginOf[c]] = 0
  BY DEF AgeInv
<1>1. c \in Clients /\ LoginOf[c] \in Logins /\ beatAge \in Nat
  BY DEF PresenceInv, PresenceSound, PresenceTypeOK, PresenceAssumption
<1> QED
  BY <1>1 DEF AgeInv

LEMMA AgesKeep == PresenceInv /\ AgeInv /\ [PresenceNext]_presenceVars => AgeInv'
<1> SUFFICES ASSUME PresenceInv, AgeInv, [PresenceNext]_presenceVars PROVE AgeInv'
  OBVIOUS
<1> USE DEF PresenceInv, PresenceSound
<1>0. \A c \in held : c \in Clients /\ LoginOf[c] \in Logins
  BY DEF PresenceTypeOK, PresenceAssumption
<1>1. ASSUME NEW c \in Clients, Connect(c) PROVE AgeInv'
  <2>1. held' = held \cup {c} /\ stamps'[c] = "due"
        /\ \A d \in held : d # c => stamps'[d] = stamps[d]
    BY <1>0, <1>1 DEF Connect, Join, Holding, PresenceTypeOK
  <2> QED
    BY <1>1, <2>1 DEF Connect, AgeInv, clock
<1>2. ASSUME NEW c \in Clients, StampConnected(c) PROVE AgeInv'
  <2>1. seen'[LoginOf[c]] = 0
        /\ \A l \in Logins : seen'[l] = seen[l] \/ seen'[l] = 0
    BY <1>2 DEF StampConnected, Seen, PresenceAssumption
  <2>2. \A d \in held : d # c => stamps'[d] = stamps[d]
    BY <1>0, <1>2 DEF StampConnected, PresenceTypeOK
  <2>3. held' = held /\ beat' = beat /\ beatAge' = beatAge /\ beatAge \in Nat
    BY <1>2 DEF StampConnected, sockets, clock, PresenceTypeOK, PresenceAssumption
  <2> QED
    BY <1>0, <2>1, <2>2, <2>3 DEF AgeInv
<1>3. ASSUME NEW c \in Clients, StampLost(c) PROVE AgeInv'
  BY <1>3, OffTheClock DEF StampLost, sockets, clock, PresenceTypeOK
<1>4. CASE Disconnect
  BY <1>4, OffTheClock, GoingKeeps DEF Disconnect, pcVars
<1>5. ASSUME NEW l \in Logins,
             \/ Act(l) \/ Attend(l) \/ SleepPC(l) \/ WakePC(l) \/ BedChanges(l) \/ Linger(l)
      PROVE  AgeInv'
  <2>1. /\ UNCHANGED <<held, stamps, beat, beatAge>>
        /\ \A k \in Logins : seen'[k] = seen[k] \/ seen'[k] = 0
    BY <1>5 DEF Act, Attend, SleepPC, WakePC, BedChanges, Linger, sockets, clock, PresenceTypeOK
  <2> QED
    BY <2>1, OffTheClock
<1>6. CASE ReadLogins
  BY <1>0, <1>6 DEF ReadLogins, sockets, AgeInv, SocketsInv
<1>7. CASE Heartbeat
  <2>1. \A c \in held : stamps[c] = "done" => seen'[LoginOf[c]] = 0
    BY <1>0, <1>7 DEF Heartbeat, Seen, AgeInv
  <2> QED
    BY <1>7, <2>1 DEF Heartbeat, sockets, AgeInv
<1>8. ASSUME \/ \E rested, capped \in SUBSET Logins : WakeExpiredPCSleepers(rested, capped)
             \/ \E tired \in SUBSET Logins : AutoBedIdleLodgerPCs(tired)
             \/ AutoBedOfflineLodgerPCs \/ SweepPCIdleAudience \/ HorizonRaised
      PROVE  AgeInv'
  <2>1. UNCHANGED <<held, stamps, seen, beat, beatAge>>
    BY <1>8 DEF WakeExpiredPCSleepers, AutoBedIdleLodgerPCs, AutoBedOfflineLodgerPCs,
                SweepPCIdleAudience, HorizonRaised, sockets, clock
  <2> QED
    BY <2>1, OffTheClock
<1>9. CASE Tick
  <2>1. /\ beat = {} /\ beatAge' = beatAge + 1 /\ beatAge \in Nat
        /\ UNCHANGED <<held, stamps, beat>>
    BY <1>9 DEF Tick, sockets, PresenceTypeOK, PresenceAssumption
  <2>2. \A l \in Logins : seen'[l] <= seen[l] + 1 /\ seen[l] \in Nat
    BY <1>9 DEF Tick, Stale, PresenceTypeOK, PresenceAssumption
  <2>3. \A l \in Logins : seen'[l] \in Nat
    BY <1>9 DEF Tick, Stale, PresenceTypeOK, PresenceAssumption
  <2> QED
    BY <1>0, <2>1, <2>2, <2>3 DEF AgeInv
<1>10. CASE Restart
  BY <1>10 DEF Restart, AgeInv
<1>11. CASE UNCHANGED presenceVars
  BY <1>11 DEF presenceVars, pcVars, sockets, AgeInv
<1> QED
  BY <1>1, <1>2, <1>3, <1>4, <1>5, <1>6, <1>7, <1>8, <1>9, <1>10, <1>11
     DEF PresenceNext, PlayerNext, SweepNext

\* While no heartbeat is later than the staleness horizon, a player whose socket
\* the hub holds and whose connect was stamped is never judged absent, whichever
\* of the player's tabs come and go (pc_presence.go:36-40, 51-54).
THEOREM ConnectedIsNeverStale ==
    ASSUME MaxLate <= StaleAfter
    PROVE  PresenceSpec => []ConnectedNeverStale
<1>1. PresenceSpec => []AgeInv
  BY PresenceInvariant, AgesStart, AgesKeep, PTL DEF PresenceSpec
<1>2. PresenceInv /\ AgeInv => ConnectedNeverStale
  <2> SUFFICES ASSUME PresenceInv, AgeInv, NEW c \in held, stamps[c] = "done"
               PROVE  ~Stale(LoginOf[c])
    BY DEF ConnectedNeverStale
  <2>1. /\ LoginOf[c] \in Logins /\ seen[LoginOf[c]] \in Nat
        /\ beatAge \in Nat /\ beatAge <= MaxLate
    BY DEF PresenceInv, PresenceSound, PresenceTypeOK, PresenceAssumption
  <2>2. seen[LoginOf[c]] <= beatAge
    BY DEF AgeInv
  <2> QED
    BY <2>1, <2>2 DEF Stale, PresenceAssumption
<1> QED
  BY <1>1, <1>2, PresenceInvariant, PTL

HIDE PresenceAssumption

-----------------------------------------------------------------------------
\* Engine

USE EngineAssumption

----------------------------------------------------------------------------
(* The push *)

\* A day is posted whole before the cursor moves over it, and the cursor starts at
\* its anchor.
PushInv ==
    /\ push \in {"idle", "posting", "stamping", "done"}
    /\ today \in Days /\ posted \subseteq Days
    /\ {cursor, anchor} \subseteq Days \cup {NoDay}
    /\ cursor # NoDay => anchor # NoDay /\ anchor <= cursor
    /\ cursor = NoDay => anchor = NoDay
    /\ push \in {"posting", "stamping"} => cursor # NoDay /\ cursor < today
    /\ push = "stamping" => cursor + 1 \in posted
    /\ today > 0
    /\ PushNoGap

LEMMA PushStarts == Init => PushInv
BY DEF Init, PushInv, PushNoGap, Days, EngineAssumption

LEMMA PushKeeps == PushInv /\ [Next]_vars => PushInv'
<1> SUFFICES ASSUME PushInv, [Next]_vars PROVE PushInv'
  OBVIOUS
<1> USE DEF PushInv, PushNoGap, Days, EngineAssumption
<1>1. CASE Midnight
  BY <1>1 DEF Midnight
<1>2. CASE Dispatch
  <2>1. CASE cursor = NoDay
    <3>1. cursor' = today - 1 /\ anchor' = today - 1 /\ posted' = {} /\ today' = today
      BY <1>2, <2>1 DEF Dispatch
    <3>2. (today - 1 + 1) .. (today - 1) = {}
      OBVIOUS
    <3> QED
      BY <1>2, <2>1, <3>1, <3>2 DEF Dispatch
  <2>2. CASE cursor # NoDay
    BY <1>2, <2>2 DEF Dispatch
  <2> QED
    BY <2>1, <2>2
<1>3. CASE PostDay
  <2>1. cursor \in Days /\ cursor + 1 \in Days
    BY <1>3 DEF PostDay
  <2>2. posted' = posted \/ posted' = posted \cup {cursor + 1}
    BY <1>3 DEF PostDay
  <2>3. posted \cup {cursor + 1} = (anchor + 1) .. (cursor + 1)
    BY <1>3, <2>1 DEF PostDay
  <2> QED
    BY <1>3, <2>1, <2>2, <2>3 DEF PostDay
<1>4. CASE StampDay
  BY <1>4 DEF StampDay
<1>5. CASE PushEnds
  BY <1>5 DEF PushEnds
<1>6. CASE Crash
  BY <1>6 DEF Crash
<1>7. ASSUME UNCHANGED pushVars PROVE PushInv'
  BY <1>7 DEF pushVars
<1>8. ASSUME \/ \E w \in Workers : SendTick(w) \/ WorkerExits(w)
             \/ SendOther \/ Execute \/ LoopEnds
             \/ CkDue \/ CkAsk \/ CkSave \/ CkStops
             \/ WriteRow \/ WriterEnds
             \/ SignalForce \/ SignalGraceful \/ Stop \/ UNCHANGED vars
      PROVE UNCHANGED pushVars
  BY <1>8 DEF SendTick, WorkerExits, SendOther, Execute, LoopEnds, CkDue, CkAsk, CkSave, CkStops,
              WriteRow, WriterEnds, SignalForce, SignalGraceful, Stop, Gate, Ask, Save, NotSaved,
              HTTPShutdown, CheckpointerDone, PoolDone, CancelWorld, WorldDone, LastWaits, vars
<1> QED
  BY <1>1, <1>2, <1>3, <1>4, <1>5, <1>6, <1>7, <1>8 DEF Next

\* No day is skipped and at most the one after the cursor is posted again, however posts
\* and stamps fail and processes die (dispatcher.go: the cursor moves day by day, only
\* over a day that was posted whole).
THEOREM PushSkipsNoDay == Spec => []PushNoGap
<1>1. PushInv => PushNoGap
  BY DEF PushInv
<1> QED
  BY <1>1, PushStarts, PushKeeps, PTL DEF Spec

----------------------------------------------------------------------------
(* The stop *)

CkEnded == {"poolWait", "finalAsk", "finalWait", "finalSave",
            "worldWait", "lastWaits", "exited", "failed"}
PoolGone == CkEnded \ {"poolWait"}
FinalDone == {"worldWait", "lastWaits", "exited", "failed"}

\* Who is gone at each stage of run.
StagesInv ==
    /\ main \in CkEnded => ck = "ended"
    /\ main \in PoolGone => \A w \in Workers : worker[w] = "gone"
    /\ loop # "on" => main \in FinalDone
    /\ main \in {"lastWaits", "exited"} => loop = "done"
    /\ writer # "on" => loop = "done"
    /\ writer = "done" => logQueue = 0
    /\ main = "exited" => writer = "done" /\ push = "done"
    /\ final = "ok" => main \in FinalDone

\* At most one snapshot command of each kind is queued, and somebody waits for it.
SnapInv ==
    /\ \A i, j \in DOMAIN cmds :
          cmds[i] = cmds[j] /\ cmds[i] \in {"snapMain", "snapPeriodic"} => i = j
    /\ \A i \in DOMAIN cmds : cmds[i] = "snapMain" => main \in {"gateWait", "finalWait"}
    /\ \A i \in DOMAIN cmds : cmds[i] = "snapPeriodic" => ck = "wait"

\* No worker's command is behind the last snapshot, and none comes after it.
NoTick == \A i \in DOMAIN cmds : cmds[i] # "tick"
LastInv ==
    /\ main = "finalWait" =>
          \A i, j \in DOMAIN cmds : cmds[i] = "snapMain" /\ i < j => cmds[j] # "tick"
    /\ main = "finalSave" => world.ticks = mainSnap.ticks /\ NoTick
    /\ final = "ok" => saved = mainSnap /\ world.ticks = saved.ticks /\ NoTick

StopInv == TypeOK /\ StagesInv /\ SnapInv /\ LastInv

----------------------------------------------------------------------------
(* The queue *)

LEMMA Appended ==
    ASSUME NEW q \in Seq(Kinds), NEW k \in Kinds
    PROVE  /\ Append(q, k) \in Seq(Kinds) /\ Len(Append(q, k)) = Len(q) + 1
           /\ DOMAIN Append(q, k) = DOMAIN q \cup {Len(q) + 1}
           /\ \A i \in DOMAIN q : Append(q, k)[i] = q[i] /\ i \in Nat /\ i < Len(q) + 1
           /\ Append(q, k)[Len(q) + 1] = k /\ Len(q) \in Nat
OBVIOUS

LEMMA Taken ==
    ASSUME NEW q \in Seq(Kinds), q # <<>>
    PROVE  /\ Head(q) \in Kinds /\ 1 \in DOMAIN q /\ Head(q) = q[1]
           /\ Tail(q) \in Seq(Kinds) /\ Len(Tail(q)) = Len(q) - 1 /\ Len(q) \in Nat
           /\ \A i \in DOMAIN Tail(q) :
                 i \in Nat /\ i > 0 /\ i + 1 \in DOMAIN q /\ Tail(q)[i] = q[i + 1]
OBVIOUS

LEMMA Voided ==
    ASSUME NEW kind \in Kinds, cmds \in Seq(Kinds)
    PROVE  /\ Abandoned(kind) \in Seq(Kinds) /\ Len(Abandoned(kind)) = Len(cmds)
           /\ DOMAIN Abandoned(kind) = DOMAIN cmds
           /\ \A i \in DOMAIN cmds :
                 Abandoned(kind)[i] = IF cmds[i] = kind THEN "void" ELSE cmds[i]
<1>1. DOMAIN cmds = 1 .. Len(cmds) /\ Len(cmds) \in Nat
  OBVIOUS
<1>2. \A i \in 1 .. Len(cmds) : (IF cmds[i] = kind THEN "void" ELSE cmds[i]) \in Kinds
  BY DEF Kinds
<1>3. Abandoned(kind) \in [1 .. Len(cmds) -> Kinds]
  BY <1>1, <1>2 DEF Abandoned
<1>4. Abandoned(kind) \in Seq(Kinds) /\ Len(Abandoned(kind)) = Len(cmds)
  BY <1>1, <1>3
<1> QED
  BY <1>1, <1>4 DEF Abandoned

----------------------------------------------------------------------------
(* The steps *)

LEMMA StopStarts == Init => StopInv
<1> SUFFICES ASSUME Init PROVE StopInv
  OBVIOUS
<1>1. NoWork \in Worlds /\ 1 \in Days /\ 0 \in 0 .. LogBuffer /\ 0 \in 0 .. MaxWork
  BY DEF NoWork, Worlds, Days, EngineAssumption
<1>2. cmds \in Seq(Kinds) /\ Len(cmds) <= MaxCmds /\ DOMAIN cmds = {}
  BY DEF Init, EngineAssumption
<1>3. TypeOK
  BY <1>1, <1>2 DEF Init, TypeOK, Stages
<1>4. StagesInv /\ SnapInv /\ LastInv
  BY <1>2 DEF Init, StagesInv, SnapInv, LastInv, CkEnded, PoolGone, FinalDone
<1> QED
  BY <1>3, <1>4 DEF StopInv

\* Steps that leave run, the queue, the world and what is saved alone.
LEMMA Aside ==
    ASSUME StopInv, TypeOK', StagesInv',
           UNCHANGED <<main, final, mainSnap, cmds, world, saved>>,
           ck' = ck \/ \A i \in DOMAIN cmds : cmds[i] # "snapPeriodic"
    PROVE  StopInv'
BY DEF StopInv, SnapInv, LastInv, NoTick

LEMMA SendKeeps ==
    ASSUME StopInv, NEW k \in {"tick", "other"}, Len(cmds) < MaxCmds,
           cmds' = Append(cmds, k), sent' \in 0 .. MaxWork,
           k = "tick" => main \notin PoolGone,
           worker' \in [Workers -> {"busy", "waiting", "gone"}],
           main \in PoolGone => worker' = worker,
           UNCHANGED <<stopVars, mainVars, ckVars, world, loop, logVars, pushVars, saved, crashed>>
    PROVE  StopInv'
<1> USE DEF StopInv, stopVars, mainVars, ckVars, logVars, pushVars
<1>1. cmds \in Seq(Kinds) /\ k \in Kinds
  BY DEF TypeOK, Kinds
<1>2. TypeOK'
  BY <1>1, Appended DEF TypeOK
<1>3. StagesInv'
  BY DEF StagesInv
<1>4. SnapInv'
  BY <1>1, Appended DEF SnapInv
<1>5. LastInv'
  BY <1>1, Appended DEF LastInv, NoTick, PoolGone, CkEnded, StagesInv, FinalDone
<1> QED
  BY <1>2, <1>3, <1>4, <1>5

LEMMA ExecuteKeeps ==
    ASSUME StopInv, Execute
    PROVE  StopInv'
<1> USE DEF StopInv
<1> DEFINE kind == Head(cmds)
           mutates == kind \in {"tick", "other"}
<1>1. cmds \in Seq(Kinds) /\ cmds # <<>> /\ cmds' = Tail(cmds)
  BY DEF TypeOK, Execute
<1>2. /\ kind \in Kinds /\ 1 \in DOMAIN cmds /\ kind = cmds[1]
      /\ cmds' \in Seq(Kinds) /\ Len(cmds') <= MaxCmds
      /\ \A i \in DOMAIN cmds' :
            i \in Nat /\ i > 0 /\ i + 1 \in DOMAIN cmds /\ cmds'[i] = cmds[i + 1]
  BY <1>1, Taken DEF TypeOK
<1>3. /\ kind = "snapMain" => main \in {"gateWait", "finalWait"}
      /\ kind = "snapPeriodic" => ck = "wait"
  BY <1>2 DEF SnapInv
<1>4. \A i \in DOMAIN cmds' : kind \in {"snapMain", "snapPeriodic"} => cmds'[i] # kind
  BY <1>2 DEF SnapInv
<1>5. /\ loop # "done"
      /\ world' = [all |-> IF mutates THEN world.all + 1 ELSE world.all,
                   ticks |-> IF kind = "tick" THEN world.ticks + 1 ELSE world.ticks]
      /\ logQueue' \in {logQueue, logQueue + 1} /\ logQueue' <= LogBuffer
      /\ worker' \in [Workers -> {"busy", "waiting", "gone"}]
      /\ \A w \in Workers : worker'[w] = worker[w] \/ (worker[w] = "waiting" /\ worker'[w] = "busy")
      /\ IF kind = "snapMain"
         THEN /\ mainSnap' = world
              /\ main' = IF main = "gateWait" THEN "gateSave" ELSE "finalSave"
         ELSE UNCHANGED <<mainSnap, main>>
      /\ IF kind = "snapPeriodic"
         THEN ckSnap' = world /\ ck' = "save"
         ELSE UNCHANGED <<ck, ckSnap>>
      /\ UNCHANGED <<stopVars, gateOK, final, sent, loop, writer, pushVars, saved, crashed>>
  <2>1. /\ worker' \in [Workers -> {"busy", "waiting", "gone"}]
        /\ \A w \in Workers :
              worker'[w] = worker[w] \/ (worker[w] = "waiting" /\ worker'[w] = "busy")
    <3>1. CASE UNCHANGED worker
      BY <3>1 DEF TypeOK
    <3>2. CASE \E w \in Workers :
                  worker[w] = "waiting" /\ worker' = [worker EXCEPT ![w] = "busy"]
      BY <3>2 DEF TypeOK
    <3> QED
      BY <3>1, <3>2 DEF Execute
  <2>2. logQueue' \in {logQueue, logQueue + 1} /\ logQueue' <= LogBuffer
    <3>1. /\ logQueue \in Nat /\ logQueue <= LogBuffer /\ LogBuffer \in Nat
          /\ logQueue' = logQueue \/ (logQueue < LogBuffer /\ logQueue' = logQueue + 1)
      BY DEF Execute, TypeOK, EngineAssumption
    <3> QED
      BY <3>1
  <2>3. /\ IF kind = "snapMain"
           THEN /\ mainSnap' = world
                /\ main' = IF main = "gateWait" THEN "gateSave" ELSE "finalSave"
           ELSE UNCHANGED <<mainSnap, main>>
        /\ IF kind = "snapPeriodic"
           THEN ckSnap' = world /\ ck' = "save"
           ELSE UNCHANGED <<ck, ckSnap>>
    BY DEF Execute, ckVars
  <2> QED
    BY <2>1, <2>2, <2>3 DEF Execute
<1>6. TypeOK'
  <2>1. world \in Worlds /\ world' \in Worlds
    <3>1. world \in Worlds
      BY DEF TypeOK
    <3>2. world.all + 1 \in Nat /\ world.all \in Nat /\ world.ticks + 1 \in Nat /\ world.ticks \in Nat
      BY <3>1 DEF Worlds
    <3> QED
      BY <1>5, <3>1, <3>2 DEF Worlds
  <2>2. main' \in Stages /\ ck' \in {"idle", "ask", "wait", "save", "ended"}
    BY <1>5 DEF TypeOK, Stages
  <2>3. mainSnap' \in Worlds /\ ckSnap' \in Worlds
    BY <1>5, <2>1 DEF TypeOK
  <2>4. logQueue' \in 0 .. LogBuffer
    BY <1>5 DEF TypeOK, EngineAssumption
  <2> QED
    BY <1>2, <1>5, <2>1, <2>2, <2>3, <2>4 DEF TypeOK, stopVars, pushVars
<1>7. StagesInv'
  <2>1. writer = "on"
    BY <1>5 DEF StagesInv
  <2>2. main' \in CkEnded => main \in CkEnded /\ ck' = ck
    BY <1>3, <1>5 DEF CkEnded, StagesInv
  <2>3. main' \in PoolGone => main \in PoolGone
    BY <1>3, <1>5 DEF PoolGone, CkEnded
  <2>4. main \in FinalDone => main' = main
    BY <1>3, <1>5 DEF FinalDone
  <2>5. main' \in {"lastWaits", "exited"} => main' = main
    BY <1>3, <1>5
  <2> QED
    BY <1>5, <2>1, <2>2, <2>3, <2>4, <2>5 DEF StagesInv, pushVars
<1>8. SnapInv'
  <2>1. \A i, j \in DOMAIN cmds' :
           cmds'[i] = cmds'[j] /\ cmds'[i] \in {"snapMain", "snapPeriodic"} => i = j
    BY <1>2 DEF SnapInv
  <2>2. \A i \in DOMAIN cmds' : cmds'[i] = "snapMain" => main' \in {"gateWait", "finalWait"}
    BY <1>2, <1>4, <1>5 DEF SnapInv
  <2>3. \A i \in DOMAIN cmds' : cmds'[i] = "snapPeriodic" => ck' = "wait"
    BY <1>2, <1>4, <1>5 DEF SnapInv
  <2> QED
    BY <2>1, <2>2, <2>3 DEF SnapInv
<1>9. LastInv'
  <2>1. main' = "finalWait" =>
           \A i, j \in DOMAIN cmds' : cmds'[i] = "snapMain" /\ i < j => cmds'[j] # "tick"
    <3>1. main' = "finalWait" => main = "finalWait"
      BY <1>5
    <3> QED
      BY <1>2, <3>1 DEF LastInv
  <2>2. NoTick => kind # "tick" /\ NoTick'
    BY <1>2 DEF NoTick
  <2>3. main' = "finalSave" => world'.ticks = mainSnap'.ticks /\ NoTick'
    <3>1. CASE kind = "snapMain" /\ main = "finalWait"
      <4>1. NoTick'
        BY <1>2, <3>1 DEF LastInv, NoTick
      <4>2. world'.ticks = mainSnap'.ticks
        BY <1>5, <3>1 DEF TypeOK, Worlds
      <4> QED
        BY <4>1, <4>2
    <3>2. CASE ~(kind = "snapMain" /\ main = "finalWait")
      <4>1. main' = "finalSave" => main = "finalSave" /\ mainSnap' = mainSnap
        BY <1>3, <1>5, <3>2
      <4>2. main = "finalSave" => world'.ticks = world.ticks
        BY <1>5, <2>2 DEF LastInv
      <4> QED
        BY <2>2, <4>1, <4>2 DEF LastInv
    <3> QED
      BY <3>1, <3>2
  <2>4. final' = "ok" => saved' = mainSnap' /\ world'.ticks = saved'.ticks /\ NoTick'
    <3>1. final = "ok" => kind # "snapMain"
      BY <1>3 DEF StagesInv, FinalDone
    <3>2. final = "ok" => world'.ticks = world.ticks /\ mainSnap' = mainSnap
      BY <1>5, <2>2, <3>1 DEF LastInv
    <3> QED
      BY <1>5, <2>2, <3>2 DEF LastInv
  <2> QED
    BY <2>1, <2>3, <2>4 DEF LastInv
<1> QED
  BY <1>6, <1>7, <1>8, <1>9

\* The goroutines beside run and the end of the world's loop.
LEMMA OthersKeep ==
    ASSUME StopInv,
           \/ LoopEnds \/ CkDue \/ CkAsk \/ CkSave \/ CkStops
           \/ WriteRow \/ WriterEnds
           \/ \E w \in Workers : WorkerExits(w)
    PROVE  StopInv'
<1> USE DEF StopInv
<1>1. CASE LoopEnds
  <2>1. TypeOK' /\ StagesInv'
    BY <1>1 DEF LoopEnds, TypeOK, StagesInv, stopVars, mainVars, ckVars, logVars, pushVars
  <2> QED
    BY <1>1, <2>1, Aside DEF LoopEnds, mainVars, ckVars
<1>2. CASE CkDue
  <2>1. TypeOK' /\ StagesInv'
    BY <1>2 DEF CkDue, CkCancelled, TypeOK, StagesInv, CkEnded, stopVars, mainVars, loopVars,
                logVars, pushVars
  <2>2. \A i \in DOMAIN cmds : cmds[i] # "snapPeriodic"
    BY <1>2 DEF CkDue, SnapInv
  <2> QED
    BY <1>2, <2>1, <2>2, Aside DEF CkDue, mainVars, loopVars
<1>3. CASE CkAsk
  <2>1. cmds \in Seq(Kinds) /\ "snapPeriodic" \in Kinds /\ cmds' = Append(cmds, "snapPeriodic")
    BY <1>3 DEF CkAsk, TypeOK, Kinds
  <2>2. TypeOK'
    BY <1>3, <2>1, Appended DEF CkAsk, Room, TypeOK, stopVars, mainVars, logVars, pushVars
  <2>3. StagesInv'
    BY <1>3 DEF CkAsk, StagesInv, mainVars, logVars, pushVars
  <2>4. SnapInv'
    BY <1>3, <2>1, Appended DEF CkAsk, SnapInv, mainVars
  <2>5. LastInv'
    BY <1>3, <2>1, Appended DEF CkAsk, LastInv, NoTick, mainVars
  <2> QED
    BY <2>2, <2>3, <2>4, <2>5
<1>4. CASE CkSave
  <2>1. TypeOK' /\ StagesInv'
    BY <1>4 DEF CkSave, TypeOK, StagesInv, Worlds, NoWork, stopVars, mainVars, loopVars,
                logVars, pushVars
  <2>2. SnapInv'
    BY <1>4 DEF CkSave, SnapInv, mainVars, loopVars
  <2>3. LastInv'
    BY <1>4 DEF CkSave, LastInv, NoTick, StagesInv, CkEnded, FinalDone, mainVars, loopVars
  <2> QED
    BY <2>1, <2>2, <2>3
<1>5. CASE CkStops
  <2>1. cmds \in Seq(Kinds) /\ "snapPeriodic" \in Kinds /\ cmds' = Abandoned("snapPeriodic")
    BY <1>5 DEF CkStops, TypeOK, Kinds
  <2>2. TypeOK'
    BY <1>5, <2>1, Voided DEF CkStops, TypeOK, Worlds, NoWork, stopVars, mainVars, logVars, pushVars
  <2>3. StagesInv'
    BY <1>5 DEF CkStops, StagesInv, mainVars, logVars, pushVars
  <2>0. \A i \in DOMAIN cmds' :
           i \in DOMAIN cmds /\ cmds'[i] = IF cmds[i] = "snapPeriodic" THEN "void" ELSE cmds[i]
    BY <2>1, Voided
  <2>6. UNCHANGED <<main, final, mainSnap, world, saved>>
    BY <1>5 DEF CkStops, mainVars
  <2>4. SnapInv'
    BY <2>0, <2>6 DEF SnapInv
  <2>5. LastInv'
    BY <2>0, <2>6 DEF LastInv, NoTick
  <2> QED
    BY <2>2, <2>3, <2>4, <2>5
<1>6. CASE WriteRow \/ WriterEnds
  <2>1. TypeOK' /\ StagesInv'
    BY <1>6 DEF WriteRow, WriterEnds, TypeOK, StagesInv, Ended, stopVars, mainVars, ckVars,
                loopVars, pushVars, EngineAssumption
  <2> QED
    BY <1>6, <2>1, Aside DEF WriteRow, WriterEnds, mainVars, ckVars, loopVars
<1>7. ASSUME NEW w \in Workers, WorkerExits(w) PROVE StopInv'
  <2>1. TypeOK' /\ StagesInv'
    BY <1>7 DEF WorkerExits, TypeOK, StagesInv, stopVars, mainVars, ckVars, loopVars, logVars,
                pushVars
  <2> QED
    BY <1>7, <2>1, Aside DEF WorkerExits, mainVars, ckVars, loopVars
<1> QED
  BY <1>1, <1>2, <1>3, <1>4, <1>5, <1>6, <1>7

LEMMA PushAside ==
    ASSUME StopInv, PushInv', Midnight \/ Dispatch \/ PostDay \/ StampDay \/ PushEnds
    PROVE  StopInv'
<1> USE DEF StopInv
<1>1. /\ UNCHANGED <<stopVars, mainVars, ckVars, loopVars, worker, logVars, saved, crashed>>
      /\ main = "exited" => push' = push
  BY DEF Midnight, Dispatch, PostDay, StampDay, PushEnds, Ended
<1>2. TypeOK'
  BY <1>1 DEF PushInv, TypeOK, stopVars, mainVars, ckVars, loopVars, logVars
<1>3. StagesInv'
  BY <1>1 DEF StagesInv, mainVars, ckVars, loopVars, logVars
<1> QED
  BY <1>1, <1>2, <1>3, Aside DEF mainVars, ckVars, loopVars

LEMMA RunKeeps ==
    ASSUME StopInv, Stop
    PROVE  StopInv'
<1> USE DEF StopInv
<1>1. CASE Gate \/ HTTPShutdown \/ CheckpointerDone \/ PoolDone \/ CancelWorld \/ WorldDone
           \/ LastWaits
  <2>1. TypeOK'
    <3>1. CASE Gate
      BY <3>1 DEF Gate, TypeOK, Stages, ckVars, loopVars, logVars, pushVars
    <3>2. CASE HTTPShutdown \/ CheckpointerDone \/ PoolDone \/ LastWaits
      BY <3>2 DEF HTTPShutdown, CheckpointerDone, PoolDone, LastWaits,
                  TypeOK, Stages, stopVars, ckVars, loopVars, logVars, pushVars
    <3>3. CASE CancelWorld
      BY <3>3 DEF CancelWorld, TypeOK, stopVars, mainVars, ckVars, logVars, pushVars
    <3>4. CASE WorldDone
      BY <3>4 DEF WorldDone, TypeOK, Stages, stopVars, ckVars, loopVars, pushVars
    <3> QED
      BY <1>1, <3>1, <3>2, <3>3, <3>4
  <2>2. StagesInv'
    BY <1>1 DEF Gate, HTTPShutdown, CheckpointerDone, PoolDone, CancelWorld, WorldDone, LastWaits,
                StagesInv, CkEnded, PoolGone, FinalDone, TypeOK,
                stopVars, mainVars, ckVars, loopVars, logVars, pushVars
  <2>3. UNCHANGED <<cmds, ck, final, mainSnap, world, saved>>
    BY <1>1 DEF Gate, HTTPShutdown, CheckpointerDone, PoolDone, CancelWorld, WorldDone, LastWaits,
                mainVars, ckVars, loopVars
  <2>4. /\ main \notin {"gateWait", "finalWait", "finalSave"}
        /\ main' \notin {"finalWait", "finalSave"}
    BY <1>1 DEF Gate, HTTPShutdown, CheckpointerDone, PoolDone, CancelWorld, WorldDone, LastWaits,
                mainVars
  <2>5. SnapInv' /\ LastInv'
    BY <2>3, <2>4 DEF SnapInv, LastInv, NoTick
  <2> QED
    BY <2>1, <2>2, <2>5
<1>2. CASE Ask
  <2>1. cmds \in Seq(Kinds) /\ "snapMain" \in Kinds /\ cmds' = Append(cmds, "snapMain")
    BY <1>2 DEF Ask, TypeOK, Kinds
  <2>2. TypeOK'
    BY <1>2, <2>1, Appended DEF Ask, Room, TypeOK, Stages, stopVars, ckVars, logVars, pushVars
  <2>3. StagesInv'
    BY <1>2 DEF Ask, StagesInv, CkEnded, PoolGone, FinalDone, ckVars, logVars, pushVars
  <2>4. \A i \in DOMAIN cmds : cmds[i] # "snapMain"
    BY <1>2 DEF Ask, SnapInv
  <2>5. SnapInv'
    BY <1>2, <2>1, <2>4, Appended DEF Ask, SnapInv, ckVars
  <2>6. main' = "finalWait" =>
           \A i, j \in DOMAIN cmds' : cmds'[i] = "snapMain" /\ i < j => cmds'[j] # "tick"
    BY <2>1, <2>4, Appended
  <2>7. final = "ok" => FALSE
    BY <1>2 DEF Ask, StagesInv, FinalDone
  <2> QED
    BY <1>2, <2>2, <2>3, <2>5, <2>6, <2>7 DEF Ask, LastInv
<1>3. CASE Save
  <2>1. TypeOK' /\ StagesInv'
    BY <1>3 DEF Save, TypeOK, Stages, StagesInv, CkEnded, PoolGone, FinalDone,
                stopVars, ckVars, loopVars, logVars, pushVars
  <2>2. SnapInv'
    BY <1>3 DEF Save, SnapInv, ckVars, loopVars
  <2>3. LastInv'
    BY <1>3 DEF Save, LastInv, NoTick, StagesInv, FinalDone, loopVars
  <2> QED
    BY <2>1, <2>2, <2>3
<1>4. CASE NotSaved
  <2>1. cmds \in Seq(Kinds) /\ "snapMain" \in Kinds /\ cmds' = Abandoned("snapMain")
    BY <1>4 DEF NotSaved, TypeOK, Kinds
  <2>2. TypeOK'
    BY <1>4, <2>1, Voided DEF NotSaved, TypeOK, Stages, stopVars, ckVars, logVars, pushVars
  <2>3. StagesInv'
    BY <1>4 DEF NotSaved, StagesInv, CkEnded, PoolGone, FinalDone, ckVars, logVars, pushVars
  <2>0. \A i \in DOMAIN cmds' :
           i \in DOMAIN cmds /\ cmds'[i] = IF cmds[i] = "snapMain" THEN "void" ELSE cmds[i]
    BY <2>1, Voided
  <2>6. ck' = ck
    BY <1>4 DEF NotSaved, ckVars
  <2>4. SnapInv'
    BY <2>0, <2>6 DEF SnapInv
  <2>5. final' # "ok" /\ main' \notin {"finalWait", "finalSave"}
    BY <1>4 DEF NotSaved, StagesInv, FinalDone
  <2> QED
    BY <2>2, <2>3, <2>4, <2>5 DEF LastInv
<1> QED
  BY <1>1, <1>2, <1>3, <1>4 DEF Stop

LEMMA StopKeeps == StopInv /\ PushInv' /\ [Next]_vars => StopInv'
<1> SUFFICES ASSUME StopInv, PushInv', [Next]_vars PROVE StopInv'
  OBVIOUS
<1> USE DEF StopInv
<1>1. ASSUME NEW w \in Workers, SendTick(w) PROVE StopInv'
  <2>1. sent' \in 0 .. MaxWork /\ worker' \in [Workers -> {"busy", "waiting", "gone"}]
    BY <1>1 DEF SendTick, TypeOK, EngineAssumption
  <2>2. main \notin PoolGone
    BY <1>1 DEF SendTick, StagesInv
  <2> QED
    BY <1>1, <2>1, <2>2, SendKeeps DEF SendTick, Room
<1>2. CASE SendOther
  <2>1. sent' \in 0 .. MaxWork /\ worker' \in [Workers -> {"busy", "waiting", "gone"}]
    BY <1>2 DEF SendOther, TypeOK, EngineAssumption
  <2> QED
    BY <1>2, <2>1, SendKeeps DEF SendOther, Room
<1>3. CASE SignalForce \/ SignalGraceful
  <2>1. TypeOK'
    <3>1. CASE SignalForce
      BY <3>1 DEF SignalForce, TypeOK, mainVars, ckVars, loopVars, logVars, pushVars
    <3>2. CASE SignalGraceful
      BY <3>2 DEF SignalGraceful, TypeOK, mainVars, ckVars, loopVars, logVars, pushVars
    <3> QED
      BY <1>3, <3>1, <3>2
  <2>2. StagesInv'
    BY <1>3 DEF SignalForce, SignalGraceful, StagesInv, mainVars, ckVars, loopVars, logVars,
                pushVars
  <2> QED
    BY <1>3, <2>1, <2>2, Aside DEF SignalForce, SignalGraceful, mainVars, ckVars, loopVars
<1>4. CASE Crash
  <2>1. TypeOK'
    <3>1. NoWork \in Worlds /\ 0 \in 0 .. LogBuffer
      BY DEF NoWork, Worlds, EngineAssumption
    <3>2. cmds' \in Seq(Kinds) /\ Len(cmds') <= MaxCmds
      BY <1>4 DEF Crash, EngineAssumption
    <3> QED
      BY <1>4, <3>1, <3>2 DEF Crash, TypeOK, Stages
  <2>2. StagesInv' /\ SnapInv' /\ LastInv'
    BY <1>4 DEF Crash, StagesInv, SnapInv, LastInv, NoTick, CkEnded, PoolGone, FinalDone
  <2> QED
    BY <2>1, <2>2
<1>5. CASE UNCHANGED vars
  <2>1. TypeOK' /\ StagesInv'
    BY <1>5 DEF vars, stopVars, mainVars, ckVars, loopVars, logVars, pushVars, TypeOK, StagesInv
  <2> QED
    BY <1>5, <2>1, Aside DEF vars, mainVars, ckVars, loopVars
<1> QED
  BY <1>1, <1>2, <1>3, <1>4, <1>5, ExecuteKeeps, OthersKeep, PushAside, RunKeeps DEF Next

\* However a stop races the periodic checkpoint, the workers' last commands and the
\* deadlines of the teardown: a checkpoint called final stands and holds every tick, and
\* run returns after all it started (main.go, the shutdown order of run).
THEOREM StopIsOrderly == Spec => []OrderlyStop
<1>1. StopInv => OrderlyStop
  BY DEF StopInv, OrderlyStop, FinalStands, QuietExit, StagesInv, LastInv, CkEnded, PoolGone
<1> QED
  BY <1>1, PushStarts, PushKeeps, StopStarts, StopKeeps, PTL DEF Spec

HIDE EngineAssumption
=============================================================================
