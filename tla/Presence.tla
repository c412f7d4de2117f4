------------------------------ MODULE Presence ------------------------------
(***************************************************************************)
(* Whether a human is there.  The logins the hub lists (the Sockets module,*)
(* which the Hub module implements) drive the heartbeat                    *)
(* that keeps a player's character present (src/engine/sim/pc_presence.go);*)
(* connecting, acting and answering the candle keep the village's audience *)
(* (pc_idle_audience.go); and both decide when a character is put to bed   *)
(* and woken (pc_sleep.go).  One player character per login.               *)
(*                                                                         *)
(* Two clocks.  Tick is one heartbeat interval (15 s): seen counts the     *)
(* intervals since LastPCSeenAt.  The horizons of a quarter of an hour     *)
(* (idle bed) and of an hour (audience) are far beyond it, so LastPCInputAt*)
(* and LastPCActivityAt are kept as the horizons they have passed.         *)
(*                                                                         *)
(* pcCanSleepHere -- a paid room or a home where the character stands --   *)
(* is one boolean that rent and walking change; the room itself, and the   *)
(* tiredness that ends or invites sleep, are inputs of the sweeps.  The    *)
(* presence sweep (SweepStalePCPresence) changes warrants and edges, which *)
(* the Reactor and Huddles modules keep: here is the predicate it reads.   *)
(***************************************************************************)
EXTENDS Naturals, Sockets

CONSTANTS
    StaleAfter,   \* intervals: PCPresenceStaleAfter / PCPresenceHeartbeatInterval
    MaxLate       \* assumed: a heartbeat lands within this many intervals

ASSUME PresenceAssumption ==
    /\ {StaleAfter, MaxLate} \subseteq Nat /\ MaxLate > 0
    /\ LoginOf \in [Clients -> Logins]

VARIABLES
    stamps,      \* handleEvents' StampPCConnected: none, due, done
    seen,        \* intervals since LastPCSeenAt; nil counts as stale
    activity,    \* LastPCActivityAt: 0 fresh, 1 a quarter of an hour ago, 2 past the audience horizon
    inputIdle,   \* LastPCInputAt is a quarter of an hour ago
    prompt,      \* IdlePromptPending
    bedded,      \* awake, or what put the character to bed (SleepingUntil)
    bed,         \* pcCanSleepHere
    beat,        \* logins a heartbeat has read and not yet stamped
    beatAge,     \* intervals since the last heartbeat landed
    nextPass     \* which command of runPCSleepTick comes next

pcVars == <<stamps, seen, activity, inputIdle, prompt, bedded, bed, beat, beatAge, nextPass>>
presenceVars == <<sockets, pcVars>>
attention == <<activity, inputIdle, prompt>>
clock == <<beat, beatAge>>

PresenceTypeOK ==
    /\ held \subseteq Clients /\ listed \subseteq Logins /\ up \in BOOLEAN
    /\ stamps \in [Clients -> {"none", "due", "done"}]
    /\ seen \in [Logins -> 0 .. StaleAfter + 1]
    /\ activity \in [Logins -> 0 .. 2]
    /\ inputIdle \in [Logins -> BOOLEAN]
    /\ prompt \in [Logins -> BOOLEAN]
    /\ bedded \in [Logins -> {"awake", "tap", "idle", "offline"}]
    /\ bed \in [Logins -> BOOLEAN]
    /\ beat \in SUBSET Logins
    /\ beatAge \in 0 .. MaxLate
    /\ nextPass \in {"wake", "idle", "offline"}

Stale(l) == seen[l] > StaleAfter
Idle(l) == activity[l] = 2
Asleep(l) == bedded[l] # "awake"

PresenceInit ==
    /\ SocketsInit
    /\ stamps = [c \in Clients |-> "none"]
    /\ seen = [l \in Logins |-> StaleAfter + 1]
    /\ activity = [l \in Logins |-> 2]
    /\ inputIdle = [l \in Logins |-> FALSE]
    /\ prompt = [l \in Logins |-> FALSE]
    /\ bedded \in [Logins -> {"awake", "tap", "idle", "offline"}]
    /\ bed \in [Logins -> BOOLEAN]
    /\ beat = {} /\ beatAge = 0 /\ nextPass = "wake"

(***************************************************************************)
(* Stamps.                                                                 *)
(***************************************************************************)

\* Mutant: stamped first, then asked whether the player was away.
MutSeen(logins) ==
    /\ seen' = [l \in Logins |-> IF l \in logins THEN 0 ELSE seen[l]]
    /\ UNCHANGED bedded

\* StampConnectedPCsSeen: a sleeper whose player was away wakes, judged before
\* the stamp makes the character fresh.
Seen(logins) ==
    /\ bedded' = [l \in Logins |-> IF l \in logins /\ Stale(l) THEN "awake" ELSE bedded[l]]
    /\ seen' = [l \in Logins |-> IF l \in logins THEN 0 ELSE seen[l]]

\* TouchPCActivity
Attended(l) ==
    /\ activity' = [activity EXCEPT ![l] = 0]
    /\ prompt' = [prompt EXCEPT ![l] = FALSE]

\* The hub takes a client from its register channel; the handler that sent it
\* goes on to the stamp.
Connect(c) ==
    /\ c \notin held /\ stamps[c] # "due" /\ Join(c)
    /\ stamps' = [stamps EXCEPT ![c] = "due"]
    /\ UNCHANGED <<seen, attention, bedded, bed, clock, nextPass>>

\* Sockets go, or are evicted, or the hub stops.
Disconnect ==
    /\ (\E cs \in SUBSET held : cs # {} /\ Leave(cs)) \/ HubEnds
    /\ UNCHANGED pcVars

\* The world goroutine runs StampPCConnected, presence and activity at once.
StampConnected(c) ==
    /\ stamps[c] = "due"
    /\ Seen({LoginOf[c]}) /\ Attended(LoginOf[c])
    /\ stamps' = [stamps EXCEPT ![c] = "done"]
    /\ UNCHANGED <<sockets, inputIdle, bed, clock, nextPass>>

\* The request's context ends before the world took the command.
StampLost(c) ==
    /\ stamps[c] = "due"
    /\ stamps' = [stamps EXCEPT ![c] = "none"]
    /\ UNCHANGED <<sockets, seen, attention, bedded, bed, clock, nextPass>>

\* Mutant: the heartbeat stamps only those already stale.
MutReadLogins ==
    /\ beat = {} /\ up
    /\ beat' = {l \in listed : Stale(l)}
    /\ beatAge' = IF beat' = {} THEN 0 ELSE beatAge
    /\ UNCHANGED <<sockets, stamps, seen, attention, bedded, bed, nextPass>>

\* RunPCPresenceHeartbeat reads the hub; no login, no command.
ReadLogins ==
    /\ beat = {} /\ up
    /\ beat' = listed
    /\ beatAge' = IF beat' = {} THEN 0 ELSE beatAge
    /\ UNCHANGED <<sockets, stamps, seen, attention, bedded, bed, nextPass>>

Heartbeat ==
    /\ beat # {}
    /\ Seen(beat)
    /\ beat' = {} /\ beatAge' = 0
    /\ UNCHANGED <<sockets, stamps, attention, bed, nextPass>>

\* TouchPCInput, before each command of the player's own.
Act(l) ==
    /\ seen' = [seen EXCEPT ![l] = 0]
    /\ Attended(l)
    /\ inputIdle' = [inputIdle EXCEPT ![l] = FALSE]
    /\ bedded' = [bedded EXCEPT ![l] = "awake"]
    /\ UNCHANGED <<sockets, stamps, bed, clock, nextPass>>

\* AckPCIdlePrompt
Attend(l) ==
    /\ Attended(l)
    /\ UNCHANGED <<sockets, stamps, seen, inputIdle, bedded, bed, clock, nextPass>>

(***************************************************************************)
(* Bed.                                                                    *)
(***************************************************************************)

\* SleepPC and WakePC, the player's own buttons: neither stamps input.
SleepPC(l) ==
    /\ ~Asleep(l) /\ bed[l]
    /\ bedded' = [bedded EXCEPT ![l] = "tap"]
    /\ UNCHANGED <<sockets, stamps, seen, attention, bed, clock, nextPass>>

WakePC(l) ==
    /\ Asleep(l)
    /\ bedded' = [bedded EXCEPT ![l] = "awake"]
    /\ UNCHANGED <<sockets, stamps, seen, attention, bed, clock, nextPass>>

\* runPCSleepTick sends three commands in this order; others come between them.
\* rested, capped and tired are the characters at their rest floor, past the
\* safety cap and past the red line; capped also stands for the one found outside
\* its own bedroom, whom the pass wakes as a repair.
WakeExpiredPCSleepers(rested, capped) ==
    /\ nextPass = "wake" /\ nextPass' = "idle"
    /\ bedded' = [l \in Logins |-> IF (l \in rested /\ ~Stale(l)) \/ l \in capped \/ ~bed[l]
                                   THEN "awake" ELSE bedded[l]]
    /\ UNCHANGED <<sockets, stamps, seen, attention, bed, clock>>

AutoBedIdleLodgerPCs(tired) ==
    /\ nextPass = "idle" /\ nextPass' = "offline"
    /\ bedded' = [l \in Logins |->
                    IF ~Asleep(l) /\ inputIdle[l] /\ activity[l] > 0 /\ l \in tired /\ bed[l]
                    THEN "idle" ELSE bedded[l]]
    /\ UNCHANGED <<sockets, stamps, seen, attention, bed, clock>>

AutoBedOfflineLodgerPCs ==
    /\ nextPass = "offline" /\ nextPass' = "wake"
    /\ bedded' = [l \in Logins |-> IF ~Asleep(l) /\ Stale(l) /\ bed[l]
                                   THEN "offline" ELSE bedded[l]]
    /\ UNCHANGED <<sockets, stamps, seen, attention, bed, clock>>

\* A room is rented, its night ends, or the character walks in or out.
BedChanges(l) ==
    /\ bed' = [bed EXCEPT ![l] = ~@]
    /\ UNCHANGED <<sockets, stamps, seen, attention, bedded, clock, nextPass>>

(***************************************************************************)
(* The candle.                                                             *)
(***************************************************************************)

\* Mutant: the sweep only raises.
MutCandle(l) == prompt[l] \/ (~Stale(l) /\ ~Asleep(l) /\ Idle(l))

\* SweepPCIdleAudience lowers and raises each character's prompt.
Candle(l) ==
    IF prompt[l]
    THEN Stale(l) \/ (Idle(l) /\ ~Asleep(l))
    ELSE ~Stale(l) /\ ~Asleep(l) /\ Idle(l)

SweepPCIdleAudience ==
    /\ prompt' = [l \in Logins |-> Candle(l)]
    /\ UNCHANGED <<sockets, stamps, seen, activity, inputIdle, bedded, bed, clock, nextPass>>

\* The operator raises eco_audience_idle_seconds over the idle ones.
HorizonRaised ==
    /\ \E l \in Logins : Idle(l)
    /\ activity' = [l \in Logins |-> IF Idle(l) THEN 1 ELSE activity[l]]
    /\ UNCHANGED <<sockets, stamps, seen, inputIdle, prompt, bedded, bed, clock, nextPass>>

(***************************************************************************)
(* Time and the process.                                                   *)
(***************************************************************************)

\* An interval passes: a heartbeat that was read has landed, and the heartbeat is
\* late by less than MaxLate intervals.
Tick ==
    /\ beat = {} /\ beatAge < MaxLate
    /\ seen' = [l \in Logins |-> IF Stale(l) THEN seen[l] ELSE seen[l] + 1]
    /\ beatAge' = beatAge + 1
    /\ UNCHANGED <<sockets, stamps, attention, bedded, bed, beat, nextPass>>

\* Long without a sign of the player.
Linger(l) ==
    /\ inputIdle' = [inputIdle EXCEPT ![l] = TRUE]
    /\ activity' = [activity EXCEPT ![l] = IF @ < 2 THEN @ + 1 ELSE @]
    /\ UNCHANGED <<sockets, stamps, seen, prompt, bedded, bed, clock, nextPass>>

\* A new process: sleep is loaded, the stamps are not, and the input stamp is
\* seeded at boot (restartSeedPCInputStamps).
Restart ==
    /\ held' = {} /\ listed' = {} /\ up' = TRUE
    /\ stamps' = [c \in Clients |-> "none"]
    /\ seen' = [l \in Logins |-> StaleAfter + 1]
    /\ activity' = [l \in Logins |-> 2]
    /\ inputIdle' = [l \in Logins |-> FALSE]
    /\ prompt' = [l \in Logins |-> FALSE]
    /\ beat' = {} /\ beatAge' = 0 /\ nextPass' = "wake"
    /\ UNCHANGED <<bedded, bed>>

PlayerNext ==
    \/ \E c \in Clients : Connect(c) \/ StampConnected(c) \/ StampLost(c)
    \/ Disconnect
    \/ \E l \in Logins : Act(l) \/ Attend(l) \/ SleepPC(l) \/ WakePC(l)
                            \/ BedChanges(l) \/ Linger(l)

SweepNext ==
    \/ ReadLogins \/ Heartbeat
    \/ \E rested, capped \in SUBSET Logins : WakeExpiredPCSleepers(rested, capped)
    \/ \E tired \in SUBSET Logins : AutoBedIdleLodgerPCs(tired)
    \/ AutoBedOfflineLodgerPCs
    \/ SweepPCIdleAudience

PresenceNext == PlayerNext \/ SweepNext \/ HorizonRaised \/ Tick \/ Restart

PresenceSpec == PresenceInit /\ [][PresenceNext]_presenceVars

\* The candle sweep comes every 15 seconds; nothing else is relied on.
PresenceFairSpec == PresenceSpec /\ WF_presenceVars(SweepPCIdleAudience)

(***************************************************************************)
(* What a player is owed.                                                  *)
(***************************************************************************)

\* A player whose socket the hub holds, and whose connect was stamped, is never
\* judged absent -- not by the presence sweep, not by the offline bed -- while
\* the heartbeat misses at most one of its intervals (pc_presence.go:36-40,
\* 51-54); whichever of the player's other tabs come and go.
ConnectedNeverStale ==
    \A c \in held : stamps[c] = "done" => ~Stale(LoginOf[c])

\* A character bedded because the player was away sleeps only while the player
\* is away: every sign of the player -- a heartbeat, a connect, an act -- wakes it
\* before the character counts as present (pc_presence.go:241-250).
OfflineBedMeansAway == \A l \in Logins : bedded[l] = "offline" => Stale(l)

\* The same over well-typed state.
PresenceSound == PresenceTypeOK /\ OfflineBedMeansAway

\* A candle in front of a player who is not idle, or who sleeps, goes out while
\* the client is connected, however it came to stand there (pc_idle_audience.go:180-185).
CandleGoesOut ==
    \A l \in Logins :
        (prompt[l] /\ (~Idle(l) \/ Asleep(l)))
            ~> (~prompt[l] \/ Stale(l) \/ (Idle(l) /\ ~Asleep(l)))
=============================================================================
