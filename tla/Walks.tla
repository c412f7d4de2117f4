------------------------------- MODULE Walks --------------------------------
(* Walking (commands_move.go, locomotion_ticker.go): actors take one tile a  *)
(* tick towards what they were sent to, around each other where there is a   *)
(* way and through each other where there is none.  One building with a door *)
(* and a loiter pin before it; the walk grid holds still.                    *)
EXTENDS Integers, SequencesExt

CONSTANTS
    Actors,
    Rank,         \* the order of the actors' ids, which a scan follows
    Grid,         \* cost of each walkable tile <<x, y>>
    Door, Pin,    \* the building's one interior tile, and its loiter pin
    Slots,        \* per actor: the ring round the pin from its hash-derived start
    Members,      \* who may enter while the building is owner-only
    Spots,        \* tiles an actor may be sent to or put on
    MaxCommands,  \* bound: commands between which the ticks run
    DeadlockStuckThreshold,
    LivelockNoProgressThreshold,
    maxReroutePathsPerTick

Tiles == DOMAIN Grid

ASSUME WalksAssumption ==
    /\ IsFiniteSet(Tiles) /\ Tiles \subseteq Int \X Int
    /\ \A t \in Tiles : Grid[t] \in Nat \ {0}
    /\ Rank \in [Actors -> Nat] /\ \A a, b \in Actors : Rank[a] = Rank[b] => a = b
    /\ {Door, Pin} \cup Spots \subseteq Tiles /\ Members \subseteq Actors
    /\ DeadlockStuckThreshold \in Nat \ {0}
    /\ LivelockNoProgressThreshold \in Nat \ {0}
    /\ maxReroutePathsPerTick \in Nat \ {0}
    /\ MaxCommands \in Nat

VARIABLES
    pos,      \* [Actors -> Tiles]
    intent,   \* [Actors -> Walk or Still]: Actor.MoveIntent
    policy,   \* the building's effective entry policy
    scan,     \* the movers this tick has still to advance
    visitors, \* ghost: who came to rest where it was sent to visit
    commands  \* how many commands there were

vars == <<pos, intent, policy, scan, visitors, commands>>

Enter == [kind |-> "structure_enter", at |-> Door]
Visit == [kind |-> "structure_visit", at |-> Pin]
At(t) == [kind |-> "position", at |-> t]
Destinations == {Enter, Visit} \cup {At(t) : t \in Spots}

Still == [dest |-> "none"]
Walk == [dest : Destinations, best : -1..Cardinality(Tiles),
         noProgress : 0..LivelockNoProgressThreshold, stuck : Nat]
Fresh(d) == [dest |-> d, best |-> -1, noProgress |-> 0, stuck |-> 0]
Moving(a) == intent[a] # Still
Policies == {"open", "owner-only", "closed"}

-----------------------------------------------------------------------------
(* Where to, and along which tiles.                                          *)

\* tileOccupiedByOtherActor
Occupied(t, a) == \E b \in Actors \ {a} : pos[b] = t

\* tileOccupiedByRestingOtherActor: at rest and outdoors.
HeldAtRest(t, a) == t # Door /\ \E b \in Actors \ {a} : pos[b] = t /\ ~Moving(b)

MayEnter(a) == policy = "open" \/ (policy = "owner-only" /\ a \in Members)

\* pickVisitorSlot: the first free slot outside the building, at last the pin.
VisitorSlot(a) ==
  LET ring == Append(Slots[a], Pin)
      free == {i \in DOMAIN ring : ring[i] \in Tiles \ {Door} /\ ~Occupied(ring[i], a)}
  IN {ring[i] : i \in {j \in free : \A k \in free : j <= k}}

\* Mutant: the policy is asked when the walk begins and never again.
MutPathTarget(a, d) ==
  CASE d.kind = "structure_enter" -> {t \in {Door} : Moving(a) \/ MayEnter(a)}
    [] d.kind = "structure_visit" -> VisitorSlot(a)
    [] OTHER -> {d.at}

\* resolvePathTarget: no tile when the door is barred or no slot is free.  The
\* structures stand all along, and walks to an object are not modelled.
PathTarget(a, d) ==
  CASE d.kind = "structure_enter" -> {t \in {Door} : MayEnter(a)}
    [] d.kind = "structure_visit" -> VisitorSlot(a)
    [] OTHER -> {d.at}

Beside(t) ==
  {<<t[1], t[2] - 1>>, <<t[1], t[2] + 1>>, <<t[1] - 1, t[2]>>, <<t[1] + 1, t[2]>>} \cap Tiles
Apart(s, t) == LET Abs(n) == IF n < 0 THEN -n ELSE n
               IN <<Abs(s[1] - t[1]), Abs(s[2] - t[2])>>
Chebyshev(s, t) == LET d == Apart(s, t) IN IF d[1] > d[2] THEN d[1] ELSE d[2]

\* The ring is visitorSlotOffsets' around the pin; the door lies within its building's
\* footprint, at the end of the corridor buildWalkGrid cuts to it.
ASSUME PlaceAssumption ==
    /\ \A a \in Actors : Slots[a] \in Seq(Int \X Int)
                        /\ \A i \in DOMAIN Slots[a] : Chebyshev(Slots[a][i], Pin) <= 1
    /\ \A s, t \in Beside(Door) : s = t

\* The ways along tiles beside each other that meet no tile twice.
Ways == {w \in UNION {[1..n -> Tiles] : n \in 1..Cardinality(Tiles)} :
           /\ \A i \in 1..(Len(w) - 1) : w[i + 1] \in Beside(w[i])
           /\ \A i, j \in 1..Len(w) : w[i] = w[j] => i = j}

Cost(way) == FoldLeft(LAMBDA sum, t : sum + Grid[t], 0, Tail(way))

\* Of a way a walker needs the second tile, the tiles it leads over, its cost and its steps.
Routes == {[from |-> w[1], goal |-> w[Len(w)], next |-> w[2], over |-> Range(Tail(w)),
            cost |-> Cost(w), steps |-> Len(w) - 1] :
             w \in {v \in Ways : Len(v) > 1}}

\* FindPath and FindPathBlocking between two tiles: the cheapest routes. A* breaks ties
\* by its queue; here any may be taken.
Paths(from, goal, masked) ==
  LET open == {r \in Routes : r.from = from /\ r.goal = goal /\ r.over \cap masked = {}}
  IN {r \in open : \A s \in open : r.cost <= s.cost}

\* Mutant: a visitor arrives wherever it gets within a tile of the pin.
MutArrived(a, t, d) ==
  CASE d.kind = "structure_enter" -> t = Door
    [] d.kind = "structure_visit" -> Chebyshev(t, Pin) <= 1
    [] OTHER -> t = d.at

\* arrivedAtDestination for an actor standing on t: a visitor comes to rest within a
\* tile of the pin, never on one who rests there.
Arrived(a, t, d) ==
  CASE d.kind = "structure_enter" -> t = Door
    [] d.kind = "structure_visit" -> Chebyshev(t, Pin) <= 1 /\ ~HeldAtRest(t, a)
    [] OTHER -> t = d.at

-----------------------------------------------------------------------------
(* Commands, between two ticks.                                              *)

Command == scan = {} /\ commands < MaxCommands /\ commands' = commands + 1 /\ UNCHANGED scan

\* The walk of a ends where it stands.
Ended(a, visiting) ==
  /\ intent' = [intent EXCEPT ![a] = Still]
  /\ visitors' = IF visiting THEN visitors \cup {a} ELSE visitors \ {a}

\* MoveActor: a new walk, or another one instead of the one under way.
MoveActor(a, d) ==
  /\ Command
  /\ \E t \in PathTarget(a, d) : t = pos[a] \/ Paths(pos[a], t, {}) # {}
  /\ intent' = [intent EXCEPT ![a] = Fresh(d)]
  /\ visitors' = visitors \ {a}
  /\ UNCHANGED <<pos, policy>>

\* StopMove
StopMove(a) ==
  /\ Command
  /\ Moving(a) /\ Ended(a, FALSE)
  /\ UNCHANGED <<pos, policy>>

\* SetActorPosition: an operator puts an actor on a walkable tile.
SetActorPosition(a, t) ==
  /\ Command
  /\ pos' = [pos EXCEPT ![a] = t]
  /\ Ended(a, FALSE)
  /\ UNCHANGED policy

\* The door's policy changes: a keeper locks up or comes back, an editor sets it.
SetPolicy(p) ==
  /\ Command
  /\ policy # p /\ policy' = p
  /\ UNCHANGED <<pos, intent, visitors>>

-----------------------------------------------------------------------------
(* The tick.  EvaluateLocomotion is one command: nothing comes between its   *)
(* movers.                                                                   *)

\* EvaluateLocomotion collects the movers and takes them in the order of their ids.
NextMover == {a \in scan : \A b \in scan : Rank[a] <= Rank[b]}
Ticked == scan' = IF scan = {} THEN {a \in Actors : Moving(a)} ELSE scan \ NextMover

StartTick ==
  /\ scan = {}
  /\ Ticked /\ scan' # {}
  /\ UNCHANGED <<pos, intent, policy, visitors, commands>>

\* One tile onto t; finishArrival when that was the last.
Step(a, t, walk) ==
  /\ pos' = [pos EXCEPT ![a] = t]
  /\ IF Arrived(a, t, walk.dest)
     THEN Ended(a, walk.dest = Visit)
     ELSE intent' = [intent EXCEPT ![a] = walk] /\ UNCHANGED visitors

\* Mutant: any step counts as progress.
MutMeasured(walk, remaining) == [walk EXCEPT !.best = remaining, !.noProgress = 0]

\* The net-progress count of the watchdog.
Measured(walk, remaining) ==
  IF walk.best < 0 \/ remaining < walk.best
  THEN [walk EXCEPT !.best = remaining, !.noProgress = 0]
  ELSE [walk EXCEPT !.noProgress = IF @ < LivelockNoProgressThreshold THEN @ + 1 ELSE @]

\* advanceActorViaReroute: the first free tile of a way round the occupied ones, masking
\* one more each time, or the mover's own when there is none.  masked is one order in
\* which they may come to be masked.
Detours(a, goal, next) ==
  LET Round(masked) == {path.next : path \in Paths(pos[a], goal, Range(masked))}
      Orders == {masked \in UNION {[1..n -> Beside(pos[a])] : n \in 1..4} :
                   /\ masked[1] = next
                   /\ \A i \in 2..Len(masked) :
                        masked[i] \in Round(SubSeq(masked, 1, i - 1)) /\ Occupied(masked[i], a)}
      Spent(masked) == Len(masked) > maxReroutePathsPerTick \/ Round(masked) = {}
  IN UNION {IF Spent(masked) THEN {pos[a]} ELSE {t \in Round(masked) : ~Occupied(t, a)} :
              masked \in Orders}

\* No way round: the sole approach of a door is walked through at once, any other
\* occupant after the stuck window.
WalkThrough(a, walk, next, sealed) ==
  IF (sealed /\ walk.dest = Enter) \/ walk.stuck + 1 >= DeadlockStuckThreshold
  THEN Step(a, next, [walk EXCEPT !.stuck = 0])
  ELSE /\ intent' = [intent EXCEPT ![a] = [walk EXCEPT !.stuck = @ + 1]]
       /\ UNCHANGED <<pos, visitors>>

\* One mover with a path: straight on, squeezing past, round, or waiting.
Advance(a, goal, path) ==
  LET walk == Measured(intent[a], path.steps)
      next == path.next
  IN IF ~Occupied(next, a)
     THEN Step(a, next, [walk EXCEPT !.stuck = 0])
     ELSE IF walk.noProgress >= LivelockNoProgressThreshold
     THEN Step(a, next, Fresh(walk.dest))
     ELSE \E way \in Detours(a, goal, next) :
            IF way # pos[a] THEN Step(a, way, [walk EXCEPT !.stuck = 0])
            ELSE WalkThrough(a, walk, next, Paths(pos[a], goal, {next}) = {})

\* advanceActorLocomotion for the next mover of the scan.
AdvanceNext ==
  /\ \E a \in NextMover :
       LET d == intent[a].dest
       IN IF PathTarget(a, d) = {} THEN Ended(a, FALSE) /\ UNCHANGED pos
          ELSE IF Arrived(a, pos[a], d) THEN Ended(a, d = Visit) /\ UNCHANGED pos
          ELSE \E goal \in PathTarget(a, d) :
                 \E path \in Paths(pos[a], goal, {}) : Advance(a, goal, path)
  /\ Ticked
  /\ UNCHANGED <<policy, commands>>

-----------------------------------------------------------------------------
Init ==
  /\ pos \in [Actors -> Tiles]
  /\ intent = [a \in Actors |-> Still]
  /\ policy = "open"
  /\ scan = {}
  /\ visitors = {}
  /\ commands = 0

Next ==
  \/ \E a \in Actors, d \in Destinations : MoveActor(a, d)
  \/ \E a \in Actors : StopMove(a)
  \/ \E a \in Actors, t \in Spots : SetActorPosition(a, t)
  \/ \E p \in Policies : SetPolicy(p)
  \/ StartTick
  \/ AdvanceNext

Spec == Init /\ [][Next]_vars

\* The ticker re-arms itself after every scan, and a scan is one command: StartTick and
\* AdvanceNext, the steps that change scan, go on. Commands may cease.
FairSpec == Spec /\ WF_scan(Ticked)

-----------------------------------------------------------------------------
TypeOK ==
  /\ pos \in [Actors -> Tiles]
  /\ intent \in [Actors -> Walk \cup {Still}]
  /\ \A a \in Actors : Moving(a) => intent[a].stuck < DeadlockStuckThreshold
  /\ policy \in Policies
  /\ scan \subseteq {a \in Actors : Moving(a)}
  /\ visitors \subseteq {a \in Actors : ~Moving(a)}

\* Two visitors never come to rest on one tile, in whatever order they arrive, squeeze
\* through and change their minds.
VisitorsApart == \A a, b \in visitors : a # b /\ pos[a] # Door => pos[a] # pos[b]

\* Well-typed, and no two visitors stacked.
WalksSound == TypeOK /\ VisitorsApart

\* Nobody crosses the door against the policy of that moment, however it stood when the
\* walk began and whomever the walker goes round or through, unless sent to that tile.
EntersByRight ==
  [][\A a \in Actors : /\ Moving(a) /\ intent[a].dest # At(Door)
                       /\ scan # {} /\ pos[a] # Door /\ pos'[a] = Door
                       => MayEnter(a)]_vars

\* Once nobody is sent anywhere new, every walker comes to rest: no two of them, and no
\* sleeper in the only way, can hold one up for good.
VillageSettles == <>[](\A a \in Actors : ~Moving(a))
=============================================================================
