---------------------------- MODULE WalksProofs -----------------------------
(***************************************************************************)
(* Proofs about Walks, for any actors, any walk grid and any thresholds.   *)
(*                                                                         *)
(* WalksSound is inductive: whoever comes to rest where it was sent to     *)
(* visit has no resting neighbour on its tile at that moment, and from     *)
(* then on neither of them moves without ceasing to be a visitor.  That    *)
(* nobody crosses the door but by right rests on its one approach: a route *)
(* that leads over the door ends there.                                    *)
(***************************************************************************)
EXTENDS Walks, FiniteSetTheorems, SequenceTheorems, TLAPS

----------------------------------------------------------------------------
(* The walk grid *)

LEMMA GridTyped ==
    /\ Door \in Tiles /\ Pin \in Tiles /\ Spots \subseteq Tiles /\ Tiles \subseteq Int \X Int
    /\ Cardinality(Tiles) \in Nat
BY WalksAssumption, FS_CardinalityType DEF WalksAssumption

\* Of two tiles each lies beside the other, or neither does.
LEMMA BesideBothWays ==
    ASSUME NEW s \in Tiles, NEW t \in Beside(s)
    PROVE  s \in Beside(t) /\ t \in Tiles
<1>1. PICK x \in Int, y \in Int : s = <<x, y>>
  BY GridTyped
<1>2. t \in Tiles /\ t \in {<<x, y - 1>>, <<x, y + 1>>, <<x - 1, y>>, <<x + 1, y>>}
  BY <1>1 DEF Beside
<1>3. PICK u \in Int, v \in Int : t = <<u, v>>
  BY <1>2, GridTyped
<1>4. s \in {<<u, v - 1>>, <<u, v + 1>>, <<u - 1, v>>, <<u + 1, v>>}
  BY <1>1, <1>2, <1>3
<1> QED
  BY <1>2, <1>3, <1>4 DEF Beside

LEMMA WayTyped ==
    ASSUME NEW w \in Ways
    PROVE  /\ w \in Seq(Tiles) /\ Len(w) \in 1..Cardinality(Tiles)
           /\ DOMAIN w = 1..Len(w)
           /\ \A i \in 1..(Len(w) - 1) : w[i + 1] \in Beside(w[i])
           /\ \A i, j \in 1..Len(w) : w[i] = w[j] => i = j
<1>1. PICK n \in 1..Cardinality(Tiles) : w \in [1..n -> Tiles]
  BY DEF Ways
<1>2. n \in Nat /\ w \in Seq(Tiles)
  BY <1>1, GridTyped
<1>3. Len(w) = n
  BY <1>1, <1>2
<1> QED
  BY <1>1, <1>2, <1>3 DEF Ways

\* What a walker is told of a way, and that only a way to the door leads over it.
LEMMA PathTyped ==
    ASSUME NEW from \in Tiles, NEW goal \in Tiles, NEW masked, NEW path \in Paths(from, goal, masked)
    PROVE  /\ path.next \in Tiles
           /\ path.steps \in 0..Cardinality(Tiles)
           /\ path.next = Door => goal = Door
<1>1. path \in Routes /\ path.from = from /\ path.goal = goal
  BY DEF Paths
<1>2. PICK w \in Ways : /\ Len(w) > 1
                        /\ path = [from |-> w[1], goal |-> w[Len(w)], next |-> w[2],
                                   over |-> Range(Tail(w)), cost |-> Cost(w), steps |-> Len(w) - 1]
  BY <1>1 DEF Routes
<1>3. /\ path.next = w[2] /\ path.steps = Len(w) - 1
      /\ from = w[1] /\ goal = w[Len(w)] /\ Len(w) > 1
  BY <1>1, <1>2
<1>4. Len(w) \in Nat /\ w[1] \in Tiles /\ w[2] \in Tiles /\ w[2] \in Beside(w[1])
  <2>1. 1 \in 1..(Len(w) - 1) /\ 2 \in 1..Len(w) /\ 1 \in 1..Len(w)
    BY <1>3, WayTyped, GridTyped
  <2>2. w[1 + 1] \in Beside(w[1])
    BY <2>1, WayTyped
  <2>3. w \in Seq(Tiles) /\ Len(w) \in Nat
    BY WayTyped, GridTyped
  <2>4. w[1] \in Tiles /\ w[2] \in Tiles
    BY <2>1, <2>3
  <2> QED
    BY <2>2, <2>3, <2>4
<1>5. path.steps \in 0..Cardinality(Tiles)
  <2>1. Len(w) \in 1..Cardinality(Tiles)
    BY WayTyped
  <2>2. Len(w) - 1 \in 0..Cardinality(Tiles)
    BY <2>1, GridTyped
  <2> QED
    BY <1>3, <2>2
<1>6. ASSUME w[2] = Door, Len(w) # 2 PROVE FALSE
  <2> DEFINE n == Len(w)
  <2>1. n \in Nat /\ n > 2
    <3>1. n \in Nat /\ n > 1 /\ n # 2
      BY <1>3, <1>4, <1>6
    <3> HIDE DEF n
    <3> QED
      BY <3>1
  <2>2. w[3] \in Beside(w[2])
    <3>1. 2 \in 1..(Len(w) - 1)
      BY <2>1
    <3>2. w[2 + 1] \in Beside(w[2])
      BY <3>1, WayTyped
    <3> QED
      BY <3>2
  <2>3. w[1] \in Beside(w[2])
    BY <1>4, BesideBothWays
  <2>4. w[1] = w[3]
    BY <2>2, <2>3, <1>6, PlaceAssumption DEF PlaceAssumption
  <2>5. 1 \in 1..Len(w) /\ 3 \in 1..Len(w)
    BY <2>1
  <2> QED
    BY <2>4, <2>5, WayTyped
<1> QED
  BY <1>3, <1>4, <1>5, <1>6

----------------------------------------------------------------------------
(* Destinations *)

LEMMA GoalTyped ==
    ASSUME TypeOK, NEW a \in Actors, NEW d \in Destinations, NEW goal \in PathTarget(a, d)
    PROVE  /\ goal \in Tiles
           /\ goal = Door => d = At(Door) \/ (d = Enter /\ MayEnter(a))
<1>1. CASE d = Enter
  <2>1. PathTarget(a, d) = {t \in {Door} : MayEnter(a)}
    BY <1>1 DEF PathTarget, Enter
  <2> QED
    BY <1>1, <2>1, GridTyped
<1>2. CASE d = Visit
  <2>1. goal \in VisitorSlot(a)
    BY <1>2 DEF PathTarget, Visit
  <2>2. goal \in Tiles \ {Door}
    BY <2>1 DEF VisitorSlot
  <2> QED
    BY <2>2
<1>3. ASSUME NEW t \in Spots, d = At(t) PROVE goal = t
  BY <1>3 DEF PathTarget, At
<1> QED
  BY <1>1, <1>2, <1>3, GridTyped DEF Destinations

\* A visitor's slot is free of the others, and within a tile of the pin.
LEMMA SlotNearPin ==
    ASSUME NEW a \in Actors, NEW t \in VisitorSlot(a)
    PROVE  t \in Tiles /\ ~Occupied(t, a) /\ Chebyshev(t, Pin) <= 1
<1> DEFINE ring == Append(Slots[a], Pin)
<1>1. PICK i \in DOMAIN ring : t = ring[i] /\ ring[i] \in Tiles \ {Door} /\ ~Occupied(ring[i], a)
  BY DEF VisitorSlot
<1>2. Slots[a] \in Seq(Int \X Int) /\ Pin \in Int \X Int
  BY GridTyped, PlaceAssumption DEF PlaceAssumption
<1>3. CASE i = Len(Slots[a]) + 1
  <2>1. t = Pin
    BY <1>1, <1>2, <1>3
  <2>2. PICK x \in Int, y \in Int : Pin = <<x, y>>
    BY <1>2
  <2>3. Chebyshev(Pin, Pin) <= 1
    BY <2>2 DEF Chebyshev, Apart
  <2> QED
    BY <1>1, <2>1, <2>3
<1>4. CASE i # Len(Slots[a]) + 1
  <2>1. i \in DOMAIN Slots[a] /\ ring[i] = Slots[a][i]
    BY <1>1, <1>2, <1>4
  <2> QED
    BY <1>1, <2>1, PlaceAssumption DEF PlaceAssumption
<1> QED
  BY <1>3, <1>4

\* Who stands where it was going has arrived there.
LEMMA GoalReached ==
    ASSUME TypeOK, NEW a \in Actors, NEW d \in Destinations,
           NEW goal \in PathTarget(a, d), pos[a] = goal
    PROVE  Arrived(a, pos[a], d)
<1>1. CASE d = Enter
  BY <1>1 DEF PathTarget, Arrived, Enter
<1>2. CASE d = Visit
  <2>1. goal \in VisitorSlot(a)
    BY <1>2 DEF PathTarget, Visit
  <2>2. Chebyshev(goal, Pin) <= 1 /\ ~HeldAtRest(goal, a)
    BY <2>1, SlotNearPin DEF HeldAtRest, Occupied
  <2> QED
    BY <1>2, <2>2 DEF Arrived, Visit
<1>3. ASSUME NEW t \in Spots, d = At(t) PROVE Arrived(a, pos[a], d)
  BY <1>3 DEF PathTarget, Arrived, At
<1> QED
  BY <1>1, <1>2, <1>3 DEF Destinations

\* A visitor arrives on no resting actor's tile.
LEMMA ArrivesApart ==
    ASSUME NEW a, NEW t, Arrived(a, t, Visit)
    PROVE  ~HeldAtRest(t, a)
BY DEF Arrived, Visit

----------------------------------------------------------------------------
(* What a step of one walker does *)

\* The walk of a goes on or ends; the others stand as they stood.
WalkerMoves(a) ==
    /\ a \in Actors /\ Moving(a)
    /\ \E t \in Tiles : pos' = [pos EXCEPT ![a] = t]
    /\ \E w \in Walk \cup {Still} :
          /\ intent' = [intent EXCEPT ![a] = w]
          /\ w # Still => w.stuck < DeadlockStuckThreshold /\ visitors' = visitors
          /\ w = Still => \/ visitors' = visitors \ {a}
                          \/ visitors' = visitors \cup {a} /\ ~HeldAtRest(pos'[a], a)

LEMMA StillIsNoWalk == Still \notin Walk
BY DEF Still, Walk

LEMMA StepMoves ==
    ASSUME TypeOK, NEW a \in Actors, Moving(a), NEW t \in Tiles, NEW w \in Walk,
           w.stuck < DeadlockStuckThreshold, Step(a, t, w)
    PROVE  WalkerMoves(a) /\ pos'[a] = t
<1>1. pos' = [pos EXCEPT ![a] = t] /\ pos'[a] = t
  BY DEF Step, TypeOK
<1>2. CASE Arrived(a, t, w.dest)
  <2>1. /\ intent' = [intent EXCEPT ![a] = Still]
        /\ visitors' = IF w.dest = Visit THEN visitors \cup {a} ELSE visitors \ {a}
    BY <1>2 DEF Step, Ended
  <2>2. w.dest = Visit => ~HeldAtRest(t, a)
    BY <1>2, ArrivesApart
  <2> QED
    BY <1>1, <2>1, <2>2, StillIsNoWalk DEF WalkerMoves
<1>3. CASE ~Arrived(a, t, w.dest)
  <2>1. intent' = [intent EXCEPT ![a] = w] /\ UNCHANGED visitors
    BY <1>3 DEF Step
  <2> QED
    BY <1>1, <2>1, StillIsNoWalk DEF WalkerMoves
<1> QED
  BY <1>2, <1>3

LEMMA MeasuredTyped ==
    ASSUME NEW w \in Walk, w.stuck < DeadlockStuckThreshold,
           NEW n \in 0..Cardinality(Tiles)
    PROVE  /\ Measured(w, n) \in Walk /\ Measured(w, n).stuck = w.stuck
           /\ Measured(w, n).dest = w.dest
<1>1. /\ w \in [dest : Destinations, best : -1..Cardinality(Tiles),
               noProgress : 0..LivelockNoProgressThreshold, stuck : Nat]
      /\ Cardinality(Tiles) \in Nat /\ LivelockNoProgressThreshold \in Nat
  BY GridTyped, WalksAssumption DEF Walk, WalksAssumption
<1>2. CASE w.best < 0 \/ n < w.best
  <2>1. Measured(w, n) = [w EXCEPT !.best = n, !.noProgress = 0]
    BY <1>2 DEF Measured
  <2>2. Measured(w, n) = [dest |-> w.dest, best |-> n, noProgress |-> 0, stuck |-> w.stuck]
    BY <1>1, <2>1
  <2>3. w.dest \in Destinations /\ w.stuck \in Nat /\ n \in -1..Cardinality(Tiles)
    BY <1>1
  <2> QED
    BY <1>1, <2>2, <2>3 DEF Walk
<1>3. CASE ~(w.best < 0 \/ n < w.best)
  <2> DEFINE k == IF w.noProgress < LivelockNoProgressThreshold
                  THEN w.noProgress + 1 ELSE w.noProgress
  <2>1. Measured(w, n) = [w EXCEPT !.noProgress = k]
    BY <1>3 DEF Measured
  <2>2. k \in 0..LivelockNoProgressThreshold
    BY <1>1
  <2> HIDE DEF k
  <2>3. [w EXCEPT !.noProgress = k]
          = [dest |-> w.dest, best |-> w.best, noProgress |-> k, stuck |-> w.stuck]
    BY <1>1
  <2>4. w.dest \in Destinations /\ w.best \in -1..Cardinality(Tiles) /\ w.stuck \in Nat
    BY <1>1
  <2>5. Measured(w, n) = [dest |-> w.dest, best |-> w.best, noProgress |-> k, stuck |-> w.stuck]
    BY <2>1, <2>3
  <2> QED
    BY <2>2, <2>4, <2>5 DEF Walk
<1> QED
  BY <1>2, <1>3

LEMMA FreshTyped ==
    ASSUME NEW d \in Destinations
    PROVE  Fresh(d) \in Walk /\ Fresh(d).stuck = 0
BY GridTyped, WalksAssumption DEF Fresh, Walk, WalksAssumption

\* The way round, when there is one, is the second tile of a route.
LEMMA DetourTyped ==
    ASSUME NEW a, pos[a] \in Tiles, NEW goal \in Tiles, NEW next,
           NEW t \in Detours(a, goal, next), t # pos[a]
    PROVE  t \in Tiles /\ (t = Door => goal = Door)
<1>1. PICK masked : \E path \in Paths(pos[a], goal, Range(masked)) : t = path.next
  BY DEF Detours
<1> QED
  BY <1>1, PathTyped

\* A walker on its way takes the next tile of a route, or waits.
LEMMA AdvanceMoves ==
    ASSUME TypeOK, NEW a \in Actors, Moving(a), NEW goal \in Tiles, goal # pos[a],
           NEW path \in Paths(pos[a], goal, {}), Advance(a, goal, path)
    PROVE  WalkerMoves(a) /\ (pos'[a] = Door /\ pos[a] # Door => goal = Door)
<1> DEFINE walk == Measured(intent[a], path.steps)
<1>1. pos[a] \in Tiles /\ intent[a] \in Walk /\ intent[a].stuck < DeadlockStuckThreshold
  BY DEF TypeOK, Moving
<1>2. path.next \in Tiles /\ (path.next = Door => goal = Door) /\ path.steps \in 0..Cardinality(Tiles)
  BY <1>1, PathTyped
<1>3. walk \in Walk /\ walk.stuck = intent[a].stuck
  BY <1>1, <1>2, MeasuredTyped
<1>4. walk.stuck \in Nat /\ walk.dest \in Destinations
  BY <1>3 DEF Walk
<1> DEFINE rested == [walk EXCEPT !.stuck = 0]
<1>5. rested \in Walk /\ rested.stuck < DeadlockStuckThreshold
  BY <1>3, WalksAssumption DEF Walk, WalksAssumption
<1>6. Fresh(walk.dest) \in Walk /\ Fresh(walk.dest).stuck < DeadlockStuckThreshold
  BY <1>4, FreshTyped, WalksAssumption DEF WalksAssumption
<1>7. ASSUME NEW t \in Tiles, t = Door => goal = Door, NEW w \in {rested, Fresh(walk.dest)},
             Step(a, t, w)
      PROVE  WalkerMoves(a) /\ (pos'[a] = Door => goal = Door)
  BY <1>5, <1>6, <1>7, StepMoves
<1>8. ASSUME walk.stuck + 1 < DeadlockStuckThreshold, UNCHANGED <<pos, visitors>>,
             intent' = [intent EXCEPT ![a] = [walk EXCEPT !.stuck = @ + 1]]
      PROVE  WalkerMoves(a) /\ pos'[a] = pos[a]
  <2> DEFINE w == [walk EXCEPT !.stuck = @ + 1]
  <2>1. w \in Walk /\ w.stuck < DeadlockStuckThreshold
    BY <1>3, <1>4, <1>8 DEF Walk
  <2>2. pos' = [pos EXCEPT ![a] = pos[a]]
    BY <1>8 DEF TypeOK
  <2> QED
    BY <1>1, <1>8, <2>1, <2>2, StillIsNoWalk DEF WalkerMoves
<1>9. \/ \E t \in Tiles, w \in {rested, Fresh(walk.dest)} : (t = Door => goal = Door) /\ Step(a, t, w)
      \/ /\ walk.stuck + 1 < DeadlockStuckThreshold /\ UNCHANGED <<pos, visitors>>
         /\ intent' = [intent EXCEPT ![a] = [walk EXCEPT !.stuck = @ + 1]]
  <2>1. CASE ~Occupied(path.next, a) \/ walk.noProgress >= LivelockNoProgressThreshold
    BY <1>2, <2>1 DEF Advance
  <2>2. CASE ~(~Occupied(path.next, a) \/ walk.noProgress >= LivelockNoProgressThreshold)
    <3>1. PICK way \in Detours(a, goal, path.next) :
             IF way # pos[a] THEN Step(a, way, rested)
             ELSE WalkThrough(a, walk, path.next, Paths(pos[a], goal, {path.next}) = {})
      BY <2>2 DEF Advance
    <3>2. CASE way # pos[a]
      BY <1>1, <3>1, <3>2, DetourTyped
    <3>3. CASE way = pos[a]
      <4>1. WalkThrough(a, walk, path.next, Paths(pos[a], goal, {path.next}) = {})
        BY <3>1, <3>3
      <4>2. CASE Step(a, path.next, rested)
        BY <1>2, <4>2
      <4>3. CASE ~Step(a, path.next, rested)
        <5>1. ~(walk.stuck + 1 >= DeadlockStuckThreshold)
          BY <4>1, <4>3 DEF WalkThrough
        <5> QED
          BY <1>4, <4>1, <4>3, <5>1, WalksAssumption DEF WalkThrough, WalksAssumption
      <4> QED
        BY <4>2, <4>3
    <3> QED
      BY <3>2, <3>3
  <2> QED
    BY <2>1, <2>2
<1> QED
  BY <1>7, <1>8, <1>9

----------------------------------------------------------------------------
(* The invariant *)

LEMMA WalksInitial == Init => WalksSound
BY DEF Init, WalksSound, TypeOK, VisitorsApart, Moving, Policies

\* A command puts nobody among the visitors.
LEMMA CommandKeeps ==
    ASSUME WalksSound, scan = {}, UNCHANGED scan, policy' \in Policies, NEW a \in Actors,
           NEW t \in Tiles, pos' = [pos EXCEPT ![a] = t],
           NEW w \in Walk \cup {Still}, intent' = [intent EXCEPT ![a] = w],
           w # Still => w.stuck < DeadlockStuckThreshold,
           visitors' = visitors \ {a}
    PROVE  WalksSound'
<1> USE DEF WalksSound
<1>1. TypeOK'
  <2>1. pos' \in [Actors -> Tiles] /\ intent' \in [Actors -> Walk \cup {Still}]
    BY DEF TypeOK
  <2>2. \A b \in Actors : intent'[b] = IF b = a THEN w ELSE intent[b]
    BY DEF TypeOK
  <2>3. \A b \in Actors : Moving(b)' => intent'[b].stuck < DeadlockStuckThreshold
    BY <2>2 DEF TypeOK, Moving
  <2>4. visitors' \subseteq {b \in Actors : ~Moving(b)'}
    BY <2>2 DEF TypeOK, Moving
  <2>5. scan' \subseteq {b \in Actors : Moving(b)'}
    OBVIOUS
  <2> QED
    BY <2>1, <2>3, <2>4, <2>5 DEF TypeOK
<1>2. VisitorsApart'
  BY DEF TypeOK, VisitorsApart
<1> QED
  BY <1>1, <1>2

LEMMA WalkerKeeps ==
    ASSUME WalksSound, UNCHANGED policy, NEW a \in Actors, WalkerMoves(a),
           scan' \subseteq scan \ {a}
    PROVE  WalksSound'
<1> USE DEF WalksSound
<1>1. PICK t \in Tiles, w \in Walk \cup {Still} :
         /\ pos' = [pos EXCEPT ![a] = t] /\ intent' = [intent EXCEPT ![a] = w]
         /\ w # Still => w.stuck < DeadlockStuckThreshold /\ visitors' = visitors
         /\ w = Still => \/ visitors' = visitors \ {a}
                         \/ visitors' = visitors \cup {a} /\ ~HeldAtRest(pos'[a], a)
  BY DEF WalkerMoves
<1>2. Moving(a) /\ a \notin visitors
  BY DEF WalkerMoves, TypeOK
<1>3. /\ \A b \in Actors : intent'[b] = IF b = a THEN w ELSE intent[b]
      /\ \A b \in Actors : pos'[b] = IF b = a THEN t ELSE pos[b]
  BY <1>1 DEF TypeOK
<1>4. TypeOK'
  <2>1. pos' \in [Actors -> Tiles] /\ intent' \in [Actors -> Walk \cup {Still}]
    BY <1>1 DEF TypeOK
  <2>2. \A b \in Actors : Moving(b)' => intent'[b].stuck < DeadlockStuckThreshold
    BY <1>1, <1>3 DEF TypeOK, Moving
  <2>3. visitors' \subseteq {b \in Actors : ~Moving(b)'}
    BY <1>1, <1>2, <1>3 DEF TypeOK, Moving
  <2>4. scan' \subseteq {b \in Actors : Moving(b)'}
    BY <1>3 DEF TypeOK, Moving
  <2> QED
    BY <2>1, <2>2, <2>3, <2>4 DEF TypeOK
<1>5. VisitorsApart'
  <2>1. CASE visitors' \subseteq visitors
    BY <1>2, <1>3, <2>1 DEF TypeOK, VisitorsApart
  <2>2. CASE visitors' = visitors \cup {a} /\ ~HeldAtRest(pos'[a], a)
    <3>1. \A b \in visitors : b \in Actors /\ b # a /\ ~Moving(b) /\ pos'[b] = pos[b]
      BY <1>2, <1>3 DEF TypeOK
    <3>2. \A b \in visitors : pos'[a] = Door \/ pos[b] # pos'[a]
      BY <2>2, <3>1 DEF HeldAtRest
    <3> QED
      BY <2>2, <3>1, <3>2 DEF VisitorsApart
  <2> QED
    BY <1>1, <2>1, <2>2
<1> QED
  BY <1>4, <1>5

\* The next mover's turn: its walk ends where it stands, or it advances.
LEMMA TurnMoves ==
    ASSUME WalksSound, AdvanceNext
    PROVE  \E a \in NextMover :
              /\ WalkerMoves(a) /\ scan' \subseteq scan \ {a}
              /\ intent[a].dest # At(Door) /\ pos[a] # Door /\ pos'[a] = Door => MayEnter(a)
<1> USE DEF WalksSound
<1>1. PICK a \in NextMover :
        LET d == intent[a].dest
        IN IF PathTarget(a, d) = {} THEN Ended(a, FALSE) /\ UNCHANGED pos
           ELSE IF Arrived(a, pos[a], d) THEN Ended(a, d = Visit) /\ UNCHANGED pos
           ELSE \E goal \in PathTarget(a, d) :
                  \E path \in Paths(pos[a], goal, {}) : Advance(a, goal, path)
  BY DEF AdvanceNext
<1> DEFINE d == intent[a].dest
<1>2. a \in scan /\ a \in Actors /\ Moving(a) /\ d \in Destinations /\ pos[a] \in Tiles
  BY DEF NextMover, TypeOK, Moving, Walk
<1>3. scan' \subseteq scan \ {a}
  BY <1>2 DEF AdvanceNext, Ticked
<1>4. ASSUME NEW visiting \in BOOLEAN, Ended(a, visiting), UNCHANGED pos,
             visiting => ~HeldAtRest(pos[a], a)
      PROVE  WalkerMoves(a)
  <2>1. pos' = [pos EXCEPT ![a] = pos[a]] /\ pos'[a] = pos[a]
    BY <1>4 DEF TypeOK
  <2>2. intent' = [intent EXCEPT ![a] = Still]
    BY <1>4 DEF Ended
  <2>3. visitors' = visitors \ {a} \/ (visitors' = visitors \cup {a} /\ ~HeldAtRest(pos'[a], a))
    BY <1>4, <2>1 DEF Ended
  <2> QED
    BY <1>2, <2>1, <2>2, <2>3 DEF WalkerMoves
<1>5. CASE PathTarget(a, d) = {}
  <2>1. Ended(a, FALSE) /\ UNCHANGED pos
    BY <1>1, <1>5
  <2> QED
    BY <1>2, <1>3, <1>4, <2>1
<1>6. CASE PathTarget(a, d) # {} /\ Arrived(a, pos[a], d)
  <2>1. Ended(a, d = Visit) /\ UNCHANGED pos
    BY <1>1, <1>6
  <2>2. d = Visit => ~HeldAtRest(pos[a], a)
    BY <1>6, ArrivesApart
  <2> QED
    BY <1>2, <1>3, <1>4, <2>1, <2>2
<1>7. CASE PathTarget(a, d) # {} /\ ~Arrived(a, pos[a], d)
  <2>1. PICK goal \in PathTarget(a, d) :
           \E path \in Paths(pos[a], goal, {}) : Advance(a, goal, path)
    BY <1>1, <1>7
  <2>2. goal \in Tiles /\ (goal = Door => d = At(Door) \/ MayEnter(a))
    BY <1>2, GoalTyped
  <2>3. goal # pos[a]
    BY <1>2, <1>7, GoalReached
  <2>4. WalkerMoves(a) /\ (pos'[a] = Door /\ pos[a] # Door => goal = Door)
    BY <1>2, <2>1, <2>2, <2>3, AdvanceMoves
  <2> QED
    BY <1>3, <2>2, <2>4
<1> QED
  BY <1>5, <1>6, <1>7

LEMMA WalksKeep == WalksSound /\ [Next]_vars => WalksSound'
<1> SUFFICES ASSUME WalksSound, [Next]_vars PROVE WalksSound'
  OBVIOUS
<1>0. policy \in Policies /\ pos \in [Actors -> Tiles]
  BY DEF WalksSound, TypeOK
<1>1. ASSUME NEW a \in Actors, NEW d \in Destinations, MoveActor(a, d) PROVE WalksSound'
  <2>1. Fresh(d) \in Walk /\ Fresh(d).stuck < DeadlockStuckThreshold
    BY FreshTyped, WalksAssumption DEF WalksAssumption
  <2>2. pos' = [pos EXCEPT ![a] = pos[a]] /\ pos[a] \in Tiles
    BY <1>0, <1>1 DEF MoveActor
  <2> QED
    BY <1>0, <1>1, <2>1, <2>2, CommandKeeps DEF MoveActor, Command
<1>2. ASSUME NEW a \in Actors, StopMove(a) PROVE WalksSound'
  <2>1. pos' = [pos EXCEPT ![a] = pos[a]] /\ pos[a] \in Tiles
    BY <1>0, <1>2 DEF StopMove
  <2> QED
    BY <1>0, <1>2, <2>1, CommandKeeps DEF StopMove, Command, Ended
<1>3. ASSUME NEW a \in Actors, NEW t \in Spots, SetActorPosition(a, t) PROVE WalksSound'
  BY <1>0, <1>3, GridTyped, CommandKeeps DEF SetActorPosition, Command, Ended
<1>4. ASSUME NEW p \in Policies, SetPolicy(p) PROVE WalksSound'
  BY <1>4 DEF SetPolicy, Command, WalksSound, TypeOK, VisitorsApart, Moving
<1>5. CASE StartTick
  BY <1>5 DEF StartTick, Ticked, WalksSound, TypeOK, VisitorsApart, Moving
<1>6. CASE AdvanceNext
  BY <1>6, TurnMoves, WalkerKeeps DEF AdvanceNext, WalkerMoves
<1>7. CASE UNCHANGED vars
  BY <1>7 DEF vars, WalksSound, TypeOK, VisitorsApart, Moving
<1> QED
  BY <1>1, <1>2, <1>3, <1>4, <1>5, <1>6, <1>7 DEF Next

----------------------------------------------------------------------------
(* The theorems *)

\* Two visitors never come to rest on one tile, whatever the crowd and the grid
\* (arrivedAtDestination).
THEOREM VisitorsKeepApart == Spec => []WalksSound
BY WalksInitial, WalksKeep, PTL DEF Spec

LEMMA DoorKept ==
    ASSUME WalksSound, [Next]_vars, NEW a \in Actors,
           Moving(a), intent[a].dest # At(Door), scan # {}, pos[a] # Door, pos'[a] = Door
    PROVE  MayEnter(a)
<1>1. CASE AdvanceNext
  <2>1. PICK b \in NextMover :
           /\ WalkerMoves(b)
           /\ intent[b].dest # At(Door) /\ pos[b] # Door /\ pos'[b] = Door => MayEnter(b)
    BY <1>1, TurnMoves
  <2>2. a = b
    BY <2>1 DEF WalkerMoves, WalksSound, TypeOK
  <2> QED
    BY <2>1, <2>2
<1>2. CASE UNCHANGED pos
  BY <1>2
<1> QED
  BY <1>1, <1>2 DEF Next, vars, MoveActor, StopMove, SetActorPosition, SetPolicy, Command, StartTick

\* Nobody crosses a door with one approach but by the policy of that moment, whatever
\* the crowd that is squeezed past, gone round or walked through (resolvePathTarget).
THEOREM DoorIsKept == Spec => EntersByRight
<1>1. WalksSound /\ [Next]_vars
        => [\A a \in Actors : /\ Moving(a) /\ intent[a].dest # At(Door)
                              /\ scan # {} /\ pos[a] # Door /\ pos'[a] = Door
                              => MayEnter(a)]_vars
  BY DoorKept
<1> QED
  BY <1>1, VisitorsKeepApart, PTL DEF Spec, EntersByRight
=============================================================================
