------------------------------ MODULE Huddles ------------------------------
(***************************************************************************)
(* Who talks with whom: the huddles, the scenes that observe them, and the *)
(* turns their members wait for.                                           *)
(*                                                                         *)
(* That an actor is in a conversation is recorded three times: in the      *)
(* huddle's member list, in the actor's CurrentHuddleID and in an index.   *)
(* Walking, sleeping, closing a shop, leaving the village, silence and a   *)
(* restart all have to take all three back, wherever the actor is.         *)
(*                                                                         *)
(* Abstractions.  A concluded huddle is dropped from huddles and its id    *)
(* used again once nothing names it.  A structure is an inside and the     *)
(* spot at its door; the rest of the village is one place, within earshot  *)
(* of itself.  Whether a spoken line passes the gates on its words, on a   *)
(* sole peer asked again, and on news, is left open: a refusal only leaves *)
(* the huddle its caller formed.  Private rooms, hired hands at the        *)
(* counter, ghosts of players and moved buildings are left out, and so is  *)
(* what is remembered of a conversation after it ends.                     *)
(***************************************************************************)
EXTENDS Naturals, FiniteSets

CONSTANTS
    Actors,       \* PCs and agent NPCs
    Players,      \* the PCs among them
    Visitors,     \* the transient NPCs among them
    Structures,
    Keeper,       \* for every structure the actor whose WorkStructureID it is
    Walkers,      \* bound: the actors that walk
    Sleepers,     \* bound: the actors that rest
    HuddleIds,    \* bound: ids of huddles; two or more begin one, so one less than actors will do
    Outdoors,     \* the StructureID "" of an outdoor huddle
    NoHuddle,     \* the CurrentHuddleID ""
    Still         \* no MoveIntent

ASSUME PeopleAssumption == /\ IsFiniteSet(Actors)
                           /\ Players \subseteq Actors /\ Visitors \subseteq Actors
                           /\ Walkers \subseteq Actors /\ Sleepers \subseteq Actors
                           /\ Players \cap Visitors = {}
                           /\ Keeper \in [Structures -> Actors]
ASSUME IdsAssumption == /\ IsFiniteSet(HuddleIds)
                        /\ Cardinality(HuddleIds) + 1 >= Cardinality(Actors)

VARIABLES
    talk,     \* the conversations: see Talk
    place,    \* per actor: where it stands
    walk,     \* per actor: its MoveIntent
    rest,     \* per actor: "up", or its open break or sleep window
    here      \* World.Actors

vars == <<talk, place, walk, rest, here>>
body == <<place, walk, rest, here>>

Inside(s) == [at |-> s, in |-> TRUE]
Door(s) == [at |-> s, in |-> FALSE]
Road == [at |-> Outdoors, in |-> FALSE]
Places == {Road} \cup {Inside(s) : s \in Structures} \cup {Door(s) : s \in Structures}

ASSUME NamesAssumption == /\ NoHuddle \notin HuddleIds
                          /\ Outdoors \notin Structures
                          /\ Still \notin Places
                          /\ Structures \cap HuddleIds = {} /\ Structures \cap Places = {}

Huddle == [structure : Structures \cup {Outdoors},
           members : SUBSET Actors,
           quiet : BOOLEAN]             \* LastActivityAt is HuddleSilenceTimeout ago

\* A structure's scene goes by the structure, an area's by the huddle it is minted for.
Scene == [bound : Structures \cup Places, huddles : SUBSET HuddleIds]

Maps(D, R) == UNION {[S -> R] : S \in SUBSET D}
Talk == [current : [Actors -> HuddleIds \cup {NoHuddle}],      \* CurrentHuddleID
         huddles : Maps(HuddleIds, Huddle),                    \* World.Huddles
         byHuddle : Maps(HuddleIds, (SUBSET Actors) \ {{}}),     \* actorsByHuddle
         scenes : Maps(Structures \cup HuddleIds, Scene),      \* World.Scenes
         awaiting : SUBSET (Actors \X Actors)]                 \* awaitingReplyFrom

Put(f, k, v) == [x \in DOMAIN f \cup {k} |-> IF x = k THEN v ELSE f[x]]
Only(f, S) == [x \in DOMAIN f \cap S |-> f[x]]

Empty == [x \in {} |-> {}]
Init == /\ talk = [current |-> [a \in Actors |-> NoHuddle], huddles |-> Empty,
                   byHuddle |-> Empty, scenes |-> Empty, awaiting |-> {}]
        /\ place \in [Actors -> {Road} \cup {Inside(s) : s \in Structures}]
        /\ \A s \in Structures : place[Keeper[s]] = Inside(s)
        /\ walk = [a \in Actors |-> Still]
        /\ rest = [a \in Actors |-> "up"]
        /\ here = Actors

(***************************************************************************)
(* Leaving and concluding                                                  *)
(***************************************************************************)
AtRest == {a \in Actors : rest[a] # "up"}
InTalk(t, a) == t.current[a] \in DOMAIN t.huddles       \* actorInActiveHuddle

\* detachHuddleFromAllScenes; an area scene that watches nothing any more is deleted.
Detached(scenes, H) ==
  LET orphans == {c \in DOMAIN scenes : /\ scenes[c].bound \in Places
                                        /\ scenes[c].huddles # {} /\ scenes[c].huddles \subseteq H}
  IN [c \in DOMAIN scenes \ orphans |-> [scenes[c] EXCEPT !.huddles = @ \ H]]

Closed(t, H) == [t EXCEPT !.huddles = Only(@, HuddleIds \ H), !.scenes = Detached(@, H)]

Unindexed(byHuddle, h, out) ==
  IF h \notin DOMAIN byHuddle THEN byHuddle
  ELSE IF byHuddle[h] \subseteq out THEN Only(byHuddle, HuddleIds \ {h})
  ELSE [byHuddle EXCEPT ![h] = @ \ out]

\* The one left behind, when it rests and will not tick to leave on its own.
LoneResters(stay) == {a \in stay \cap AtRest : stay = {a}}

\* leaveCurrentHuddleAs, of one member or of several in turn; a member that is not in
\* World.Actors is pruned on the way, and the last to go concludes the huddle.
Quit(t, h, out) ==
  LET stay == (t.huddles[h].members \cap here) \ out
      lone == LoneResters(stay)
      gone == t.huddles[h].members \ (stay \ lone)
      left == [t EXCEPT !.current = [x \in Actors |-> IF x \in out \cup lone THEN NoHuddle ELSE @[x]],
                        !.huddles[h].members = @ \ gone,
                        !.byHuddle = Unindexed(@, h, gone),
                        !.awaiting = {e \in @ : e[1] \notin out /\ ~(e[1] \in stay /\ e[2] \in out)}]
  IN IF stay \subseteq lone THEN Closed(left, {h}) ELSE left

Leave(t, a) ==
  IF InTalk(t, a) THEN Quit(t, t.current[a], {a})
  ELSE [t EXCEPT !.current[a] = NoHuddle, !.awaiting = {e \in @ : e[1] # a}]

\* concludeHuddleInner, of every huddle of H
Conclude(t, H) ==
  LET members == UNION {t.huddles[h].members : h \in H}
  IN Closed([t EXCEPT !.current = [a \in Actors |-> IF a \in members THEN NoHuddle ELSE @[a]],
                      !.awaiting = {e \in @ : e[1] \notin members},
                      !.byHuddle = Only(@, HuddleIds \ H)], H)

(***************************************************************************)
(* Joining                                                                 *)
(***************************************************************************)
At(t, s) == {h \in DOMAIN t.huddles : t.huddles[h].structure = s}
HuddleAt(t, s) == CHOOSE h \in At(t, s) : TRUE           \* findActiveHuddleAt
Fresh(t) == CHOOSE h \in HuddleIds : /\ h \notin DOMAIN t.huddles \cup DOMAIN t.byHuddle
                                     /\ \A a \in Actors : t.current[a] # h
                                     /\ \A c \in DOMAIN t.scenes : c # h /\ h \notin t.scenes[c].huddles
Minted(t, h, s) ==
  [t EXCEPT !.huddles = Put(@, h, [structure |-> s, members |-> {}, quiet |-> FALSE])]
Grown(huddle, S) == [huddle EXCEPT !.members = @ \cup S, !.quiet = FALSE]
Seated(t, h, S) ==
  [t EXCEPT !.huddles[h] = Grown(@, S),
            !.current = [x \in Actors |-> IF x \in S THEN h ELSE @[x]],
            !.byHuddle = Put(@, h, S \cup IF h \in DOMAIN @ THEN @[h] ELSE {})]

\* findOrCreateStructureScene and attachHuddleToScene
Watched(t, h, s) == [t EXCEPT !.scenes = Put(@, s, [bound |-> s, huddles |-> {h} \cup
                                               IF s \in DOMAIN @ THEN @[s].huddles ELSE {}])]

\* JoinHuddle: whatever the actor was in before is left first.
Join(t, a, s) ==
  IF InTalk(t, a) /\ t.huddles[t.current[a]].structure = s THEN Watched(t, t.current[a], s)
  ELSE LET u == IF t.current[a] = NoHuddle THEN t ELSE Leave(t, a)
           h == IF At(u, s) # {} THEN HuddleAt(u, s) ELSE Fresh(u)
           v == IF At(u, s) # {} THEN u ELSE Minted(u, h, s)
       IN Watched(Seated(v, h, {a}), h, s)

\* businessTendedAt: its keeper is inside or at the counter, and not asleep.
Tended(s) == LET k == Keeper[s]
             IN k \in here /\ rest[k] # "asleep" /\ place[k].at = s

\* conversationalScopeStructure
Scope(p) == IF p.in \/ (p.at \in Structures /\ Tended(p.at)) THEN p.at ELSE Outdoors

\* EnsureColocatedHuddle, on a speaker's or a trader's first word: the speaker joins,
\* and who stands by in no huddle sits down with it.
Colocated(t, a) ==
  LET s == Scope(place[a])
      others == {b \in here \ {a} : /\ place[b] = Inside(s) /\ t.current[b] = NoHuddle
                                    /\ rest[b] # "asleep"}
  IN IF t.current[a] # NoHuddle \/ s = Outdoors \/ (others = {} /\ At(t, s) = {}) THEN t
     ELSE LET u == Join(t, a, s) IN Seated(u, u.current[a], others)

\* EnsureArrivalBusinessHuddle: the keeper first, the arriver last.
Greeted(t, a, s) ==
  LET k == Keeper[s]
      atPost == k \in here /\ place[k] = Inside(s) /\ rest[k] = "up"
  IN IF t.current[a] # NoHuddle \/ Scope(place[a]) # s \/ a = k \/ ~atPost THEN t
     ELSE IF t.current[k] = NoHuddle THEN Join(Join(t, k, s), a, s)
     ELSE IF t.current[k] \in At(t, s) THEN Join(t, a, s)
     ELSE t

\* handleArrivalEncounter and StartOutdoorHuddle: everyone or no one.
Encountered(t, a) ==
  LET shy(b) == walk[b] # Still \/ rest[b] # "up" \/ Scope(place[b]) # Outdoors
      near == {b \in here \ {a} : place[b] = place[a] /\ t.current[b] = NoHuddle /\ ~shy(b)}
      h == Fresh(t)
      minted == [Minted(t, h, Outdoors) EXCEPT !.scenes =
                   Put(@, h, [bound |-> place[a], huddles |-> {h}])]
  IN IF place[a].in \/ t.current[a] # NoHuddle \/ Scope(place[a]) # Outdoors \/ near = {} THEN t
     ELSE Seated(minted, h, {a} \cup near)

(***************************************************************************)
(* Speaking and trading                                                    *)
(***************************************************************************)
Peers(t, a) == IF t.current[a] \in DOMAIN t.byHuddle THEN t.byHuddle[t.current[a]] \ {a} ELSE {}
Touched(t, a) == IF InTalk(t, a) THEN [t EXCEPT !.huddles[t.current[a]].quiet = FALSE] ELSE t

\* Mutant: only the one spoken to counts as answered.
MutSpoken(t, a, to) ==
  [Touched(t, a) EXCEPT !.awaiting = (@ \cup ({a} \X to)) \ (Peers(t, a) \ to \X {a})]

\* SpeakTo, past its gates: whoever waited for the speaker is answered.
Spoken(t, a, to) ==
  [Touched(t, a) EXCEPT !.awaiting = (@ \cup ({a} \X to)) \ (Peers(t, a) \X {a})]

Awake(a) == a \in here /\ rest[a] = "up"

SpeakTo(a) ==
  /\ Awake(a)
  /\ LET t == Colocated(talk, a)
     IN \/ talk' = t
        \/ /\ a \notin Players => walk[a] = Still /\ Peers(t, a) # {}
           /\ \E to \in {{}} \cup {{b} : b \in Peers(t, a)} : talk' = Spoken(t, a, to)
  /\ UNCHANGED body

\* A pay or a gift: TransactionHuddle, then touchHuddleProgress once it settles.
Trade(a) ==
  /\ Awake(a)
  /\ talk' = Touched(Colocated(talk, a), a)
  /\ UNCHANGED body

\* bake, turn_in's goodnight, going upstairs: out of the conversation, on the spot.
Excuse(a) ==
  /\ Awake(a) /\ talk.current[a] # NoHuddle
  /\ talk' = Leave(talk, a)
  /\ UNCHANGED body

\* dissolveSoloHuddleAfterTick: the last to stay leaves when its turn is over.
EndTick(a) ==
  /\ a \in here \ Players /\ InTalk(talk, a)
  /\ talk.huddles[talk.current[a]].members = {a}
  /\ talk' = Leave(talk, a)
  /\ UNCHANGED body

(***************************************************************************)
(* Walking                                                                 *)
(***************************************************************************)
\* MoveActor with LeaveHuddleFirst; an agent NPC that was asleep is up.
MoveActor(a, p) ==
  /\ a \in here \cap Walkers /\ (a \in Players => rest[a] = "up")
  /\ talk' = IF talk.current[a] = NoHuddle THEN talk ELSE Leave(talk, a)
  /\ walk' = [walk EXCEPT ![a] = p]
  /\ rest' = [rest EXCEPT ![a] = IF @ = "asleep" THEN "up" ELSE @]
  /\ UNCHANGED <<place, here>>

Toward(p, q) ==
  IF p.in THEN Door(p.at)
  ELSE IF q.at = p.at THEN q
  ELSE IF p = Road THEN Door(q.at) ELSE Road

\* A mover never stays in an active huddle.
Unhuddled(t, a) == IF InTalk(t, a) THEN Leave(t, a) ELSE t

\* EvaluateLocomotion, for one walker that has not arrived
Step(a) ==
  /\ a \in here /\ walk[a] # Still /\ walk[a] # place[a]
  /\ talk' = Unhuddled(talk, a)
  /\ place' = [place EXCEPT ![a] = Toward(@, walk[a])]
  /\ UNCHANGED <<walk, rest, here>>

\* finishArrival; a player at a door to knock on is met by no one.
Arrive(a) ==
  /\ a \in here /\ walk[a] = place[a]
  /\ LET t == Unhuddled(talk, a)
         met == Encountered(t, a)
     IN \/ talk' = IF place[a].at = Outdoors THEN met ELSE Greeted(met, a, place[a].at)
        \/ a \in Players /\ ~place[a].in /\ place[a] # Road /\ talk' = t
  /\ walk' = [walk EXCEPT ![a] = Still]
  /\ UNCHANGED <<place, rest, here>>

\* KnockAtDoor and EnsureKnockServiceHuddle
KnockAtDoor(a, s) ==
  /\ a \in Players /\ Awake(a) /\ place[a] = Door(s) /\ walk[a] = Still
  /\ LET answered == InTalk(talk, a) /\ \E b \in talk.huddles[talk.current[a]].members \ {a} :
                                            place[b] = Inside(s)
         t == IF InTalk(talk, a) THEN Leave(talk, a) ELSE talk
         k == Keeper[s]
         opens == k \in here /\ place[k] = Inside(s) /\ rest[k] = "up" /\ walk[k] = Still
     IN talk' = IF answered THEN talk
                ELSE IF opens THEN Join(Join(t, k, s), a, s)
                ELSE t
  /\ UNCHANGED body

\* Scene.Bound.Contains
Contains(bound, p) == IF bound \in Places THEN p = bound ELSE p = Inside(bound)

\* Mutant: only a structure's scene is asked whether it still contains its member.
MutDrifted(t, a, p) ==
  IF InTalk(t, a) /\ \E c \in DOMAIN t.scenes \cap Structures :
                        /\ t.current[a] \in t.scenes[c].huddles
                        /\ ~Contains(t.scenes[c].bound, p)
  THEN Leave(t, a) ELSE t

\* checkHuddleDriftAfterPositionMutation
Drifted(t, a, p) ==
  IF InTalk(t, a) /\ \E c \in DOMAIN t.scenes : /\ t.current[a] \in t.scenes[c].huddles
                                                /\ ~Contains(t.scenes[c].bound, p)
  THEN Leave(t, a) ELSE t

\* SetActorPosition, by an admin or by a host's let_in
SetPosition(a, p) ==
  /\ a \in here \cap Walkers /\ p # place[a]
  /\ place' = [place EXCEPT ![a] = p]
  /\ walk' = [walk EXCEPT ![a] = Still]
  /\ talk' = Drifted(talk, a, p)
  /\ UNCHANGED <<rest, here>>

(***************************************************************************)
(* Resting, departing, sweeping, restarting                                *)
(***************************************************************************)
\* evictLoiterMembersOnClose: the shop is shut, who stands at its door is out.
Evicted(t, s) ==
  LET h == HuddleAt(t, s)
      outside == {b \in t.huddles[h].members \cap here : t.current[b] = h /\ place[b] # Inside(s)}
  IN IF At(t, s) = {} \/ outside = {} THEN t ELSE Quit(t, h, outside)

\* executeNPCSleep and executePCSleep: a player beds down without a farewell.
Sleep(a) ==
  /\ a \in here \cap Sleepers /\ rest[a] # "asleep" /\ walk[a] = Still /\ place[a].in
  /\ rest' = [rest EXCEPT ![a] = "asleep"]
  /\ LET t == IF a \notin Players /\ InTalk(talk, a) THEN Leave(talk, a) ELSE talk
         s == place[a].at
     IN talk' = IF a \notin Players /\ a = Keeper[s] THEN Evicted(t, s) ELSE t
  /\ UNCHANGED <<place, walk, here>>

TakeBreak(a) ==
  /\ Awake(a) /\ a \in Sleepers \ Players
  /\ rest' = [rest EXCEPT ![a] = "break"]
  /\ UNCHANGED <<talk, place, walk, here>>

Wake(a) ==
  /\ a \in here /\ rest[a] # "up"
  /\ rest' = [rest EXCEPT ![a] = "up"]
  /\ UNCHANGED <<talk, place, walk, here>>

\* Mutant: the actor is deleted where it stands.
MutDepart(a) ==
  /\ a \in here \cap Visitors
  /\ here' = here \ {a}
  /\ walk' = [walk EXCEPT ![a] = Still]
  /\ UNCHANGED <<talk, place, rest>>

\* A visitor's cleanup: leaveHuddleBeforeRemoval, then the deletion.
Depart(a) ==
  /\ a \in here \cap Visitors
  /\ talk' = IF talk.current[a] = NoHuddle THEN talk
             ELSE LET t == Leave(talk, a)
                  IN [t EXCEPT !.byHuddle = Unindexed(@, talk.current[a], {a})]
  /\ here' = here \ {a}
  /\ walk' = [walk EXCEPT ![a] = Still]
  /\ UNCHANGED <<place, rest>>

\* The next visitor comes up the road.
Spawn(a) ==
  /\ a \in Visitors \ here
  /\ here' = here \cup {a}
  /\ place' = [place EXCEPT ![a] = Road]
  /\ rest' = [rest EXCEPT ![a] = "up"]
  /\ UNCHANGED <<talk, walk>>

\* Time passes without a word.
FallSilent(h) ==
  /\ h \in DOMAIN talk.huddles /\ ~talk.huddles[h].quiet
  /\ UNCHANGED body
  /\ talk' = [talk EXCEPT !.huddles[h].quiet = TRUE]

\* Mutant: only a huddle nobody is left in is dormant.
MutDormant == {h \in DOMAIN talk.huddles : talk.huddles[h].members = {}}

Dormant == {h \in DOMAIN talk.huddles : talk.huddles[h].quiet}

\* EvaluateHuddleSilenceSweep
SilenceSweep ==
  /\ Dormant # {}
  /\ UNCHANGED body
  /\ talk' = Conclude(talk, Dormant)

\* EvaluateHuddleLoopSweep, on the huddle its metrics find looping
LoopSweep(h) ==
  /\ h \in DOMAIN talk.huddles
  /\ talk' = Conclude(talk, {h})
  /\ UNCHANGED body

\* ClearConversationalHuddlesOnBoot, of the scenes
Cleared(scenes) == [c \in {c \in DOMAIN scenes : scenes[c].bound \in Structures} |->
                      [scenes[c] EXCEPT !.huddles = {}]]

\* A crash, the load of a checkpoint and the boot.  Visitors are not saved; where an
\* actor stood at the checkpoint is left open, and which scenes were there.
Restart ==
  /\ \E saved \in SUBSET DOMAIN Cleared(talk.scenes) :
       talk' = [current |-> [a \in Actors |-> NoHuddle], huddles |-> Empty, byHuddle |-> Empty,
                scenes |-> Only(Cleared(talk.scenes), saved), awaiting |-> {}]
  /\ here' = here \ Visitors
  /\ walk' = [a \in Actors |-> Still]
  /\ UNCHANGED <<place, rest>>

Act(a) ==
  \/ SpeakTo(a) \/ Trade(a) \/ Excuse(a) \/ EndTick(a)
  \/ Step(a) \/ Arrive(a) \/ Sleep(a) \/ TakeBreak(a) \/ Wake(a)
  \/ Depart(a) \/ Spawn(a)
  \/ \E p \in Places : MoveActor(a, p) \/ SetPosition(a, p)
  \/ \E s \in Structures : KnockAtDoor(a, s)

Next == \/ \E a \in Actors : Act(a)
        \/ \E h \in HuddleIds : FallSilent(h) \/ LoopSweep(h)
        \/ SilenceSweep
        \/ Restart

Spec == Init /\ [][Next]_vars

\* The sweep re-arms itself and time passes; nobody has to speak, leave or wake.
FairSpec == /\ Spec /\ WF_vars(SilenceSweep)
            /\ \A h \in HuddleIds : WF_vars(FallSilent(h))

(***************************************************************************)
(* Properties                                                              *)
(***************************************************************************)
TypeOK == /\ talk \in Talk
          /\ place \in [Actors -> Places]
          /\ walk \in [Actors -> Places \cup {Still}]
          /\ rest \in [Actors -> {"up", "break", "asleep"}]
          /\ here \subseteq Actors

\* The member list, the actors' pointers and the index tell the same story, and it is
\* about actors that are there: what the boot reconciliation demands of a checkpoint.
OneRoster ==
  /\ \A a \in Actors : talk.current[a] # NoHuddle => talk.current[a] \in DOMAIN talk.huddles
  /\ DOMAIN talk.byHuddle = DOMAIN talk.huddles
  /\ \A h \in DOMAIN talk.huddles :
       /\ talk.huddles[h].members = {a \in Actors : talk.current[a] = h}
       /\ talk.byHuddle[h] = talk.huddles[h].members
       /\ talk.huddles[h].members \subseteq here

\* The same over well-typed state.
RosterSound == TypeOK /\ OneRoster

\* Under one roof there is one conversation, however its members came to it.
OneTalkPerRoof == \A s \in Structures : \A g, h \in At(talk, s) : g = h

\* An actor waits only for one it talks with, and never for one that waits for it: a
\* reply is never taken for a re-pitch.
TurnsSound == \A e \in talk.awaiting : /\ talk.current[e[1]] # NoHuddle
                                       /\ talk.current[e[2]] = talk.current[e[1]]
                                       /\ <<e[2], e[1]>> \notin talk.awaiting

\* A scene names live huddles of its own place, every live huddle is in one, and an area
\* scene lives exactly as long as the huddle it is minted for.
ScenesFollow ==
  /\ \A c \in DOMAIN talk.scenes : talk.scenes[c].huddles \subseteq DOMAIN talk.huddles
  /\ \A c \in DOMAIN talk.scenes : talk.scenes[c].bound \in Places =>
                                     talk.scenes[c].huddles = {c}
  /\ \A h \in DOMAIN talk.huddles : \E c \in DOMAIN talk.scenes : h \in talk.scenes[c].huddles
  /\ \A c \in DOMAIN talk.scenes : \A h \in talk.scenes[c].huddles :
       talk.huddles[h].structure = IF c \in Structures THEN c ELSE Outdoors
  /\ \A c \in DOMAIN talk.scenes : IF c \in Structures THEN talk.scenes[c].bound = c
                                  ELSE talk.scenes[c].bound \in Places

\* Whoever is in a conversation stands where it is held: inside or at the door, or at the
\* outdoor spot; a walker drawn in on its way does not carry it along.
TalkersPresent ==
  \A a \in Actors : \A h \in {talk.current[a]} \cap DOMAIN talk.huddles :
    LET s == talk.huddles[h].structure
    IN IF s # Outdoors THEN place[a].at = s
       ELSE \A c \in DOMAIN talk.scenes : h \in talk.scenes[c].huddles => talk.scenes[c].bound = place[a]

\* Where a talk is held: one to a roof, and its scenes and its members agree on it.
TalksPlaced == OneTalkPerRoof /\ ScenesFollow /\ TalkersPresent

\* A huddle all of whose members rest, so that none will tick to leave, comes to an end
\* or gets company: the silence sweep is what ends it.
RestersReleased ==
  \A h \in HuddleIds :
    [](h \in DOMAIN talk.huddles /\ talk.huddles[h].members \subseteq AtRest
       => <>(h \notin DOMAIN talk.huddles \/ ~(talk.huddles[h].members \subseteq AtRest)))
=============================================================================
