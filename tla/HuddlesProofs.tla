--------------------------- MODULE HuddlesProofs ---------------------------
(***************************************************************************)
(* What Huddles guarantees for any number of actors, structures and ids.   *)
(*                                                                         *)
(* Every action maps the conversations to conversations, so the argument   *)
(* is made once per operator on them: Sound(t, P, H) says that t is as it  *)
(* should be when the actors stand where P says and H of them are there,   *)
(* each operator keeps it, and each action only composes operators.        *)
(***************************************************************************)
EXTENDS Huddles, FiniteSetTheorems, TLAPS

USE NamesAssumption

----------------------------------------------------------------------------
(* Finite maps *)

LEMMA MapsElim ==
    ASSUME NEW D, NEW R, NEW f \in Maps(D, R)
    PROVE  f \in [DOMAIN f -> R] /\ DOMAIN f \subseteq D
BY DEF Maps

LEMMA MapsIntro ==
    ASSUME NEW D, NEW R, NEW S \in SUBSET D, NEW f \in [S -> R]
    PROVE  f \in Maps(D, R)
BY DEF Maps

LEMMA OnlyType ==
    ASSUME NEW D, NEW R, NEW f \in Maps(D, R), NEW S
    PROVE  Only(f, S) \in Maps(D, R)
<1>1. f \in [DOMAIN f -> R] /\ DOMAIN f \subseteq D
  BY MapsElim
<1>2. Only(f, S) \in [DOMAIN f \cap S -> R]
  BY <1>1 DEF Only
<1> QED BY <1>1, <1>2, MapsIntro

LEMMA PutMap ==
    ASSUME NEW D, NEW R, NEW f \in Maps(D, R), NEW k \in D, NEW v \in R,
           NEW g, g = Put(f, k, v)
    PROVE  /\ g \in Maps(D, R)
           /\ \A x : x \in DOMAIN g <=> x \in DOMAIN f \/ x = k
           /\ g[k] = v
           /\ \A x \in DOMAIN f : x # k => g[x] = f[x]
<1>1. f \in [DOMAIN f -> R] /\ DOMAIN f \subseteq D
  BY MapsElim
<1>2. g \in [DOMAIN f \cup {k} -> R]
  BY <1>1 DEF Put
<1>3. DOMAIN f \cup {k} \in SUBSET D
  BY <1>1
<1>4. g \in Maps(D, R)
  BY <1>2, <1>3, MapsIntro
<1> QED BY <1>2, <1>4 DEF Put

LEMMA EmptyMap ==
    ASSUME NEW D, NEW R
    PROVE  Empty \in Maps(D, R) /\ DOMAIN Empty = {}
<1>1. Empty \in [{} -> R] BY DEF Empty
<1> QED BY <1>1, MapsIntro

----------------------------------------------------------------------------
(* Sound conversations *)

\* The member lists, the pointers and the index agree, and name actors of H.
Rostered(t, H) ==
    /\ \A a \in Actors : t.current[a] # NoHuddle => t.current[a] \in DOMAIN t.huddles
    /\ DOMAIN t.byHuddle = DOMAIN t.huddles
    /\ \A h \in DOMAIN t.huddles :
          /\ t.huddles[h].members = {a \in Actors : t.current[a] = h}
          /\ t.byHuddle[h] = t.huddles[h].members
          /\ t.huddles[h].members \subseteq H

Waits(t) ==
    \A e \in t.awaiting : /\ t.current[e[1]] # NoHuddle
                          /\ t.current[e[2]] = t.current[e[1]]
                          /\ <<e[2], e[1]>> \notin t.awaiting

Roofs(t) == \A s \in Structures : \A g, h \in At(t, s) : g = h

Followed(t) ==
    /\ \A c \in DOMAIN t.scenes : t.scenes[c].huddles \subseteq DOMAIN t.huddles
    /\ \A c \in DOMAIN t.scenes : t.scenes[c].bound \in Places =>
                                    t.scenes[c].huddles = {c}
    /\ \A h \in DOMAIN t.huddles : \E c \in DOMAIN t.scenes : h \in t.scenes[c].huddles
    /\ \A c \in DOMAIN t.scenes : \A h \in t.scenes[c].huddles :
          t.huddles[h].structure = IF c \in Structures THEN c ELSE Outdoors
    /\ \A c \in DOMAIN t.scenes : IF c \in Structures THEN t.scenes[c].bound = c
                                  ELSE t.scenes[c].bound \in Places

Present(t, P) ==
    \A a \in Actors : t.current[a] \in DOMAIN t.huddles =>
      LET h == t.current[a]
          s == t.huddles[h].structure
      IN IF s # Outdoors THEN P[a].at = s
         ELSE \A c \in DOMAIN t.scenes : h \in t.scenes[c].huddles => t.scenes[c].bound = P[a]

Sound(t, P, H) ==
    t \in Talk /\ Rostered(t, H) /\ Waits(t) /\ Roofs(t) /\ Followed(t) /\ Present(t, P)

SceneKeys == Structures \cup HuddleIds
Groups == (SUBSET Actors) \ {{}}

LEMMA TalkParts ==
    ASSUME NEW t \in Talk
    PROVE  /\ t.current \in [Actors -> HuddleIds \cup {NoHuddle}]
           /\ t.huddles \in Maps(HuddleIds, Huddle)
           /\ t.byHuddle \in Maps(HuddleIds, Groups)
           /\ t.scenes \in Maps(SceneKeys, Scene)
           /\ t.awaiting \subseteq Actors \X Actors
BY DEF Talk, SceneKeys, Groups

LEMMA TalkTypes ==
    ASSUME NEW t \in Talk
    PROVE  /\ DOMAIN t.huddles \subseteq HuddleIds
           /\ \A h \in DOMAIN t.huddles : t.huddles[h] \in Huddle
           /\ DOMAIN t.byHuddle \subseteq HuddleIds
           /\ \A h \in DOMAIN t.byHuddle : t.byHuddle[h] \in (SUBSET Actors) \ {{}}
           /\ DOMAIN t.scenes \subseteq Structures \cup HuddleIds
           /\ \A c \in DOMAIN t.scenes : t.scenes[c] \in Scene
BY TalkParts, MapsElim DEF SceneKeys, Groups

Record(current, huddles, byHuddle, scenes, awaiting) ==
    [current |-> current, huddles |-> huddles, byHuddle |-> byHuddle,
     scenes |-> scenes, awaiting |-> awaiting]

LEMMA TalkIs ==
    ASSUME NEW current \in [Actors -> HuddleIds \cup {NoHuddle}],
           NEW huddles \in Maps(HuddleIds, Huddle),
           NEW byHuddle \in Maps(HuddleIds, Groups),
           NEW scenes \in Maps(SceneKeys, Scene),
           NEW awaiting \in SUBSET (Actors \X Actors)
    PROVE  Record(current, huddles, byHuddle, scenes, awaiting) \in Talk
BY DEF Talk, SceneKeys, Groups, Record

----------------------------------------------------------------------------
(* Concluding *)

LEMMA DetachedIs ==
    ASSUME NEW scenes \in Maps(SceneKeys, Scene), NEW D,
           NEW g, g = Detached(scenes, D)
    PROVE  /\ g \in Maps(SceneKeys, Scene)
           /\ \A c : c \in DOMAIN g <=>
                 /\ c \in DOMAIN scenes
                 /\ ~(/\ scenes[c].bound \in Places
                      /\ scenes[c].huddles # {} /\ scenes[c].huddles \subseteq D)
           /\ \A c \in DOMAIN g : /\ g[c].bound = scenes[c].bound
                                  /\ g[c].huddles = scenes[c].huddles \ D
<1>1. scenes \in [DOMAIN scenes -> Scene] /\ DOMAIN scenes \subseteq SceneKeys
  BY MapsElim
<1>2. DOMAIN g = {c \in DOMAIN scenes : ~(/\ scenes[c].bound \in Places
                                         /\ scenes[c].huddles # {} /\ scenes[c].huddles \subseteq D)}
  BY DEF Detached
<1>3. \A c \in DOMAIN g : g[c] = [scenes[c] EXCEPT !.huddles = @ \ D]
  BY DEF Detached
<1>4. \A c \in DOMAIN g : /\ g[c] \in Scene
                          /\ g[c].bound = scenes[c].bound
                          /\ g[c].huddles = scenes[c].huddles \ D
  BY <1>1, <1>2, <1>3 DEF Scene
<1>5. g \in [DOMAIN g -> Scene]
  BY <1>4 DEF Detached
<1>6. DOMAIN g \in SUBSET SceneKeys
  BY <1>1, <1>2
<1> QED BY <1>2, <1>4, <1>5, <1>6, MapsIntro

Others(D) == HuddleIds \ D
Members(t, D) == UNION {t.huddles[h].members : h \in D}

LEMMA ConcludeIs ==
    ASSUME NEW t \in Talk, NEW D
    PROVE  Conclude(t, D) =
             Record([a \in Actors |-> IF a \in Members(t, D) THEN NoHuddle ELSE t.current[a]],
                    Only(t.huddles, Others(D)), Only(t.byHuddle, Others(D)),
                    Detached(t.scenes, D), {e \in t.awaiting : e[1] \notin Members(t, D)})
<1> DEFINE out == Members(t, D)
           current == [a \in Actors |-> IF a \in out THEN NoHuddle ELSE t.current[a]]
           index == Only(t.byHuddle, Others(D))
           awaiting == {e \in t.awaiting : e[1] \notin out}
<1>1. PICK v : v = [t EXCEPT !.current = current, !.awaiting = awaiting, !.byHuddle = index]
  OBVIOUS
<1>2. Conclude(t, D) = Closed(v, D)
  BY <1>1 DEF Conclude, Members, Others
<1> HIDE DEF current, index, awaiting
<1>3. v = [current |-> current, huddles |-> t.huddles, byHuddle |-> index,
           scenes |-> t.scenes, awaiting |-> awaiting]
  BY <1>1 DEF Talk
<1>4. PICK u : u = [v EXCEPT !.huddles = Only(v.huddles, Others(D)),
                             !.scenes = Detached(v.scenes, D)]
  OBVIOUS
<1>5. u = [current |-> current, huddles |-> Only(t.huddles, Others(D)),
           byHuddle |-> index, scenes |-> Detached(t.scenes, D), awaiting |-> awaiting]
  BY <1>3, <1>4
<1>6. Conclude(t, D) = u
  BY <1>2, <1>4 DEF Closed, Others
<1> QED BY <1>5, <1>6 DEF current, index, awaiting, Record

LEMMA ConcludeSound ==
    ASSUME NEW P, NEW H, NEW t, Sound(t, P, H), NEW D \in SUBSET DOMAIN t.huddles,
           NEW u, u = Conclude(t, D)
    PROVE  /\ Sound(u, P, H)
           /\ \A a \in Actors : u.current[a] = IF t.current[a] \in D THEN NoHuddle ELSE t.current[a]
<1>t. t \in Talk BY DEF Sound
<1>d. D \subseteq HuddleIds
  BY <1>t, TalkTypes
<1> DEFINE out == Members(t, D)
<1>1. out = {a \in Actors : t.current[a] \in D}
  <2>1. \A h \in D : t.huddles[h].members = {a \in Actors : t.current[a] = h}
    BY DEF Sound, Rostered
  <2> QED BY <2>1 DEF Members
<1> HIDE DEF out
<1>2. u = Record([a \in Actors |-> IF a \in out THEN NoHuddle ELSE t.current[a]],
                 Only(t.huddles, Others(D)), Only(t.byHuddle, Others(D)),
                 Detached(t.scenes, D), {e \in t.awaiting : e[1] \notin out})
  BY <1>t, ConcludeIs DEF out
<1>3. u \in Talk
  <2>1. [a \in Actors |-> IF a \in out THEN NoHuddle ELSE t.current[a]]
           \in [Actors -> HuddleIds \cup {NoHuddle}]
    BY <1>t, TalkParts
  <2>2. /\ Only(t.huddles, Others(D)) \in Maps(HuddleIds, Huddle)
        /\ Only(t.byHuddle, Others(D)) \in Maps(HuddleIds, Groups)
    BY <1>t, TalkParts, OnlyType
  <2>3. Detached(t.scenes, D) \in Maps(SceneKeys, Scene)
    BY <1>t, TalkParts, DetachedIs
  <2>4. {e \in t.awaiting : e[1] \notin out} \in SUBSET (Actors \X Actors)
    BY <1>t, TalkParts
  <2> QED BY <1>2, <2>1, <2>2, <2>3, <2>4, TalkIs
<1>f. /\ u.current = [a \in Actors |-> IF a \in out THEN NoHuddle ELSE t.current[a]]
      /\ u.huddles = Only(t.huddles, Others(D))
      /\ u.byHuddle = Only(t.byHuddle, Others(D))
      /\ u.scenes = Detached(t.scenes, D)
      /\ u.awaiting = {e \in t.awaiting : e[1] \notin out}
  BY <1>2 DEF Record
<1>4. /\ \A a \in Actors : u.current[a] = IF t.current[a] \in D THEN NoHuddle ELSE t.current[a]
      /\ DOMAIN u.huddles = DOMAIN t.huddles \ D
      /\ \A h \in DOMAIN u.huddles : u.huddles[h] = t.huddles[h]
      /\ DOMAIN u.byHuddle = DOMAIN t.byHuddle \ D
      /\ \A h \in DOMAIN u.byHuddle : u.byHuddle[h] = t.byHuddle[h]
  <2>1. \A a \in Actors : u.current[a] = IF t.current[a] \in D THEN NoHuddle ELSE t.current[a]
    BY <1>1, <1>f
  <2>2. DOMAIN t.huddles \subseteq HuddleIds /\ DOMAIN t.byHuddle \subseteq HuddleIds
    BY <1>t, TalkTypes
  <2>3. /\ DOMAIN u.huddles = DOMAIN t.huddles \ D
        /\ \A h \in DOMAIN u.huddles : u.huddles[h] = t.huddles[h]
    BY <1>f, <2>2 DEF Only, Others
  <2>4. /\ DOMAIN u.byHuddle = DOMAIN t.byHuddle \ D
        /\ \A h \in DOMAIN u.byHuddle : u.byHuddle[h] = t.byHuddle[h]
    BY <1>f, <2>2 DEF Only, Others
  <2> QED BY <2>1, <2>2, <2>3, <2>4
<1>5. /\ \A c : c \in DOMAIN u.scenes <=>
             /\ c \in DOMAIN t.scenes
             /\ ~(/\ t.scenes[c].bound \in Places
                  /\ t.scenes[c].huddles # {} /\ t.scenes[c].huddles \subseteq D)
      /\ \A c \in DOMAIN u.scenes : /\ u.scenes[c].bound = t.scenes[c].bound
                                    /\ u.scenes[c].huddles = t.scenes[c].huddles \ D
  <2>1. t.scenes \in Maps(SceneKeys, Scene)
    BY <1>t, TalkParts
  <2> QED BY <1>f, <2>1, DetachedIs
<1>6. u.awaiting = {e \in t.awaiting : e[1] \notin out}
  BY <1>f
<1>7. Rostered(u, H)
  <2>1. \A a \in Actors : u.current[a] # NoHuddle => u.current[a] \in DOMAIN u.huddles
    BY <1>4 DEF Sound, Rostered
  <2>2. DOMAIN u.byHuddle = DOMAIN u.huddles
    BY <1>4 DEF Sound, Rostered
  <2>3. ASSUME NEW h \in DOMAIN u.huddles
        PROVE  /\ u.huddles[h].members = {a \in Actors : u.current[a] = h}
               /\ u.byHuddle[h] = u.huddles[h].members
               /\ u.huddles[h].members \subseteq H
    <3>1. h \in DOMAIN t.huddles /\ h \notin D /\ h # NoHuddle
      BY <1>t, <1>4, <2>3, TalkTypes
    <3>2. {a \in Actors : u.current[a] = h} = {a \in Actors : t.current[a] = h}
      BY <1>4, <3>1
    <3> QED BY <1>4, <2>2, <3>1, <3>2 DEF Sound, Rostered
  <2> QED BY <2>1, <2>2, <2>3 DEF Rostered
<1>8. Waits(u)
  <2>1. t.awaiting \subseteq Actors \X Actors
    BY <1>t, TalkParts
  <2>2. ASSUME NEW e \in t.awaiting, e[1] \notin out
        PROVE  /\ u.current[e[1]] # NoHuddle
               /\ u.current[e[2]] = u.current[e[1]]
               /\ <<e[2], e[1]>> \notin t.awaiting
    <3>1. e[1] \in Actors /\ e[2] \in Actors
      BY <2>1
    <3>2. /\ t.current[e[1]] # NoHuddle
          /\ t.current[e[2]] = t.current[e[1]]
          /\ <<e[2], e[1]>> \notin t.awaiting
      BY DEF Sound, Waits
    <3>3. t.current[e[1]] \notin D
      BY <1>1, <2>2, <3>1
    <3> QED BY <1>4, <3>1, <3>2, <3>3
  <2> QED BY <1>6, <2>2 DEF Waits
<1>9. Roofs(u)
  BY <1>4 DEF Sound, Roofs, At
<1>10. Followed(u)
  <2>1. \A c \in DOMAIN u.scenes : u.scenes[c].huddles \subseteq DOMAIN u.huddles
    BY <1>4, <1>5 DEF Sound, Followed
  <2>2. \A c \in DOMAIN u.scenes : u.scenes[c].bound \in Places =>
            u.scenes[c].huddles = {c}
    BY <1>4, <1>5 DEF Sound, Followed
  <2>3. \A h \in DOMAIN u.huddles : \E c \in DOMAIN u.scenes : h \in u.scenes[c].huddles
    BY <1>4, <1>5 DEF Sound, Followed
  <2>4. \A c \in DOMAIN u.scenes : \A h \in u.scenes[c].huddles :
            u.huddles[h].structure = IF c \in Structures THEN c ELSE Outdoors
    BY <1>4, <1>5, <2>1 DEF Sound, Followed
  <2>5. \A c \in DOMAIN u.scenes : IF c \in Structures THEN u.scenes[c].bound = c
                                   ELSE u.scenes[c].bound \in Places
    BY <1>5 DEF Sound, Followed
  <2> QED BY <2>1, <2>2, <2>3, <2>4, <2>5 DEF Followed
<1>11. Present(u, P)
  <2>1. ASSUME NEW a \in Actors, u.current[a] \in DOMAIN u.huddles
        PROVE  /\ u.current[a] = t.current[a]
               /\ t.current[a] \in DOMAIN t.huddles
               /\ u.huddles[u.current[a]] = t.huddles[t.current[a]]
    BY <1>t, <1>4, <2>1, TalkTypes
  <2> QED BY <1>5, <2>1 DEF Sound, Present
<1> QED BY <1>3, <1>4, <1>7, <1>8, <1>9, <1>10, <1>11 DEF Sound

\* What is left of t when the members out of huddle h are gone, but for its conclusion.
Remnant(t, h, out, stay, lone) ==
    LET gone == t.huddles[h].members \ (stay \ lone)
    IN [current |-> [x \in Actors |-> IF x \in out \cup lone THEN NoHuddle ELSE t.current[x]],
        huddles |-> [t.huddles EXCEPT ![h].members = @ \ gone],
        byHuddle |-> Unindexed(t.byHuddle, h, gone),
        scenes |-> t.scenes,
        awaiting |-> {e \in t.awaiting : e[1] \notin out /\ ~(e[1] \in stay /\ e[2] \in out)}]

Staying(t, h, out) == (t.huddles[h].members \cap here) \ out

LEMMA QuitIs ==
    ASSUME NEW t \in Talk, NEW h, NEW out,
           NEW stay, stay = Staying(t, h, out),
           NEW lone, lone = LoneResters(stay),
           NEW r, r = Remnant(t, h, out, stay, lone)
    PROVE  /\ stay \subseteq lone => Quit(t, h, out) = Closed(r, {h})
           /\ ~(stay \subseteq lone) => Quit(t, h, out) = r
<1> DEFINE gone == t.huddles[h].members \ (stay \ lone)
           current == [x \in Actors |-> IF x \in out \cup lone THEN NoHuddle ELSE t.current[x]]
           members == t.huddles[h].members \ gone
           index == Unindexed(t.byHuddle, h, gone)
           awaiting == {e \in t.awaiting : e[1] \notin out /\ ~(e[1] \in stay /\ e[2] \in out)}
<1>1. PICK w : w = [t EXCEPT !.current = current, !.huddles[h].members = members,
                             !.byHuddle = index, !.awaiting = awaiting]
  OBVIOUS
<1>2. Quit(t, h, out) = IF stay \subseteq lone THEN Closed(w, {h}) ELSE w
  BY <1>1 DEF Quit, Staying
<1> HIDE DEF current, members, index, awaiting
<1>3. w = [current |-> current, huddles |-> [t.huddles EXCEPT ![h].members = members],
           byHuddle |-> index, scenes |-> t.scenes, awaiting |-> awaiting]
  BY <1>1 DEF Talk
<1>4. w = Remnant(t, h, out, stay, lone)
  BY <1>3 DEF Remnant, current, members, index, awaiting
<1> QED BY <1>2, <1>4

LEMMA LoneIs ==
    ASSUME NEW stay
    PROVE  LoneResters(stay) = {} \/ \E x \in stay : stay = {x} /\ LoneResters(stay) = {x}
BY DEF LoneResters

LEMMA ClosedIs ==
    ASSUME NEW current, NEW huddles, NEW byHuddle, NEW scenes, NEW awaiting, NEW D,
           NEW r, r = Record(current, huddles, byHuddle, scenes, awaiting)
    PROVE  Closed(r, D) = Record(current, Only(huddles, Others(D)), byHuddle,
                                 Detached(scenes, D), awaiting)
<1> DEFINE alive == Only(huddles, Others(D))
           seen == Detached(scenes, D)
<1>1. PICK u : u = [r EXCEPT !.huddles = alive, !.scenes = seen]
  OBVIOUS
<1>2. Closed(r, D) = u
  BY <1>1 DEF Closed, Others, Record
<1> HIDE DEF alive, seen
<1>3. u = [current |-> current, huddles |-> alive, byHuddle |-> byHuddle,
           scenes |-> seen, awaiting |-> awaiting]
  BY <1>1 DEF Record
<1> QED BY <1>2, <1>3 DEF alive, seen, Record

\* The last to go, or the last but one that rests: the huddle is concluded.
LEMMA QuitConcludes ==
    ASSUME NEW P, NEW t, Sound(t, P, here), NEW h \in DOMAIN t.huddles,
           NEW out \in SUBSET t.huddles[h].members,
           NEW stay, stay = t.huddles[h].members \ out,
           NEW lone, lone = stay, lone = {} \/ \E x \in stay : stay = {x}
    PROVE  Closed(Remnant(t, h, out, stay, lone), {h}) = Conclude(t, {h})
<1>t. t \in Talk BY DEF Sound
<1> DEFINE members == t.huddles[h].members
           gone == members \ (stay \ lone)
           current == [x \in Actors |-> IF x \in members THEN NoHuddle ELSE t.current[x]]
           awaiting == {e \in t.awaiting : e[1] \notin members}
<1>1. gone = members /\ out \cup lone = members
  OBVIOUS
<1>2. Members(t, {h}) = members
  BY DEF Members
<1>3. {e \in t.awaiting : e[1] \notin out /\ ~(e[1] \in stay /\ e[2] \in out)} = awaiting
  <2>1. ASSUME NEW e \in t.awaiting, e[1] \in stay
        PROVE  e[2] \in out
    <3>1. e[1] \in Actors /\ e[2] \in Actors /\ e = <<e[1], e[2]>>
      BY <1>t, TalkParts
    <3>w. t.current[e[2]] = t.current[e[1]] /\ <<e[2], e[1]>> \notin t.awaiting
      BY DEF Sound, Waits
    <3>m. members = {a \in Actors : t.current[a] = h}
      BY DEF Sound, Rostered
    <3>2. t.current[e[1]] = h /\ t.current[e[2]] = h /\ e[1] # e[2]
      BY <2>1, <3>1, <3>w, <3>m
    <3>3. e[2] \in members
      BY <3>1, <3>2 DEF Sound, Rostered
    <3> QED BY <2>1, <3>2, <3>3
  <2> QED BY <2>1
<1>4. Unindexed(t.byHuddle, h, gone) = Only(t.byHuddle, Others({h}))
  BY <1>1 DEF Unindexed, Sound, Rostered, Others
<1> DEFINE huddles == [t.huddles EXCEPT ![h].members = @ \ gone]
<1>5. Remnant(t, h, out, stay, lone) =
        Record(current, huddles, Only(t.byHuddle, Others({h})), t.scenes, awaiting)
  BY <1>1, <1>3, <1>4 DEF Remnant, Record
<1>6. Only(huddles, Others({h})) = Only(t.huddles, Others({h}))
  BY <1>t, TalkTypes DEF Only, Others
<1> HIDE DEF huddles, current, awaiting
<1>7. Closed(Remnant(t, h, out, stay, lone), {h}) =
        Record(current, Only(huddles, Others({h})), Only(t.byHuddle, Others({h})),
               Detached(t.scenes, {h}), awaiting)
  BY <1>5, ClosedIs
<1>8. Conclude(t, {h}) =
        Record(current, Only(t.huddles, Others({h})), Only(t.byHuddle, Others({h})),
               Detached(t.scenes, {h}), awaiting)
  BY <1>t, <1>2, ConcludeIs DEF current, awaiting
<1> QED BY <1>6, <1>7, <1>8

----------------------------------------------------------------------------
(* Leaving *)

\* What is said of the scenes depends on them and on the huddles' structures.
LEMMA FollowedFrame ==
    ASSUME NEW t, NEW u, u.scenes = t.scenes, DOMAIN u.huddles = DOMAIN t.huddles,
           \A g \in DOMAIN t.huddles : u.huddles[g].structure = t.huddles[g].structure,
           Followed(t)
    PROVE  Followed(u)
<1>1. \A c \in DOMAIN u.scenes : \A g \in u.scenes[c].huddles :
          u.huddles[g].structure = IF c \in Structures THEN c ELSE Outdoors
  BY DEF Followed
<1> QED BY <1>1 DEF Followed

\* Where a talk is held depends on the scenes, the structures and who is in it.
LEMMA PlaceFrame ==
    ASSUME NEW P, NEW t, NEW u, u.scenes = t.scenes, DOMAIN u.huddles = DOMAIN t.huddles,
           \A g \in DOMAIN t.huddles : u.huddles[g].structure = t.huddles[g].structure,
           \A a \in Actors : u.current[a] \in DOMAIN u.huddles => u.current[a] = t.current[a],
           Roofs(t), Followed(t), Present(t, P)
    PROVE  Roofs(u) /\ Followed(u) /\ Present(u, P)
<1>1. Roofs(u)
  BY DEF Roofs, At
<1>2. Followed(u)
  BY FollowedFrame
<1>3. Present(u, P)
  BY DEF Present
<1> QED BY <1>1, <1>2, <1>3

Remaining(t, h, out) == t.huddles[h].members \ out

\* Some members of h go, and more than a lone rester stay.
LEMMA RemnantSound ==
    ASSUME NEW P, NEW H, NEW t, Sound(t, P, H), NEW h \in DOMAIN t.huddles,
           NEW out \in SUBSET t.huddles[h].members,
           NEW stay, stay = Remaining(t, h, out), stay # {},
           NEW lone, lone = {}, NEW u, u = Remnant(t, h, out, stay, lone)
    PROVE  /\ Sound(u, P, H)
           /\ \A a \in Actors : u.current[a] = IF a \in out THEN NoHuddle ELSE t.current[a]
<1>t. t \in Talk BY DEF Sound
<1>h. h \in HuddleIds /\ h # NoHuddle /\ h \in DOMAIN t.byHuddle
  BY <1>t, TalkTypes DEF Sound, Rostered
<1>m. /\ t.huddles[h].members = {a \in Actors : t.current[a] = h}
      /\ t.byHuddle[h] = t.huddles[h].members
      /\ t.huddles[h].members \subseteq H
  BY DEF Sound, Rostered
<1>y. stay = t.huddles[h].members \ out
  BY DEF Remaining
<1> USE <1>y
<1>g. t.huddles[h].members \ (stay \ lone) = out
  BY <1>y
<1>1. /\ u.current = [x \in Actors |-> IF x \in out THEN NoHuddle ELSE t.current[x]]
      /\ u.huddles = [t.huddles EXCEPT ![h].members = @ \ out]
      /\ u.byHuddle = Unindexed(t.byHuddle, h, out)
      /\ u.scenes = t.scenes
      /\ u.awaiting = {e \in t.awaiting : e[1] \notin out /\ ~(e[1] \in stay /\ e[2] \in out)}
  BY <1>g DEF Remnant
<1>r. u = Record(u.current, u.huddles, u.byHuddle, u.scenes, u.awaiting)
  BY DEF Remnant, Record
<1>2. \A a \in Actors : u.current[a] = IF a \in out THEN NoHuddle ELSE t.current[a]
  BY <1>1
<1>3. u.byHuddle = [t.byHuddle EXCEPT ![h] = @ \ out]
  BY <1>1, <1>h, <1>m DEF Unindexed
<1>4. /\ DOMAIN u.huddles = DOMAIN t.huddles
      /\ \A g \in DOMAIN t.huddles \ {h} : u.huddles[g] = t.huddles[g]
      /\ u.huddles[h] = [t.huddles[h] EXCEPT !.members = stay]
  BY <1>1
<1>5. /\ u.huddles[h] \in Huddle
      /\ u.huddles[h].members = stay
      /\ u.huddles[h].structure = t.huddles[h].structure
  <2>1. t.huddles[h] \in Huddle /\ stay \in SUBSET Actors
    BY <1>t, <1>m, <1>y, TalkTypes
  <2> QED BY <1>4, <2>1 DEF Huddle
<1>6. /\ DOMAIN u.byHuddle = DOMAIN t.byHuddle
      /\ \A g \in DOMAIN t.byHuddle \ {h} : u.byHuddle[g] = t.byHuddle[g]
      /\ u.byHuddle[h] = stay
  BY <1>3, <1>h, <1>m
<1>7. u \in Talk
  <2>1. u.current \in [Actors -> HuddleIds \cup {NoHuddle}]
    <3>1. u.current = [x \in Actors |-> IF x \in out THEN NoHuddle ELSE t.current[x]]
      BY <1>1
    <3>2. t.current \in [Actors -> HuddleIds \cup {NoHuddle}]
      BY <1>t, TalkParts
    <3> QED BY <3>1, <3>2
  <2>2. u.huddles \in Maps(HuddleIds, Huddle)
    <3>1. u.huddles \in [DOMAIN t.huddles -> Huddle]
      BY <1>1, <1>4, <1>5, <1>t, TalkTypes
    <3>2. DOMAIN t.huddles \in SUBSET HuddleIds
      BY <1>t, TalkTypes
    <3> QED BY <3>1, <3>2, MapsIntro
  <2>3. u.byHuddle \in Maps(HuddleIds, Groups)
    <3>0. stay \in Groups
      BY <1>m DEF Groups
    <3>1. u.byHuddle \in [DOMAIN t.byHuddle -> Groups]
      BY <1>3, <1>6, <3>0, <1>t, TalkTypes DEF Groups
    <3>2. DOMAIN t.byHuddle \in SUBSET HuddleIds
      BY <1>t, TalkTypes
    <3> QED BY <3>1, <3>2, MapsIntro
  <2>4. u.scenes \in Maps(SceneKeys, Scene)
    BY <1>1, <1>t, TalkParts
  <2>5. u.awaiting \subseteq t.awaiting
    BY <1>1
  <2>6. u.awaiting \in SUBSET (Actors \X Actors)
    BY <2>5, <1>t, TalkParts
  <2>7. Record(u.current, u.huddles, u.byHuddle, u.scenes, u.awaiting) \in Talk
    BY <2>1, <2>2, <2>3, <2>4, <2>6, TalkIs
  <2> QED BY <1>r, <2>7
<1>8. Rostered(u, H)
  <2>1. \A a \in Actors : u.current[a] # NoHuddle => u.current[a] \in DOMAIN u.huddles
    BY <1>2, <1>4 DEF Sound, Rostered
  <2>2. DOMAIN u.byHuddle = DOMAIN u.huddles
    BY <1>4, <1>6 DEF Sound, Rostered
  <2>3. ASSUME NEW g \in DOMAIN u.huddles
        PROVE  /\ u.huddles[g].members = {a \in Actors : u.current[a] = g}
               /\ u.byHuddle[g] = u.huddles[g].members
               /\ u.huddles[g].members \subseteq H
    <3>n. g # NoHuddle
      BY <1>t, <1>4, TalkTypes
    <3>1. CASE g = h
      <4>1. {a \in Actors : u.current[a] = h} = stay
        BY <1>2, <1>m, <1>h
      <4> QED BY <3>1, <4>1, <1>5, <1>6, <1>m
    <3>2. CASE g # h
      <4>1. {a \in Actors : u.current[a] = g} = {a \in Actors : t.current[a] = g}
        BY <1>2, <1>m, <3>2, <3>n
      <4>2. g \in DOMAIN t.huddles /\ u.huddles[g] = t.huddles[g] /\ u.byHuddle[g] = t.byHuddle[g]
        BY <1>4, <1>6, <2>2, <3>2
      <4> QED BY <4>1, <4>2 DEF Sound, Rostered
    <3> QED BY <3>1, <3>2
  <2> QED BY <2>1, <2>2, <2>3 DEF Rostered
<1>9. Waits(u)
  <2>1. ASSUME NEW e \in u.awaiting
        PROVE  /\ u.current[e[1]] # NoHuddle
               /\ u.current[e[2]] = u.current[e[1]]
               /\ <<e[2], e[1]>> \notin u.awaiting
    <3>1. e \in t.awaiting /\ e[1] \notin out /\ ~(e[1] \in stay /\ e[2] \in out)
      BY <1>1
    <3>2. e[1] \in Actors /\ e[2] \in Actors
      BY <3>1, <1>t, TalkParts
    <3>3. /\ t.current[e[1]] # NoHuddle
          /\ t.current[e[2]] = t.current[e[1]]
          /\ <<e[2], e[1]>> \notin t.awaiting
      BY <3>1 DEF Sound, Waits
    <3>4. e[2] \notin out
      BY <1>m, <3>1, <3>2, <3>3
    <3> QED BY <1>1, <1>2, <3>1, <3>2, <3>3, <3>4
  <2> QED BY <2>1 DEF Waits
<1>10. \A g \in DOMAIN t.huddles : u.huddles[g].structure = t.huddles[g].structure
  BY <1>4, <1>5
<1>k. DOMAIN u.huddles = DOMAIN t.huddles
  BY <1>4
<1>s. u.scenes = t.scenes
  BY <1>1
<1>11. \A a \in Actors : u.current[a] \in DOMAIN u.huddles => u.current[a] = t.current[a]
  BY <1>t, <1>2, <1>k, TalkTypes
<1>12. Roofs(t) /\ Followed(t) /\ Present(t, P)
  BY DEF Sound
<1>13. Roofs(u) /\ Followed(u) /\ Present(u, P)
  BY <1>s, <1>k, <1>10, <1>11, <1>12, PlaceFrame
<1> QED BY <1>2, <1>7, <1>8, <1>9, <1>13 DEF Sound

\* leaveCurrentHuddleAs keeps the conversations sound, and moves no one into another.
LEMMA QuitSound ==
    ASSUME NEW P, NEW t, Sound(t, P, here), NEW h \in DOMAIN t.huddles,
           NEW out \in SUBSET t.huddles[h].members,
           NEW u, u = Quit(t, h, out)
    PROVE  /\ Sound(u, P, here)
           /\ \A a \in out : u.current[a] = NoHuddle
           /\ \A a \in Actors : u.current[a] = t.current[a] \/ u.current[a] = NoHuddle
           /\ \A a \in Actors : t.current[a] # h => u.current[a] = t.current[a]
<1>t. t \in Talk BY DEF Sound
<1>m. t.huddles[h].members = {a \in Actors : t.current[a] = h} /\ t.huddles[h].members \subseteq here
  BY DEF Sound, Rostered
<1>p. PICK stay, lone : stay = Staying(t, h, out) /\ lone = LoneResters(stay)
  OBVIOUS
<1>1. stay = t.huddles[h].members \ out
  BY <1>m, <1>p DEF Staying
<1>2. lone = {} \/ \E x \in stay : stay = {x} /\ lone = {x}
  BY <1>p, LoneIs
<1>r. PICK r : r = Remnant(t, h, out, stay, lone)
  OBVIOUS
<1>3. (stay \subseteq lone => u = Closed(r, {h})) /\ (~(stay \subseteq lone) => u = r)
  BY <1>t, <1>p, <1>r, QuitIs
<1>4. CASE stay \subseteq lone
  <2>1. lone = stay /\ (lone = {} \/ \E x \in stay : stay = {x})
    BY <1>2, <1>4
  <2>2. u = Conclude(t, {h})
    <3>1. Closed(Remnant(t, h, out, stay, lone), {h}) = Conclude(t, {h})
      BY <1>1, <2>1, QuitConcludes
    <3> QED BY <1>3, <1>4, <1>r, <3>1
  <2> DEFINE D == {h}
  <2>3. D \in SUBSET DOMAIN t.huddles /\ u = Conclude(t, D)
    BY <2>2
  <2> HIDE DEF D
  <2>4. /\ Sound(u, P, here)
        /\ \A a \in Actors : u.current[a] = IF t.current[a] \in D THEN NoHuddle ELSE t.current[a]
    BY <2>3, ConcludeSound
  <2> QED BY <1>m, <2>4 DEF D
<1>5. CASE ~(stay \subseteq lone)
  <2>1. lone = {} /\ stay # {}
    BY <1>2, <1>5
  <2>2. u = Remnant(t, h, out, stay, lone)
    BY <1>3, <1>5, <1>r, <2>1
  <2>s. stay = Remaining(t, h, out)
    BY <1>1 DEF Remaining
  <2>3. /\ Sound(u, P, here)
        /\ \A a \in Actors : u.current[a] = IF a \in out THEN NoHuddle ELSE t.current[a]
    BY <2>1, <2>2, <2>s, RemnantSound
  <2> QED BY <1>m, <2>3
<1> QED BY <1>4, <1>5

\* An actor in no huddle waits for no one, so leaving changes nothing.
LEMMA LeaveNothing ==
    ASSUME NEW P, NEW t, Sound(t, P, here), NEW a \in Actors, ~InTalk(t, a)
    PROVE  Leave(t, a) = t /\ t.current[a] = NoHuddle
<1>t. t \in Talk BY DEF Sound
<1>1. t.current[a] = NoHuddle
  BY DEF InTalk, Sound, Rostered
<1> DEFINE current == [t.current EXCEPT ![a] = NoHuddle]
           awaiting == {e \in t.awaiting : e[1] # a}
<1>2. PICK u : u = [t EXCEPT !.current = current, !.awaiting = awaiting]
  OBVIOUS
<1>3. Leave(t, a) = u
  BY <1>2 DEF Leave
<1>4. current = t.current
  BY <1>t, <1>1, TalkParts
<1>5. awaiting = t.awaiting
  <2>1. \A e \in t.awaiting : e[1] # a
    BY <1>1 DEF Sound, Waits
  <2> QED BY <2>1
<1> HIDE DEF current, awaiting
<1>6. u = t
  BY <1>t, <1>2, <1>4, <1>5 DEF Talk
<1> QED BY <1>1, <1>3, <1>6

LEMMA LeaveSound ==
    ASSUME NEW P, NEW t, Sound(t, P, here), NEW a \in Actors,
           NEW u, u = Leave(t, a)
    PROVE  /\ Sound(u, P, here)
           /\ u.current[a] = NoHuddle
           /\ \A x \in Actors : u.current[x] = t.current[x] \/ u.current[x] = NoHuddle
<1>1. CASE InTalk(t, a)
  <2> DEFINE h == t.current[a]
             out == {a}
  <2>1. h \in DOMAIN t.huddles
    BY <1>1 DEF InTalk
  <2>2. out \in SUBSET t.huddles[h].members
    BY <2>1 DEF Sound, Rostered
  <2>3. u = Quit(t, h, out)
    BY <1>1 DEF Leave
  <2> HIDE DEF h, out
  <2>4. /\ Sound(u, P, here)
        /\ \A x \in out : u.current[x] = NoHuddle
        /\ \A x \in Actors : u.current[x] = t.current[x] \/ u.current[x] = NoHuddle
    BY <2>1, <2>2, <2>3, QuitSound
  <2> QED BY <2>4 DEF out
<1>2. CASE ~InTalk(t, a)
  BY <1>2, LeaveNothing
<1> QED BY <1>1, <1>2

----------------------------------------------------------------------------
(* Sitting down *)

Joined(index, h, S) == S \cup IF h \in DOMAIN index THEN index[h] ELSE {}

LEMMA SeatedIs ==
    ASSUME NEW t, t = Record(t.current, t.huddles, t.byHuddle, t.scenes, t.awaiting),
           NEW h, NEW S
    PROVE  Seated(t, h, S) =
             Record([x \in Actors |-> IF x \in S THEN h ELSE t.current[x]],
                    [t.huddles EXCEPT ![h] = Grown(@, S)],
                    Put(t.byHuddle, h, Joined(t.byHuddle, h, S)), t.scenes, t.awaiting)
<1> DEFINE current == [x \in Actors |-> IF x \in S THEN h ELSE t.current[x]]
           huddle == Grown(t.huddles[h], S)
           index == Put(t.byHuddle, h, Joined(t.byHuddle, h, S))
<1>1. PICK u : u = [t EXCEPT !.huddles[h] = huddle, !.current = current, !.byHuddle = index]
  OBVIOUS
<1>2. Seated(t, h, S) = u
  BY <1>1 DEF Seated, Joined
<1> HIDE DEF current, huddle, index
<1>3. u = Record(current, [t.huddles EXCEPT ![h] = huddle], index, t.scenes, t.awaiting)
  BY <1>1 DEF Record
<1> QED BY <1>2, <1>3 DEF current, huddle, index

\* Actors in no huddle join one where they stand.
LEMMA SeatedSound ==
    ASSUME NEW P, NEW H, NEW t, Sound(t, P, H), NEW h \in DOMAIN t.huddles,
           NEW S \in SUBSET Actors, S \subseteq H,
           \A a \in S : t.current[a] = NoHuddle,
           t.huddles[h].structure \in Structures,
           \A a \in S : P[a].at = t.huddles[h].structure,
           NEW u, u = Seated(t, h, S)
    PROVE  /\ Sound(u, P, H)
           /\ \A a \in Actors : u.current[a] = IF a \in S THEN h ELSE t.current[a]
           /\ \A s : At(u, s) = At(t, s)
<1>t. t \in Talk BY DEF Sound
<1>h. h \in HuddleIds /\ h # NoHuddle /\ h \in DOMAIN t.byHuddle
  BY <1>t, TalkTypes DEF Sound, Rostered
<1>m. /\ t.huddles[h].members = {a \in Actors : t.current[a] = h}
      /\ t.byHuddle[h] = t.huddles[h].members
      /\ t.huddles[h].members \subseteq H
  BY DEF Sound, Rostered
<1>i. t.byHuddle \in Maps(HuddleIds, Groups) /\ t.byHuddle[h] \in Groups
  BY <1>t, <1>h, TalkParts, TalkTypes DEF Groups
<1> DEFINE group == Joined(t.byHuddle, h, S)
<1>g. group \in Groups /\ group = t.huddles[h].members \cup S
  BY <1>h, <1>i, <1>m DEF Joined, Groups
<1> HIDE DEF group
<1>r. u = Record([x \in Actors |-> IF x \in S THEN h ELSE t.current[x]],
                 [t.huddles EXCEPT ![h] = Grown(@, S)],
                 Put(t.byHuddle, h, group), t.scenes, t.awaiting)
  <2>1. t = Record(t.current, t.huddles, t.byHuddle, t.scenes, t.awaiting)
    BY <1>t DEF Talk, Record
  <2> QED BY <2>1, SeatedIs DEF group
<1>c. u.current = [x \in Actors |-> IF x \in S THEN h ELSE t.current[x]]
  BY <1>r DEF Record
<1>u. u.huddles = [t.huddles EXCEPT ![h] = Grown(t.huddles[h], S)]
  BY <1>r DEF Record
<1>x. u.byHuddle = Put(t.byHuddle, h, group)
  BY <1>r DEF Record
<1>s. u.scenes = t.scenes /\ u.awaiting = t.awaiting
  BY <1>r DEF Record
<1>2. \A a \in Actors : u.current[a] = IF a \in S THEN h ELSE t.current[a]
  BY <1>c
<1>4. /\ DOMAIN u.huddles = DOMAIN t.huddles
      /\ \A g \in DOMAIN t.huddles \ {h} : u.huddles[g] = t.huddles[g]
      /\ u.huddles[h] = Grown(t.huddles[h], S)
  BY <1>u
<1>5. /\ u.huddles[h] \in Huddle
      /\ u.huddles[h].members = t.huddles[h].members \cup S
      /\ u.huddles[h].structure = t.huddles[h].structure
  <2>1. t.huddles[h] \in Huddle
    BY <1>t, TalkTypes
  <2> QED BY <1>4, <2>1 DEF Huddle, Grown
<1>6. /\ DOMAIN u.byHuddle = DOMAIN t.byHuddle
      /\ \A g \in DOMAIN t.byHuddle \ {h} : u.byHuddle[g] = t.byHuddle[g]
      /\ u.byHuddle[h] = group
      /\ u.byHuddle \in Maps(HuddleIds, Groups)
  <2>1. DOMAIN t.byHuddle \cup {h} = DOMAIN t.byHuddle
    BY <1>h
  <2>2. h \in HuddleIds /\ group \in Groups /\ t.byHuddle \in Maps(HuddleIds, Groups)
    BY <1>h, <1>i, <1>g
  <2>3. /\ u.byHuddle \in Maps(HuddleIds, Groups)
        /\ \A g : g \in DOMAIN u.byHuddle <=> g \in DOMAIN t.byHuddle \/ g = h
        /\ u.byHuddle[h] = group
        /\ \A g \in DOMAIN t.byHuddle : g # h => u.byHuddle[g] = t.byHuddle[g]
    BY <1>x, <2>2, PutMap
  <2> QED BY <2>1, <2>3, <1>h
<1>7. u \in Talk
  <2>1. u.current \in [Actors -> HuddleIds \cup {NoHuddle}]
    <3>1. t.current \in [Actors -> HuddleIds \cup {NoHuddle}]
      BY <1>t, TalkParts
    <3> QED BY <1>c, <1>h, <3>1
  <2>2. u.huddles \in Maps(HuddleIds, Huddle)
    <3>1. u.huddles \in [DOMAIN t.huddles -> Huddle]
      BY <1>u, <1>4, <1>5, <1>t, TalkTypes
    <3>2. DOMAIN t.huddles \in SUBSET HuddleIds
      BY <1>t, TalkTypes
    <3> QED BY <3>1, <3>2, MapsIntro
  <2>4. u.scenes \in Maps(SceneKeys, Scene) /\ u.awaiting \in SUBSET (Actors \X Actors)
    BY <1>s, <1>t, TalkParts
  <2>5. Record(u.current, u.huddles, u.byHuddle, u.scenes, u.awaiting) \in Talk
    BY <1>6, <2>1, <2>2, <2>4, TalkIs
  <2>6. u = Record(u.current, u.huddles, u.byHuddle, u.scenes, u.awaiting)
    BY <1>r DEF Record
  <2> QED BY <2>5, <2>6
<1>8. Rostered(u, H)
  <2>1. \A a \in Actors : u.current[a] # NoHuddle => u.current[a] \in DOMAIN u.huddles
    BY <1>2, <1>4 DEF Sound, Rostered
  <2>2. DOMAIN u.byHuddle = DOMAIN u.huddles
    BY <1>4, <1>6 DEF Sound, Rostered
  <2>3. ASSUME NEW g \in DOMAIN u.huddles
        PROVE  /\ u.huddles[g].members = {a \in Actors : u.current[a] = g}
               /\ u.byHuddle[g] = u.huddles[g].members
               /\ u.huddles[g].members \subseteq H
    <3>n. g # NoHuddle
      BY <1>t, <1>4, TalkTypes
    <3>1. CASE g = h
      <4>1. {a \in Actors : u.current[a] = h} = t.huddles[h].members \cup S
        BY <1>2, <1>m
      <4> QED BY <3>1, <4>1, <1>5, <1>6, <1>g, <1>m
    <3>2. CASE g # h
      <4>1. {a \in Actors : u.current[a] = g} = {a \in Actors : t.current[a] = g}
        BY <1>2, <3>2, <3>n
      <4>2. g \in DOMAIN t.huddles /\ u.huddles[g] = t.huddles[g] /\ u.byHuddle[g] = t.byHuddle[g]
        BY <1>4, <1>6, <2>2, <3>2
      <4> QED BY <4>1, <4>2 DEF Sound, Rostered
    <3> QED BY <3>1, <3>2
  <2> QED BY <2>1, <2>2, <2>3 DEF Rostered
<1>9. Waits(u)
  <2>1. ASSUME NEW e \in t.awaiting
        PROVE  /\ u.current[e[1]] # NoHuddle
               /\ u.current[e[2]] = u.current[e[1]]
               /\ <<e[2], e[1]>> \notin t.awaiting
    <3>2. e[1] \in Actors /\ e[2] \in Actors
      BY <1>t, TalkParts
    <3>3. /\ t.current[e[1]] # NoHuddle
          /\ t.current[e[2]] = t.current[e[1]]
          /\ <<e[2], e[1]>> \notin t.awaiting
      BY DEF Sound, Waits
    <3> QED BY <1>2, <3>2, <3>3
  <2> QED BY <1>s, <2>1 DEF Waits
<1>10. \A g \in DOMAIN t.huddles : u.huddles[g].structure = t.huddles[g].structure
  BY <1>4, <1>5
<1>11. \A s : At(u, s) = At(t, s)
  <2>1. DOMAIN u.huddles = DOMAIN t.huddles
    BY <1>4
  <2> QED BY <1>10, <2>1 DEF At
<1>12. Roofs(u) /\ Followed(u)
  <2>1. DOMAIN u.huddles = DOMAIN t.huddles
    BY <1>4
  <2>2. Roofs(t) /\ Followed(t)
    BY DEF Sound
  <2>3. Roofs(u)
    BY <1>11, <2>2 DEF Roofs
  <2>4. Followed(u)
    BY <1>s, <1>10, <2>1, <2>2, FollowedFrame
  <2> QED BY <2>3, <2>4
<1>13. Present(u, P)
  <2>1. ASSUME NEW a \in Actors, u.current[a] \in DOMAIN u.huddles
        PROVE  LET g == u.current[a]
                   s == u.huddles[g].structure
               IN IF s # Outdoors THEN P[a].at = s
                  ELSE \A c \in DOMAIN u.scenes : g \in u.scenes[c].huddles => u.scenes[c].bound = P[a]
    <3>1. CASE a \in S
      BY <1>2, <1>5, <3>1
    <3>2. CASE a \notin S
      <4>1. u.current[a] = t.current[a] /\ t.current[a] \in DOMAIN t.huddles
        BY <1>2, <1>4, <2>1, <3>2
      <4> QED BY <1>s, <1>10, <4>1 DEF Sound, Present
    <3> QED BY <3>1, <3>2
  <2> QED BY <2>1 DEF Present
<1> QED BY <1>2, <1>7, <1>8, <1>9, <1>11, <1>12, <1>13 DEF Sound

\* A structure's talk is already in the structure's scene.
LEMMA WatchedNothing ==
    ASSUME NEW P, NEW H, NEW t, Sound(t, P, H), NEW s \in Structures, NEW h \in At(t, s)
    PROVE  Watched(t, h, s) = t
<1>t. t \in Talk BY DEF Sound
<1>1. s \in DOMAIN t.scenes /\ h \in t.scenes[s].huddles /\ t.scenes[s].bound = s
  <2>1. h \in DOMAIN t.huddles /\ t.huddles[h].structure = s /\ s # Outdoors
    BY DEF At
  <2>2. PICK c \in DOMAIN t.scenes : h \in t.scenes[c].huddles
    BY <2>1 DEF Sound, Followed
  <2>3. t.huddles[h].structure = IF c \in Structures THEN c ELSE Outdoors
    BY <2>2 DEF Sound, Followed
  <2>4. c = s
    BY <2>1, <2>3
  <2> QED BY <2>2, <2>4 DEF Sound, Followed
<1> DEFINE scene == [bound |-> s, huddles |-> {h} \cup IF s \in DOMAIN t.scenes
                                                      THEN t.scenes[s].huddles ELSE {}]
           scenes == Put(t.scenes, s, scene)
<1>2. scene = t.scenes[s]
  <2>1. t.scenes[s] \in Scene
    BY <1>1, <1>t, TalkTypes
  <2>2. {h} \cup t.scenes[s].huddles = t.scenes[s].huddles
    BY <1>1
  <2> QED BY <1>1, <2>1, <2>2 DEF Scene
<1>3. scenes = t.scenes
  <2>1. t.scenes \in [DOMAIN t.scenes -> Scene]
    BY <1>t, TalkParts, MapsElim
  <2> HIDE DEF scene
  <2> QED BY <1>1, <1>2, <2>1 DEF Put
<1>4. PICK u : u = [t EXCEPT !.scenes = scenes]
  OBVIOUS
<1>5. Watched(t, h, s) = u
  BY <1>4 DEF Watched
<1> HIDE DEF scenes
<1>6. u = t
  BY <1>t, <1>3, <1>4 DEF Talk
<1> QED BY <1>5, <1>6

----------------------------------------------------------------------------
(* A new huddle *)

Unused(t, h) ==
    /\ h \notin DOMAIN t.huddles \cup DOMAIN t.byHuddle
    /\ \A a \in Actors : t.current[a] # h
    /\ \A c \in DOMAIN t.scenes : c # h /\ h \notin t.scenes[c].huddles

\* While two actors are in no huddle, an id is free: the others fill all but one at most.
LEMMA FreshFree ==
    ASSUME NEW P, NEW H, NEW t, Sound(t, P, H),
           NEW a \in Actors, NEW b \in Actors, a # b,
           t.current[a] = NoHuddle, t.current[b] = NoHuddle
    PROVE  Fresh(t) \in HuddleIds /\ Unused(t, Fresh(t))
<1>t. t \in Talk BY DEF Sound
<1>m. \A h \in DOMAIN t.huddles :
         /\ h # NoHuddle
         /\ t.huddles[h].members # {}
         /\ t.huddles[h].members = {x \in Actors : t.current[x] = h}
  <2>1. ASSUME NEW h \in DOMAIN t.huddles
        PROVE  h # NoHuddle /\ t.huddles[h].members # {}
    <3>1. h \in DOMAIN t.byHuddle /\ t.byHuddle[h] = t.huddles[h].members
      BY DEF Sound, Rostered
    <3> QED BY <1>t, <3>1, TalkTypes
  <2> QED BY <2>1 DEF Sound, Rostered
<1>1. DOMAIN t.huddles # HuddleIds
  <2> SUFFICES ASSUME DOMAIN t.huddles = HuddleIds PROVE FALSE
    OBVIOUS
  <2> DEFINE T == (Actors \ {a}) \ {b}
             f == [h \in HuddleIds |-> CHOOSE x \in t.huddles[h].members : TRUE]
  <2>1. \A h \in HuddleIds : f[h] \in Actors /\ t.current[f[h]] = h /\ h # NoHuddle
    BY <1>m
  <2>2. f \in [HuddleIds -> T]
    BY <2>1
  <2>3. IsFiniteSet(T) /\ Cardinality(T) = Cardinality(Actors) - 2 /\ Cardinality(Actors) \in Nat
    <3>1. /\ IsFiniteSet(Actors \ {a})
          /\ Cardinality(Actors \ {a}) = Cardinality(Actors) - 1
      BY FS_RemoveElement, PeopleAssumption
    <3>2. b \in Actors \ {a}
      OBVIOUS
    <3>3. /\ IsFiniteSet(T)
          /\ Cardinality(T) = Cardinality(Actors \ {a}) - 1
      BY <3>1, <3>2, FS_RemoveElement
    <3> QED BY <3>1, <3>3, FS_CardinalityType, PeopleAssumption
  <2>4. IsFiniteSet(HuddleIds) /\ Cardinality(T) < Cardinality(HuddleIds)
    BY <2>3, IdsAssumption, FS_CardinalityType
  <2> HIDE DEF f, T
  <2>5. \E x, y \in HuddleIds : x # y /\ f[x] = f[y]
    BY <2>2, <2>3, <2>4, FS_PigeonHole
  <2> QED BY <2>1, <2>5
<1>2. PICK h \in HuddleIds : h \notin DOMAIN t.huddles
  BY <1>1, <1>t, TalkTypes
<1>3. Unused(t, h)
  <2>1. h \notin DOMAIN t.byHuddle /\ h # NoHuddle /\ h \notin Structures
    BY <1>2 DEF Sound, Rostered
  <2>2. \A x \in Actors : t.current[x] # h
    BY <1>2, <2>1 DEF Sound, Rostered
  <2>3. ASSUME NEW c \in DOMAIN t.scenes
        PROVE  c # h /\ h \notin t.scenes[c].huddles
    <3>1. t.scenes[c].huddles \subseteq DOMAIN t.huddles
      BY DEF Sound, Followed
    <3>2. c \notin Structures => c \in t.scenes[c].huddles
      BY DEF Sound, Followed
    <3> QED BY <1>2, <2>1, <3>1, <3>2
  <2> QED BY <1>2, <2>1, <2>2, <2>3 DEF Unused
<1> QED BY <1>2, <1>3 DEF Fresh, Unused

NewTalk(s, S) == [structure |-> s, members |-> S, quiet |-> FALSE]

\* t with the huddle h of S at s, observed by the scene of key k.
Formed(t, h, s, S, k, scene) ==
    Record([x \in Actors |-> IF x \in S THEN h ELSE t.current[x]],
           Put(t.huddles, h, NewTalk(s, S)), Put(t.byHuddle, h, S),
           Put(t.scenes, k, scene), t.awaiting)

LEMMA FormedSound ==
    ASSUME NEW P, NEW H, NEW t, Sound(t, P, H),
           NEW h \in HuddleIds, Unused(t, h),
           NEW S \in Groups, S \subseteq H, \A a \in S : t.current[a] = NoHuddle,
           NEW s, NEW k \in SceneKeys, NEW scene \in Scene,
           scene.huddles = {h}, k \in DOMAIN t.scenes => t.scenes[k].huddles = {},
           IF k \in Structures THEN s = k /\ scene.bound = k /\ At(t, s) = {}
                               ELSE s = Outdoors /\ k = h /\ scene.bound \in Places,
           \A a \in S : IF s # Outdoors THEN P[a].at = s ELSE scene.bound = P[a],
           NEW u, u = Formed(t, h, s, S, k, scene)
    PROVE  /\ Sound(u, P, H)
           /\ \A a \in Actors : u.current[a] = IF a \in S THEN h ELSE t.current[a]
           /\ h \in At(u, s)
<1>t. t \in Talk BY DEF Sound
<1>f. /\ h \notin DOMAIN t.huddles /\ h \notin DOMAIN t.byHuddle /\ h # NoHuddle
      /\ \A a \in Actors : t.current[a] # h
      /\ \A c \in DOMAIN t.scenes : c # h /\ h \notin t.scenes[c].huddles
  BY DEF Unused
<1>S. S \subseteq Actors /\ S # {}
  BY DEF Groups
<1>s. s \in Structures \cup {Outdoors} /\ (s # Outdoors => k = s) /\ (s = Outdoors => k = h)
  OBVIOUS
<1>n. /\ NewTalk(s, S) \in Huddle
      /\ NewTalk(s, S).structure = s
      /\ NewTalk(s, S).members = S
  BY <1>S, <1>s DEF NewTalk, Huddle
<1>c. \A a \in Actors : u.current[a] = IF a \in S THEN h ELSE t.current[a]
  BY DEF Formed, Record
<1>u. /\ u.huddles \in Maps(HuddleIds, Huddle)
      /\ \A g : g \in DOMAIN u.huddles <=> g \in DOMAIN t.huddles \/ g = h
      /\ u.huddles[h] = NewTalk(s, S)
      /\ \A g \in DOMAIN t.huddles : g # h => u.huddles[g] = t.huddles[g]
  <2>1. u.huddles = Put(t.huddles, h, NewTalk(s, S))
    BY DEF Formed, Record
  <2>2. t.huddles \in Maps(HuddleIds, Huddle)
    BY <1>t, TalkParts
  <2> QED BY <1>n, <2>1, <2>2, PutMap
<1>x. /\ u.byHuddle \in Maps(HuddleIds, Groups)
      /\ \A g : g \in DOMAIN u.byHuddle <=> g \in DOMAIN t.byHuddle \/ g = h
      /\ u.byHuddle[h] = S
      /\ \A g \in DOMAIN t.byHuddle : g # h => u.byHuddle[g] = t.byHuddle[g]
  <2>1. u.byHuddle = Put(t.byHuddle, h, S)
    BY DEF Formed, Record
  <2>2. t.byHuddle \in Maps(HuddleIds, Groups)
    BY <1>t, TalkParts
  <2> QED BY <2>1, <2>2, PutMap
<1>e. /\ u.scenes \in Maps(SceneKeys, Scene)
      /\ \A c : c \in DOMAIN u.scenes <=> c \in DOMAIN t.scenes \/ c = k
      /\ u.scenes[k] = scene
      /\ \A c \in DOMAIN t.scenes : c # k => u.scenes[c] = t.scenes[c]
  <2>1. u.scenes = Put(t.scenes, k, scene)
    BY DEF Formed, Record
  <2>2. t.scenes \in Maps(SceneKeys, Scene)
    BY <1>t, TalkParts
  <2> QED BY <2>1, <2>2, PutMap
<1>a. u.awaiting = t.awaiting
  BY DEF Formed, Record
<1>7. u \in Talk
  <2>1. u.current \in [Actors -> HuddleIds \cup {NoHuddle}]
    <3>1. t.current \in [Actors -> HuddleIds \cup {NoHuddle}]
      BY <1>t, TalkParts
    <3>2. u.current = [x \in Actors |-> IF x \in S THEN h ELSE t.current[x]]
      BY DEF Formed, Record
    <3> QED BY <3>1, <3>2
  <2>2. u.awaiting \in SUBSET (Actors \X Actors)
    BY <1>a, <1>t, TalkParts
  <2>3. Record(u.current, u.huddles, u.byHuddle, u.scenes, u.awaiting) \in Talk
    BY <1>u, <1>x, <1>e, <2>1, <2>2, TalkIs
  <2>4. u = Record(u.current, u.huddles, u.byHuddle, u.scenes, u.awaiting)
    BY DEF Formed, Record
  <2> QED BY <2>3, <2>4
<1>8. Rostered(u, H)
  <2>r. Rostered(t, H)
    BY DEF Sound
  <2>1. \A a \in Actors : u.current[a] # NoHuddle => u.current[a] \in DOMAIN u.huddles
    BY <1>c, <1>u, <2>r DEF Rostered
  <2>2. DOMAIN u.byHuddle = DOMAIN u.huddles
    <3>1. \A g : g \in DOMAIN u.byHuddle <=> g \in DOMAIN u.huddles
      BY <1>u, <1>x, <2>r DEF Rostered
    <3> QED BY <3>1
  <2>3. ASSUME NEW g \in DOMAIN u.huddles
        PROVE  /\ u.huddles[g].members = {a \in Actors : u.current[a] = g}
               /\ u.byHuddle[g] = u.huddles[g].members
               /\ u.huddles[g].members \subseteq H
    <3>1. CASE g = h
      <4>1. {a \in Actors : u.current[a] = h} = S
        BY <1>c, <1>f, <1>S
      <4> QED BY <3>1, <4>1, <1>u, <1>x, <1>n
    <3>2. CASE g # h
      <4>0. g \in DOMAIN t.huddles /\ g \in DOMAIN t.byHuddle
        BY <1>u, <3>2, <2>r DEF Rostered
      <4>n. g # NoHuddle
        BY <4>0, <1>t, TalkTypes
      <4>1. {a \in Actors : u.current[a] = g} = {a \in Actors : t.current[a] = g}
        BY <1>c, <3>2, <4>n
      <4>2. u.huddles[g] = t.huddles[g] /\ u.byHuddle[g] = t.byHuddle[g]
        BY <1>u, <1>x, <4>0, <3>2
      <4> QED BY <4>0, <4>1, <4>2, <2>r DEF Rostered
    <3> QED BY <3>1, <3>2
  <2> QED BY <2>1, <2>2, <2>3 DEF Rostered
<1>9. Waits(u)
  <2>1. ASSUME NEW e \in t.awaiting
        PROVE  /\ u.current[e[1]] # NoHuddle
               /\ u.current[e[2]] = u.current[e[1]]
               /\ <<e[2], e[1]>> \notin t.awaiting
    <3>2. e[1] \in Actors /\ e[2] \in Actors
      BY <1>t, TalkParts
    <3>3. /\ t.current[e[1]] # NoHuddle
          /\ t.current[e[2]] = t.current[e[1]]
          /\ <<e[2], e[1]>> \notin t.awaiting
      BY DEF Sound, Waits
    <3> QED BY <1>c, <3>2, <3>3
  <2> QED BY <1>a, <2>1 DEF Waits
<1>10. At(u, s) = At(t, s) \cup {h} /\ \A r : r # s => At(u, r) = At(t, r)
  <2>1. \A r, g : g \in At(u, r) <=> g \in At(t, r) \/ (g = h /\ r = s)
    BY <1>u, <1>n, <1>f DEF At
  <2>2. At(u, s) = At(t, s) \cup {h}
    BY <2>1
  <2>3. ASSUME NEW r, r # s PROVE At(u, r) = At(t, r)
    <3>1. \A g : g \in At(u, r) <=> g \in At(t, r)
      BY <2>1, <2>3
    <3> QED BY <3>1
  <2> QED BY <2>2, <2>3
<1>11. Roofs(u)
  <2>1. Roofs(t)
    BY DEF Sound
  <2> QED BY <1>10, <1>s, <2>1 DEF Roofs
<1>12. Followed(u)
  <2>f. Followed(t)
    BY DEF Sound
  <2>1. \A c \in DOMAIN u.scenes : u.scenes[c].huddles \subseteq DOMAIN u.huddles
    BY <1>u, <1>e, <2>f DEF Followed
  <2>2. \A c \in DOMAIN u.scenes : u.scenes[c].bound \in Places => u.scenes[c].huddles = {c}
    BY <1>e, <1>s, <2>f DEF Followed
  <2>3. ASSUME NEW g \in DOMAIN u.huddles
        PROVE  \E c \in DOMAIN u.scenes : g \in u.scenes[c].huddles
    <3>1. CASE g = h
      BY <3>1, <1>e
    <3>2. CASE g # h
      <4>1. g \in DOMAIN t.huddles
        BY <1>u, <3>2
      <4>2. PICK c \in DOMAIN t.scenes : g \in t.scenes[c].huddles
        BY <4>1, <2>f DEF Followed
      <4> QED BY <4>2, <1>e
    <3> QED BY <3>1, <3>2
  <2>4. ASSUME NEW c \in DOMAIN u.scenes, NEW g \in u.scenes[c].huddles
        PROVE  u.huddles[g].structure = IF c \in Structures THEN c ELSE Outdoors
    <3>1. CASE c = k
      <4>1. g = h
        BY <3>1, <1>e
      <4> QED BY <3>1, <4>1, <1>u, <1>n, <1>s
    <3>2. CASE c # k
      <4>1. c \in DOMAIN t.scenes /\ g \in t.scenes[c].huddles
        BY <3>2, <1>e
      <4>2. g \in DOMAIN t.huddles /\ g # h
        BY <4>1, <1>f, <2>f DEF Followed
      <4> QED BY <4>1, <4>2, <1>u, <2>f DEF Followed
    <3> QED BY <3>1, <3>2
  <2>5. \A c \in DOMAIN u.scenes : IF c \in Structures THEN u.scenes[c].bound = c
                                   ELSE u.scenes[c].bound \in Places
    BY <1>e, <2>f DEF Followed
  <2> QED BY <2>1, <2>2, <2>3, <2>4, <2>5 DEF Followed
<1>13. Present(u, P)
  <2>1. ASSUME NEW a \in Actors, u.current[a] \in DOMAIN u.huddles
        PROVE  LET g == u.current[a]
                   r == u.huddles[g].structure
               IN IF r # Outdoors THEN P[a].at = r
                  ELSE \A c \in DOMAIN u.scenes : g \in u.scenes[c].huddles => u.scenes[c].bound = P[a]
    <3>1. CASE a \in S
      <4>1. u.current[a] = h /\ u.huddles[h].structure = s
        BY <3>1, <1>c, <1>u, <1>n
      <4>2. \A c \in DOMAIN u.scenes : h \in u.scenes[c].huddles => c = k
        BY <1>e, <1>f
      <4> QED BY <3>1, <4>1, <4>2, <1>e
    <3>2. CASE a \notin S
      <4>1. u.current[a] = t.current[a] /\ t.current[a] # h /\ t.current[a] \in DOMAIN t.huddles
        BY <1>c, <1>f, <1>u, <2>1, <3>2
      <4>2. u.huddles[t.current[a]] = t.huddles[t.current[a]]
        BY <4>1, <1>u
      <4>3. \A c \in DOMAIN u.scenes : t.current[a] \in u.scenes[c].huddles =>
               c \in DOMAIN t.scenes /\ u.scenes[c] = t.scenes[c]
        BY <4>1, <1>e
      <4> QED BY <4>1, <4>2, <4>3 DEF Sound, Present
    <3> QED BY <3>1, <3>2
  <2> QED BY <2>1 DEF Present
<1>14. h \in At(u, s)
  BY <1>10
<1> QED BY <1>c, <1>7, <1>8, <1>9, <1>11, <1>12, <1>13, <1>14 DEF Sound

\* To mint a huddle and to seat S in it is to form it with S.
LEMMA SeatedMinted ==
    ASSUME NEW t \in Talk, NEW h, Unused(t, h), NEW s, NEW S, NEW scenes,
           NEW v, v = Record(t.current, Put(t.huddles, h, NewTalk(s, {})), t.byHuddle,
                             scenes, t.awaiting)
    PROVE  Seated(v, h, S) =
             Record([x \in Actors |-> IF x \in S THEN h ELSE t.current[x]],
                    Put(t.huddles, h, NewTalk(s, S)), Put(t.byHuddle, h, S),
                    scenes, t.awaiting)
<1>1. /\ v.current = t.current /\ v.byHuddle = t.byHuddle
      /\ v.scenes = scenes /\ v.awaiting = t.awaiting
      /\ v.huddles = Put(t.huddles, h, NewTalk(s, {}))
      /\ v = Record(v.current, v.huddles, v.byHuddle, v.scenes, v.awaiting)
  BY DEF Record
<1>2. Seated(v, h, S) =
        Record([x \in Actors |-> IF x \in S THEN h ELSE v.current[x]],
               [v.huddles EXCEPT ![h] = Grown(@, S)],
               Put(v.byHuddle, h, Joined(v.byHuddle, h, S)), v.scenes, v.awaiting)
  BY <1>1, SeatedIs
<1>3. Joined(t.byHuddle, h, S) = S
  BY DEF Joined, Unused
<1>4. [Put(t.huddles, h, NewTalk(s, {})) EXCEPT ![h] = Grown(@, S)]
        = Put(t.huddles, h, NewTalk(s, S))
  <2>1. Put(t.huddles, h, NewTalk(s, {}))[h] = NewTalk(s, {})
    BY DEF Put
  <2>2. Grown(NewTalk(s, {}), S) = NewTalk(s, S)
    <3>1. PICK r, no : r = NewTalk(s, {}) /\ no = FALSE
      OBVIOUS
    <3>2. r.members \cup S = S
      BY <3>1 DEF NewTalk
    <3>3. Grown(r, S) = [r EXCEPT !.members = S, !.quiet = no]
      BY <3>1, <3>2 DEF Grown
    <3>4. r = [structure |-> s, members |-> {}, quiet |-> no]
      BY <3>1 DEF NewTalk
    <3>5. PICK w : w = [r EXCEPT !.members = S, !.quiet = no]
      OBVIOUS
    <3>6. w = [structure |-> s, members |-> S, quiet |-> no]
      BY <3>4, <3>5
    <3> QED BY <3>1, <3>3, <3>5, <3>6 DEF NewTalk
  <2> DEFINE r == NewTalk(s, {})
             r2 == NewTalk(s, S)
             f == Put(t.huddles, h, r)
  <2>3. [f EXCEPT ![h] = Grown(f[h], S)] = [f EXCEPT ![h] = r2]
    BY <2>1, <2>2
  <2> HIDE DEF r, r2
  <2>4. [f EXCEPT ![h] = r2] = Put(t.huddles, h, r2)
    BY DEF Put
  <2> QED BY <2>3, <2>4 DEF r, r2
<1> QED BY <1>1, <1>2, <1>3, <1>4

SceneOf(b, h) == [bound |-> b, huddles |-> {h}]

LEMMA MintedIs ==
    ASSUME NEW t \in Talk, NEW h, NEW s
    PROVE  Minted(t, h, s) = Record(t.current, Put(t.huddles, h, NewTalk(s, {})), t.byHuddle,
                                    t.scenes, t.awaiting)
<1> DEFINE huddles == Put(t.huddles, h, NewTalk(s, {}))
<1>1. PICK u : u = [t EXCEPT !.huddles = huddles]
  OBVIOUS
<1>2. Minted(t, h, s) = u
  BY <1>1 DEF Minted, NewTalk
<1> HIDE DEF huddles
<1>3. u = Record(t.current, huddles, t.byHuddle, t.scenes, t.awaiting)
  BY <1>1 DEF Talk, Record
<1> QED BY <1>2, <1>3 DEF huddles

\* A new talk under a roof, in the roof's scene.
LEMMA IndoorsFormed ==
    ASSUME NEW t \in Talk, NEW h, Unused(t, h), NEW s, NEW S,
           s \in DOMAIN t.scenes => t.scenes[s].huddles = {}
    PROVE  Watched(Seated(Minted(t, h, s), h, S), h, s) = Formed(t, h, s, S, s, SceneOf(s, h))
<1> DEFINE current == [x \in Actors |-> IF x \in S THEN h ELSE t.current[x]]
           huddles == Put(t.huddles, h, NewTalk(s, S))
           index == Put(t.byHuddle, h, S)
           scenes == Put(t.scenes, s, SceneOf(s, h))
<1>1. Seated(Minted(t, h, s), h, S) = Record(current, huddles, index, t.scenes, t.awaiting)
  BY MintedIs, SeatedMinted
<1>2. PICK w : w = Record(current, huddles, index, t.scenes, t.awaiting)
  OBVIOUS
<1> HIDE DEF current, huddles, index
<1>3. w.scenes = t.scenes
  BY <1>2 DEF Record
<1>4. [bound |-> s, huddles |-> {h} \cup IF s \in DOMAIN w.scenes THEN w.scenes[s].huddles ELSE {}]
        = SceneOf(s, h)
  BY <1>3 DEF SceneOf
<1>5. Watched(w, h, s) = [w EXCEPT !.scenes = scenes]
  BY <1>3, <1>4 DEF Watched
<1> HIDE DEF scenes
<1>6. Watched(w, h, s) = Record(current, huddles, index, scenes, t.awaiting)
  BY <1>2, <1>5 DEF Record
<1> QED BY <1>1, <1>2, <1>6 DEF Formed, current, huddles, index, scenes

\* A new talk in the open, in the scene minted for it.
LEMMA OutdoorsFormed ==
    ASSUME NEW t \in Talk, NEW h, Unused(t, h), NEW b, NEW S
    PROVE  Seated([Minted(t, h, Outdoors) EXCEPT !.scenes = Put(@, h, SceneOf(b, h))], h, S)
             = Formed(t, h, Outdoors, S, h, SceneOf(b, h))
<1> DEFINE huddles == Put(t.huddles, h, NewTalk(Outdoors, {}))
           scenes == Put(t.scenes, h, SceneOf(b, h))
<1>1. PICK m : m = Record(t.current, huddles, t.byHuddle, t.scenes, t.awaiting)
  OBVIOUS
<1>2. Minted(t, h, Outdoors) = m /\ m.scenes = t.scenes
  BY <1>1, MintedIs DEF Record
<1>3. PICK v : v = [m EXCEPT !.scenes = scenes]
  OBVIOUS
<1>4. [Minted(t, h, Outdoors) EXCEPT !.scenes = Put(@, h, SceneOf(b, h))] = v
  BY <1>2, <1>3
<1> HIDE DEF huddles, scenes
<1>5. v = Record(t.current, huddles, t.byHuddle, scenes, t.awaiting)
  BY <1>1, <1>3 DEF Record
<1>6. Seated(v, h, S) = Record([x \in Actors |-> IF x \in S THEN h ELSE t.current[x]],
                               Put(t.huddles, h, NewTalk(Outdoors, S)), Put(t.byHuddle, h, S),
                               scenes, t.awaiting)
  BY <1>5, SeatedMinted DEF huddles
<1> QED BY <1>4, <1>6 DEF Formed, scenes

----------------------------------------------------------------------------
(* Joining *)

\* An actor in no huddle joins the one at s, or forms it when there is company for it.
LEMMA JoinFree ==
    ASSUME NEW P, NEW t, Sound(t, P, here), NEW a \in Actors, a \in here,
           NEW s \in Structures, P[a].at = s, t.current[a] = NoHuddle,
           At(t, s) # {} \/ \E b \in Actors : b # a /\ t.current[b] = NoHuddle,
           NEW u, u = Join(t, a, s)
    PROVE  /\ Sound(u, P, here)
           /\ u.current[a] \in At(u, s)
           /\ \A x \in Actors : x # a => u.current[x] = t.current[x]
<1>t. t \in Talk BY DEF Sound
<1>1. ~InTalk(t, a)
  BY <1>t, TalkTypes DEF InTalk
<1>S. PICK S : S = {a}
  OBVIOUS
<1>2. CASE At(t, s) # {}
  <2>1. PICK h : h = HuddleAt(t, s)
    OBVIOUS
  <2>2. h \in At(t, s)
    BY <1>2, <2>1 DEF HuddleAt
  <2>3. PICK w : w = Seated(t, h, S)
    OBVIOUS
  <2>4. u = Watched(w, h, s)
    BY <1>1, <1>2, <1>S, <2>1, <2>3 DEF Join
  <2>5. h \in DOMAIN t.huddles /\ t.huddles[h].structure = s
    BY <2>2 DEF At
  <2>6. /\ Sound(w, P, here)
        /\ \A x \in Actors : w.current[x] = IF x \in S THEN h ELSE t.current[x]
        /\ \A r : At(w, r) = At(t, r)
    <3>1. S \in SUBSET Actors /\ S \subseteq here /\ \A x \in S : x = a
      BY <1>S
    <3>2. /\ \A x \in S : t.current[x] = NoHuddle
          /\ \A x \in S : P[x].at = t.huddles[h].structure
          /\ t.huddles[h].structure \in Structures
      BY <3>1, <2>5
    <3> QED BY <2>3, <2>5, <3>1, <3>2, SeatedSound
  <2>7. h \in At(w, s)
    BY <2>2, <2>6
  <2>8. u = w
    BY <2>4, <2>6, <2>7, WatchedNothing
  <2> QED BY <1>S, <2>6, <2>7, <2>8
<1>3. CASE At(t, s) = {}
  <2>1. PICK h : h = Fresh(t)
    OBVIOUS
  <2>2. PICK b \in Actors : b # a /\ t.current[b] = NoHuddle
    BY <1>3
  <2>3. h \in HuddleIds /\ Unused(t, h)
    BY <2>1, <2>2, FreshFree
  <2>4. u = Watched(Seated(Minted(t, h, s), h, S), h, s)
    BY <1>1, <1>3, <1>S, <2>1 DEF Join
  <2>5. s \in DOMAIN t.scenes => t.scenes[s].huddles = {}
    <3>1. ASSUME s \in DOMAIN t.scenes, NEW g \in t.scenes[s].huddles
          PROVE  FALSE
      <4>1. g \in DOMAIN t.huddles /\ t.huddles[g].structure = s
        BY <3>1 DEF Sound, Followed
      <4> QED BY <1>3, <4>1 DEF At
    <3> QED BY <3>1
  <2>6. PICK scene : scene = SceneOf(s, h)
    OBVIOUS
  <2>7. u = Formed(t, h, s, S, s, scene)
    BY <1>t, <2>3, <2>4, <2>5, <2>6, IndoorsFormed
  <2>8. scene \in Scene /\ scene.huddles = {h} /\ scene.bound = s
    BY <2>3, <2>6 DEF SceneOf, Scene
  <2>9. /\ S \in Groups /\ S \subseteq here
        /\ \A x \in S : t.current[x] = NoHuddle
        /\ \A x \in S : P[x].at = s
        /\ s \in SceneKeys
    BY <1>S DEF Groups, SceneKeys
  <2>10. /\ Sound(u, P, here)
         /\ \A x \in Actors : u.current[x] = IF x \in S THEN h ELSE t.current[x]
         /\ h \in At(u, s)
    BY <1>3, <2>3, <2>5, <2>7, <2>8, <2>9, FormedSound
  <2> QED BY <1>S, <2>10
<1> QED BY <1>2, <1>3

\* JoinHuddle keeps the conversations sound; whoever else's huddle ends is in none.
LEMMA JoinSound ==
    ASSUME NEW P, NEW t, Sound(t, P, here), NEW a \in Actors, a \in here,
           NEW s \in Structures, P[a].at = s,
           \/ t.current[a] = NoHuddle /\ At(t, s) # {}
           \/ \E b \in Actors : b # a /\ t.current[b] = NoHuddle,
           NEW u, u = Join(t, a, s)
    PROVE  /\ Sound(u, P, here)
           /\ u.current[a] \in At(u, s)
           /\ \A x \in Actors : x # a => u.current[x] = t.current[x] \/ u.current[x] = NoHuddle
<1>1. CASE t.current[a] = NoHuddle
  <2>1. At(t, s) # {} \/ \E b \in Actors : b # a /\ t.current[b] = NoHuddle
    BY <1>1
  <2> QED BY <1>1, <2>1, JoinFree
<1>2. CASE InTalk(t, a) /\ t.huddles[t.current[a]].structure = s
  <2>1. t.current[a] \in At(t, s)
    BY <1>2 DEF InTalk, At
  <2>2. u = Watched(t, t.current[a], s)
    BY <1>2 DEF Join
  <2>3. u = t
    BY <2>1, <2>2, WatchedNothing
  <2> QED BY <2>1, <2>3
<1>3. CASE t.current[a] # NoHuddle /\ ~(InTalk(t, a) /\ t.huddles[t.current[a]].structure = s)
  <2>1. PICK v : v = Leave(t, a)
    OBVIOUS
  <2>2. /\ Sound(v, P, here)
        /\ v.current[a] = NoHuddle
        /\ \A x \in Actors : v.current[x] = t.current[x] \/ v.current[x] = NoHuddle
    BY <2>1, LeaveSound
  <2>3. ~InTalk(v, a)
    BY <2>2, TalkTypes DEF InTalk, Sound
  <2>4. Join(t, a, s) = Join(v, a, s)
    BY <1>3, <2>1, <2>2, <2>3 DEF Join
  <2>5. \E b \in Actors : b # a /\ v.current[b] = NoHuddle
    BY <1>3, <2>2
  <2>6. /\ Sound(u, P, here)
        /\ u.current[a] \in At(u, s)
        /\ \A x \in Actors : x # a => u.current[x] = v.current[x]
    BY <2>2, <2>4, <2>5, JoinFree
  <2> QED BY <2>2, <2>6
<1> QED BY <1>1, <1>2, <1>3

----------------------------------------------------------------------------
(* What does not disturb a conversation *)

\* An actor in no huddle may be put anywhere.
LEMMA MovedSound ==
    ASSUME NEW P, NEW Q, NEW H, NEW t, Sound(t, P, H),
           \A x \in Actors : t.current[x] # NoHuddle => Q[x] = P[x]
    PROVE  Sound(t, Q, H)
<1>1. \A x \in Actors : t.current[x] \in DOMAIN t.huddles => Q[x] = P[x]
  BY TalkTypes DEF Sound
<1>2. Present(t, Q)
  BY <1>1 DEF Sound, Present
<1> QED BY <1>2 DEF Sound

\* Who is there matters only of those in a huddle.
LEMMA ThereSound ==
    ASSUME NEW P, NEW H, NEW G, NEW t, Sound(t, P, H),
           \A x \in Actors : t.current[x] # NoHuddle /\ x \in H => x \in G
    PROVE  Sound(t, P, G)
<1>1. ASSUME NEW h \in DOMAIN t.huddles
      PROVE  t.huddles[h].members \subseteq G
  <2>1. /\ t.huddles[h].members = {a \in Actors : t.current[a] = h}
        /\ t.huddles[h].members \subseteq H
    BY DEF Sound, Rostered
  <2>2. h # NoHuddle
    BY TalkTypes DEF Sound
  <2> QED BY <2>1, <2>2
<1>2. Rostered(t, G)
  BY <1>1 DEF Sound, Rostered
<1> QED BY <1>2 DEF Sound

\* A talk with the same members in the same places, whatever is waited for in it.
LEMMA TalkFrame ==
    ASSUME NEW P, NEW H, NEW t, Sound(t, P, H), NEW u \in Talk,
           u.current = t.current, u.byHuddle = t.byHuddle, u.scenes = t.scenes,
           DOMAIN u.huddles = DOMAIN t.huddles,
           \A g \in DOMAIN t.huddles : /\ u.huddles[g].structure = t.huddles[g].structure
                                       /\ u.huddles[g].members = t.huddles[g].members,
           Waits(u)
    PROVE  Sound(u, P, H)
<1>1. Rostered(u, H)
  BY DEF Sound, Rostered
<1>2. Roofs(u) /\ Followed(u) /\ Present(u, P)
  <2>1. Roofs(t) /\ Followed(t) /\ Present(t, P)
    BY DEF Sound
  <2>2. \A a \in Actors : u.current[a] \in DOMAIN u.huddles => u.current[a] = t.current[a]
    OBVIOUS
  <2> QED BY <2>1, <2>2, PlaceFrame
<1> QED BY <1>1, <1>2 DEF Sound

\* A word, or a silence.
LEMMA QuietSound ==
    ASSUME NEW P, NEW H, NEW t, Sound(t, P, H), NEW h \in DOMAIN t.huddles,
           NEW q \in BOOLEAN, NEW u, u = [t EXCEPT !.huddles[h].quiet = q]
    PROVE  /\ Sound(u, P, H)
           /\ u.current = t.current /\ u.byHuddle = t.byHuddle /\ u.awaiting = t.awaiting
<1>t. t \in Talk BY DEF Sound
<1>1. PICK huddle : huddle = [t.huddles[h] EXCEPT !.quiet = q]
  OBVIOUS
<1>2. t.huddles[h] \in Huddle
  BY <1>t, TalkTypes
<1>3. /\ huddle \in Huddle
      /\ huddle.structure = t.huddles[h].structure
      /\ huddle.members = t.huddles[h].members
  BY <1>1, <1>2 DEF Huddle
<1>4. PICK huddles : huddles = [t.huddles EXCEPT ![h] = huddle]
  OBVIOUS
<1>5. u = [t EXCEPT !.huddles = huddles]
  BY <1>1, <1>4
<1>6. u = Record(t.current, huddles, t.byHuddle, t.scenes, t.awaiting)
  BY <1>t, <1>5 DEF Talk, Record
<1>7. /\ u.current = t.current /\ u.huddles = huddles /\ u.byHuddle = t.byHuddle
      /\ u.scenes = t.scenes /\ u.awaiting = t.awaiting
  BY <1>6 DEF Record
<1>8. u \in Talk
  <2>1. huddles \in [DOMAIN t.huddles -> Huddle]
    BY <1>3, <1>4, <1>t, TalkTypes
  <2>2. DOMAIN t.huddles \in SUBSET HuddleIds
    BY <1>t, TalkTypes
  <2>3. huddles \in Maps(HuddleIds, Huddle)
    BY <2>1, <2>2, MapsIntro
  <2>4. /\ t.current \in [Actors -> HuddleIds \cup {NoHuddle}]
        /\ t.byHuddle \in Maps(HuddleIds, Groups)
        /\ t.scenes \in Maps(SceneKeys, Scene)
        /\ t.awaiting \in SUBSET (Actors \X Actors)
    BY <1>t, TalkParts
  <2> QED BY <1>6, <2>3, <2>4, TalkIs
<1>9. /\ DOMAIN u.huddles = DOMAIN t.huddles
      /\ \A g \in DOMAIN t.huddles : /\ u.huddles[g].structure = t.huddles[g].structure
                                     /\ u.huddles[g].members = t.huddles[g].members
  BY <1>3, <1>4, <1>7
<1>10. Waits(u)
  BY <1>7 DEF Sound, Waits
<1>11. Sound(u, P, H)
  BY <1>7, <1>8, <1>9, <1>10, TalkFrame
<1> QED BY <1>7, <1>11

LEMMA TouchedSound ==
    ASSUME NEW P, NEW H, NEW t, Sound(t, P, H), NEW a \in Actors,
           NEW u, u = Touched(t, a)
    PROVE  /\ Sound(u, P, H)
           /\ u.current = t.current /\ u.byHuddle = t.byHuddle /\ u.awaiting = t.awaiting
<1>1. CASE InTalk(t, a)
  <2>1. PICK h, q : h = t.current[a] /\ q = FALSE
    OBVIOUS
  <2>2. h \in DOMAIN t.huddles /\ q \in BOOLEAN
    BY <1>1, <2>1 DEF InTalk
  <2>3. u = [t EXCEPT !.huddles[h].quiet = q]
    BY <1>1, <2>1 DEF Touched
  <2> QED BY <2>2, <2>3, QuietSound
<1>2. CASE ~InTalk(t, a)
  BY <1>2 DEF Touched
<1> QED BY <1>1, <1>2

\* SpeakTo: the ones spoken to are peers, so no two end up waiting for one another.
LEMMA SpokenSound ==
    ASSUME NEW P, NEW H, NEW t, Sound(t, P, H), NEW a \in Actors,
           NEW to \in SUBSET Peers(t, a), NEW u, u = Spoken(t, a, to)
    PROVE  Sound(u, P, H)
<1>1. PICK v : v = Touched(t, a)
  OBVIOUS
<1>2. /\ Sound(v, P, H)
      /\ v.current = t.current /\ v.byHuddle = t.byHuddle /\ v.awaiting = t.awaiting
  BY <1>1, TouchedSound
<1>v. v \in Talk
  BY <1>2 DEF Sound
<1>t. t \in Talk
  BY DEF Sound
<1> DEFINE W == (t.awaiting \cup ({a} \X to)) \ (Peers(t, a) \X {a})
<1>3. \A b \in Peers(t, a) : /\ b \in Actors /\ b # a
                             /\ t.current[a] # NoHuddle /\ t.current[b] = t.current[a]
  <2>1. CASE t.current[a] \in DOMAIN t.byHuddle
    <3>1. /\ t.current[a] \in DOMAIN t.huddles
          /\ t.byHuddle[t.current[a]] = {b \in Actors : t.current[b] = t.current[a]}
      BY <2>1 DEF Sound, Rostered
    <3>2. t.current[a] # NoHuddle
      BY <3>1, <1>t, TalkTypes
    <3> QED BY <2>1, <3>1, <3>2 DEF Peers
  <2>2. CASE t.current[a] \notin DOMAIN t.byHuddle
    BY <2>2 DEF Peers
  <2> QED BY <2>1, <2>2
<1>4. W \subseteq Actors \X Actors
  BY <1>3, <1>t, TalkParts
<1>5. ASSUME NEW e \in W
      PROVE  /\ t.current[e[1]] # NoHuddle
             /\ t.current[e[2]] = t.current[e[1]]
             /\ <<e[2], e[1]>> \notin W
  <2>1. CASE e \in t.awaiting
    <3>1. /\ e[1] \in Actors /\ e[2] \in Actors /\ e = <<e[1], e[2]>>
      BY <2>1, <1>t, TalkParts
    <3>2. /\ t.current[e[1]] # NoHuddle
          /\ t.current[e[2]] = t.current[e[1]]
          /\ <<e[2], e[1]>> \notin t.awaiting
      BY <2>1 DEF Sound, Waits
    <3>3. <<e[2], e[1]>> \notin {a} \X to
      <4> SUFFICES ASSUME <<e[2], e[1]>> \in {a} \X to PROVE FALSE
        OBVIOUS
      <4>1. e[2] = a /\ e[1] \in Peers(t, a)
        OBVIOUS
      <4>2. e \in Peers(t, a) \X {a}
        BY <3>1, <4>1
      <4> QED BY <4>2
    <3> QED BY <3>2, <3>3
  <2>2. CASE e \in {a} \X to
    <3>1. e[1] = a /\ e[2] \in Peers(t, a)
      BY <2>2
    <3>2. <<e[2], e[1]>> \in Peers(t, a) \X {a}
      BY <3>1
    <3> QED BY <3>1, <3>2, <1>3
  <2> QED BY <2>1, <2>2
<1>6. u = [v EXCEPT !.awaiting = W]
  BY <1>1, <1>2 DEF Spoken
<1> HIDE DEF W
<1>7. u = Record(v.current, v.huddles, v.byHuddle, v.scenes, W)
  BY <1>6, <1>v DEF Talk, Record
<1>8. /\ u.current = v.current /\ u.huddles = v.huddles /\ u.byHuddle = v.byHuddle
      /\ u.scenes = v.scenes /\ u.awaiting = W
  BY <1>7 DEF Record
<1>9. u \in Talk
  <2>1. /\ v.current \in [Actors -> HuddleIds \cup {NoHuddle}]
        /\ v.huddles \in Maps(HuddleIds, Huddle)
        /\ v.byHuddle \in Maps(HuddleIds, Groups)
        /\ v.scenes \in Maps(SceneKeys, Scene)
    BY <1>v, TalkParts
  <2>2. W \in SUBSET (Actors \X Actors)
    BY <1>4
  <2> QED BY <1>7, <2>1, <2>2, TalkIs
<1>10. Waits(u)
  BY <1>2, <1>5, <1>8 DEF Waits
<1> QED BY <1>2, <1>8, <1>9, <1>10, TalkFrame

----------------------------------------------------------------------------
(* Talks that start by themselves, and members who are out of place *)

BodySound ==
    /\ place \in [Actors -> Places]
    /\ walk \in [Actors -> Places \cup {Still}]
    /\ rest \in [Actors -> {"up", "break", "asleep"}]
    /\ here \subseteq Actors

LEMMA PlaceIs ==
    ASSUME NEW p \in Places
    PROVE  \/ p = Road /\ ~p.in /\ p.at = Outdoors
           \/ p.at \in Structures /\ p.in /\ p = Inside(p.at)
           \/ p.at \in Structures /\ ~p.in /\ p = Door(p.at)
BY DEF Places, Road, Inside, Door

LEMMA SpotIs ==
    ASSUME NEW s \in Structures
    PROVE  /\ Inside(s) \in Places /\ Inside(s).at = s /\ Inside(s).in
           /\ Door(s) \in Places /\ Door(s).at = s /\ ~Door(s).in
           /\ Road \in Places /\ Road.at = Outdoors /\ ~Road.in
BY DEF Places, Road, Inside, Door

LEMMA ScopeIs ==
    ASSUME NEW p \in Places
    PROVE  Scope(p) = Outdoors \/ (Scope(p) = p.at /\ p.at \in Structures)
BY PlaceIs DEF Scope

LEMMA ColocatedSound ==
    ASSUME BodySound, NEW t, Sound(t, place, here), NEW a \in here,
           NEW u, u = Colocated(t, a)
    PROVE  Sound(u, place, here)
<1>a. a \in Actors /\ place[a] \in Places
  BY DEF BodySound
<1> DEFINE s == Scope(place[a])
           others == {b \in here \ {a} : /\ place[b] = Inside(s) /\ t.current[b] = NoHuddle
                                         /\ rest[b] # "asleep"}
<1>1. CASE t.current[a] # NoHuddle \/ s = Outdoors \/ (others = {} /\ At(t, s) = {})
  <2>1. u = t
    BY <1>1 DEF Colocated
  <2> QED BY <2>1
<1>2. CASE ~(t.current[a] # NoHuddle \/ s = Outdoors \/ (others = {} /\ At(t, s) = {}))
  <2>1. s \in Structures /\ place[a].at = s
    BY <1>2, <1>a, ScopeIs
  <2>2. PICK v : v = Join(t, a, s)
    OBVIOUS
  <2>3. u = Seated(v, v.current[a], others)
    BY <1>2, <2>2 DEF Colocated
  <2>o. /\ others \in SUBSET Actors /\ others \subseteq here
        /\ \A b \in others : /\ b # a /\ t.current[b] = NoHuddle
                             /\ place[b] = Inside(s)
    BY DEF BodySound
  <2>4. \/ t.current[a] = NoHuddle /\ At(t, s) # {}
        \/ \E b \in Actors : b # a /\ t.current[b] = NoHuddle
    <3>1. CASE At(t, s) # {}
      BY <1>2, <3>1
    <3>2. CASE At(t, s) = {}
      <4>1. PICK b \in others : TRUE
        BY <1>2, <3>2
      <4>2. b \in Actors /\ b # a /\ t.current[b] = NoHuddle
        BY <2>o
      <4> QED BY <4>2
    <3> QED BY <3>1, <3>2
  <2> HIDE DEF s, others
  <2>5. /\ Sound(v, place, here)
        /\ v.current[a] \in At(v, s)
        /\ \A x \in Actors : x # a => v.current[x] = t.current[x] \/ v.current[x] = NoHuddle
    BY <1>a, <2>1, <2>2, <2>4, JoinSound
  <2>6. PICK h : h = v.current[a]
    OBVIOUS
  <2>7. h \in DOMAIN v.huddles /\ v.huddles[h].structure = s
    BY <2>5, <2>6 DEF At
  <2>8. /\ \A b \in others : v.current[b] = NoHuddle
        /\ v.huddles[h].structure \in Structures
        /\ \A b \in others : place[b].at = v.huddles[h].structure
    BY <2>1, <2>5, <2>7, <2>o, SpotIs
  <2>9. u = Seated(v, h, others)
    BY <2>3, <2>6
  <2> QED BY <2>5, <2>7, <2>8, <2>9, <2>o, SeatedSound
<1> QED BY <1>1, <1>2

\* The keeper joins first and the arriver after it, so the second join finds a huddle.
LEMMA BothJoin ==
    ASSUME BodySound, NEW t, Sound(t, place, here), NEW s \in Structures,
           NEW a \in here, NEW k \in here, a # k,
           place[a].at = s, place[k].at = s, t.current[a] = NoHuddle,
           NEW u, u = Join(Join(t, k, s), a, s)
    PROVE  Sound(u, place, here)
<1>a. a \in Actors /\ k \in Actors
  BY DEF BodySound
<1>1. PICK v : v = Join(t, k, s)
  OBVIOUS
<1>2. \E b \in Actors : b # k /\ t.current[b] = NoHuddle
  BY <1>a
<1>3. /\ Sound(v, place, here)
      /\ v.current[k] \in At(v, s)
      /\ \A x \in Actors : x # k => v.current[x] = t.current[x] \/ v.current[x] = NoHuddle
  BY <1>a, <1>1, <1>2, JoinSound
<1>4. v.current[a] = NoHuddle /\ At(v, s) # {}
  BY <1>a, <1>3
<1>5. u = Join(v, a, s)
  BY <1>1
<1> QED BY <1>a, <1>3, <1>4, <1>5, JoinSound

LEMMA GreetedSound ==
    ASSUME BodySound, NEW t, Sound(t, place, here), NEW s \in Structures,
           NEW a \in here, place[a].at = s, NEW u, u = Greeted(t, a, s)
    PROVE  Sound(u, place, here)
<1> DEFINE k == Keeper[s]
           atPost == k \in here /\ place[k] = Inside(s) /\ rest[k] = "up"
<1>1. CASE t.current[a] # NoHuddle \/ Scope(place[a]) # s \/ a = k \/ ~atPost
  BY <1>1 DEF Greeted
<1>2. CASE ~(t.current[a] # NoHuddle \/ Scope(place[a]) # s \/ a = k \/ ~atPost)
  <2>1. k \in here /\ a # k /\ place[k].at = s /\ t.current[a] = NoHuddle
    BY <1>2, SpotIs
  <2>2. CASE t.current[k] = NoHuddle
    <3>1. u = Join(Join(t, k, s), a, s)
      BY <1>2, <2>2 DEF Greeted
    <3> QED BY <2>1, <3>1, BothJoin
  <2>3. CASE t.current[k] # NoHuddle /\ t.current[k] \in At(t, s)
    <3>1. u = Join(t, a, s) /\ At(t, s) # {}
      BY <1>2, <2>3 DEF Greeted
    <3>2. a \in Actors
      BY DEF BodySound
    <3> QED BY <2>1, <3>1, <3>2, JoinSound
  <2>4. CASE t.current[k] # NoHuddle /\ t.current[k] \notin At(t, s)
    BY <1>2, <2>4 DEF Greeted
  <2> QED BY <2>2, <2>3, <2>4
<1> QED BY <1>1, <1>2

LEMMA EncounteredSound ==
    ASSUME BodySound, NEW t, Sound(t, place, here), NEW a \in here,
           NEW u, u = Encountered(t, a)
    PROVE  Sound(u, place, here)
<1>t. t \in Talk BY DEF Sound
<1>a. a \in Actors /\ place[a] \in Places
  BY DEF BodySound
<1> DEFINE shy(b) == walk[b] # Still \/ rest[b] # "up" \/ Scope(place[b]) # Outdoors
           near == {b \in here \ {a} : place[b] = place[a] /\ t.current[b] = NoHuddle /\ ~shy(b)}
           S == {a} \cup near
           none == place[a].in \/ t.current[a] # NoHuddle \/ Scope(place[a]) # Outdoors \/ near = {}
<1>h. PICK h, p : h = Fresh(t) /\ p = place[a]
  OBVIOUS
<1>1. CASE none
  BY <1>1 DEF Encountered
<1>2. CASE ~none
  <2>1. u = Seated([Minted(t, h, Outdoors) EXCEPT !.scenes = Put(@, h, SceneOf(p, h))], h, S)
    BY <1>2, <1>h DEF Encountered, SceneOf
  <2>2. PICK b \in near : TRUE
    BY <1>2
  <2>3. /\ b \in Actors /\ b # a /\ t.current[b] = NoHuddle /\ t.current[a] = NoHuddle
    BY <1>2, <2>2 DEF BodySound
  <2>s. /\ S \in Groups /\ S \subseteq here
        /\ \A x \in S : t.current[x] = NoHuddle
        /\ \A x \in S : place[x] = p
    BY <1>a, <1>h, <2>3 DEF BodySound, Groups
  <2> HIDE DEF S, near, none
  <2>4. h \in HuddleIds /\ Unused(t, h)
    BY <1>a, <1>h, <2>3, FreshFree
  <2>5. PICK scene : scene = SceneOf(p, h)
    OBVIOUS
  <2>6. u = Formed(t, h, Outdoors, S, h, scene)
    BY <1>t, <2>1, <2>4, <2>5, OutdoorsFormed
  <2>7. scene \in Scene /\ scene.huddles = {h} /\ scene.bound = p /\ p \in Places
    BY <1>a, <1>h, <2>4, <2>5 DEF SceneOf, Scene
  <2>8. h \in SceneKeys /\ h \notin Structures /\ h \notin DOMAIN t.scenes
    BY <2>4 DEF SceneKeys, Unused
  <2> DEFINE s == Outdoors
  <2>9. \A x \in S : IF s # Outdoors THEN place[x].at = s ELSE scene.bound = place[x]
    BY <2>7, <2>s
  <2>10. u = Formed(t, h, s, S, h, scene) /\ s = Outdoors
    BY <2>6
  <2> HIDE DEF s
  <2> QED BY <2>4, <2>7, <2>8, <2>9, <2>10, <2>s, FormedSound
<1> QED BY <1>1, <1>2

LEMMA UnhuddledSound ==
    ASSUME NEW P, NEW t, Sound(t, P, here), NEW a \in Actors,
           NEW u, u = Unhuddled(t, a)
    PROVE  /\ Sound(u, P, here)
           /\ u.current[a] = NoHuddle
           /\ \A x \in Actors : u.current[x] = t.current[x] \/ u.current[x] = NoHuddle
<1>1. CASE InTalk(t, a)
  <2>1. u = Leave(t, a)
    BY <1>1 DEF Unhuddled
  <2> QED BY <2>1, LeaveSound
<1>2. CASE ~InTalk(t, a)
  <2>1. u = t
    BY <1>2 DEF Unhuddled
  <2> QED BY <1>2, <2>1, LeaveNothing
<1> QED BY <1>1, <1>2

\* Put somewhere, an actor stays only in a conversation whose every scene holds it there.
LEMMA DriftedSound ==
    ASSUME NEW P, NEW t, Sound(t, P, here), NEW a \in Actors, NEW p \in Places,
           NEW Q, \A x \in Actors : x # a => Q[x] = P[x], Q[a] = p,
           NEW u, u = Drifted(t, a, p)
    PROVE  Sound(u, Q, here)
<1> DEFINE out == \E c \in DOMAIN t.scenes : /\ t.current[a] \in t.scenes[c].huddles
                                             /\ ~Contains(t.scenes[c].bound, p)
<1>1. CASE InTalk(t, a) /\ out
  <2>1. u = Leave(t, a)
    BY <1>1 DEF Drifted
  <2>2. Sound(u, P, here) /\ u.current[a] = NoHuddle
    BY <2>1, LeaveSound
  <2> QED BY <2>2, MovedSound
<1>2. CASE ~InTalk(t, a)
  <2>1. u = t /\ t.current[a] = NoHuddle
    BY <1>2, LeaveNothing DEF Drifted
  <2> QED BY <2>1, MovedSound
<1>3. CASE InTalk(t, a) /\ ~out
  <2>1. u = t
    BY <1>3 DEF Drifted
  <2>f. Followed(t) /\ Present(t, P)
    BY DEF Sound
  <2>2. PICK h : h = t.current[a] /\ h \in DOMAIN t.huddles
    BY <1>3 DEF InTalk
  <2>3. \A c \in DOMAIN t.scenes : h \in t.scenes[c].huddles => Contains(t.scenes[c].bound, p)
    BY <1>3, <2>2
  <2> HIDE DEF out
  <2>4. t.huddles[h].structure # Outdoors => p.at = t.huddles[h].structure
    <3>1. SUFFICES ASSUME t.huddles[h].structure # Outdoors
                   PROVE  p.at = t.huddles[h].structure
      OBVIOUS
    <3>2. PICK c \in DOMAIN t.scenes : h \in t.scenes[c].huddles
      BY <2>2, <2>f DEF Followed
    <3>3. c \in Structures /\ t.huddles[h].structure = c /\ t.scenes[c].bound = c
      BY <3>1, <3>2, <2>f DEF Followed
    <3>4. Contains(c, p) /\ c \notin Places
      BY <2>3, <3>2, <3>3
    <3>5. p = Inside(c)
      BY <3>4 DEF Contains
    <3> QED BY <3>3, <3>5, SpotIs
  <2>5. ASSUME t.huddles[h].structure = Outdoors,
               NEW c \in DOMAIN t.scenes, h \in t.scenes[c].huddles
        PROVE  t.scenes[c].bound = p
    <3>1. c \notin Structures
      BY <2>5, <2>f DEF Followed
    <3>2. t.scenes[c].bound \in Places
      BY <3>1, <2>f DEF Followed
    <3>3. Contains(t.scenes[c].bound, p)
      BY <2>3, <2>5
    <3> QED BY <3>2, <3>3 DEF Contains
  <2>6. ASSUME NEW x \in Actors, t.current[x] \in DOMAIN t.huddles
        PROVE  LET g == t.current[x]
                   s == t.huddles[g].structure
               IN IF s # Outdoors THEN Q[x].at = s
                  ELSE \A c \in DOMAIN t.scenes : g \in t.scenes[c].huddles => t.scenes[c].bound = Q[x]
    <3>1. CASE x = a
      BY <3>1, <2>2, <2>4, <2>5
    <3>2. CASE x # a
      <4>1. Q[x] = P[x]
        BY <3>2
      <4> QED BY <2>6, <4>1, <2>f DEF Present
    <3> QED BY <3>1, <3>2
  <2>7. Present(t, Q)
    BY <2>6 DEF Present
  <2> QED BY <2>1, <2>7 DEF Sound
<1> QED BY <1>1, <1>2, <1>3

LEMMA EvictedSound ==
    ASSUME BodySound, NEW t, Sound(t, place, here), NEW s \in Structures,
           NEW u, u = Evicted(t, s)
    PROVE  Sound(u, place, here)
<1> DEFINE h == HuddleAt(t, s)
           outside == {b \in t.huddles[h].members \cap here : t.current[b] = h /\ place[b] # Inside(s)}
<1>1. CASE At(t, s) = {} \/ outside = {}
  BY <1>1 DEF Evicted
<1>2. CASE ~(At(t, s) = {} \/ outside = {})
  <2>1. u = Quit(t, h, outside)
    BY <1>2 DEF Evicted
  <2>2. h \in At(t, s)
    BY <1>2 DEF HuddleAt
  <2>3. h \in DOMAIN t.huddles
    BY <2>2 DEF At
  <2>4. outside \in SUBSET t.huddles[h].members
    OBVIOUS
  <2> HIDE DEF h, outside
  <2> QED BY <2>1, <2>3, <2>4, QuitSound
<1> QED BY <1>1, <1>2

----------------------------------------------------------------------------
(* The invariant *)

Settled == BodySound /\ Sound(talk, place, here)

LEMMA SettledInit == Init => Settled
<1> SUFFICES ASSUME Init PROVE Settled
  OBVIOUS
<1>1. talk = Record([a \in Actors |-> NoHuddle], Empty, Empty, Empty, {})
  BY DEF Init, Record
<1>2. talk \in Talk
  <2>1. /\ [a \in Actors |-> NoHuddle] \in [Actors -> HuddleIds \cup {NoHuddle}]
        /\ Empty \in Maps(HuddleIds, Huddle) /\ Empty \in Maps(HuddleIds, Groups)
        /\ Empty \in Maps(SceneKeys, Scene) /\ {} \in SUBSET (Actors \X Actors)
    BY EmptyMap
  <2> QED BY <1>1, <2>1, TalkIs
<1>3. /\ talk.current = [a \in Actors |-> NoHuddle] /\ talk.awaiting = {}
      /\ DOMAIN talk.huddles = {} /\ DOMAIN talk.byHuddle = {} /\ DOMAIN talk.scenes = {}
  BY <1>1 DEF Record, Empty
<1>4. Sound(talk, place, here)
  BY <1>2, <1>3 DEF Sound, Rostered, Waits, Roofs, At, Followed, Present
<1>5. BodySound
  BY SpotIs DEF Init, BodySound, Places
<1> QED BY <1>4, <1>5 DEF Settled

\* Words: who speaks or trades may form a huddle first.
LEMMA SpeakToStep == ASSUME Settled, NEW a \in Actors, SpeakTo(a) PROVE Settled'
<1>1. PICK t : t = Colocated(talk, a)
  OBVIOUS
<1>a. a \in here
  BY DEF SpeakTo, Awake
<1>2. Sound(t, place, here)
  BY <1>1, <1>a, ColocatedSound DEF Settled
<1>3. CASE talk' = t
  BY <1>2, <1>3 DEF SpeakTo, Settled, BodySound, body
<1>4. CASE \E to \in {{}} \cup {{b} : b \in Peers(t, a)} : talk' = Spoken(t, a, to)
  <2>1. PICK to \in SUBSET Peers(t, a) : talk' = Spoken(t, a, to)
    BY <1>4
  <2>2. Sound(talk', place, here)
    BY <1>2, <2>1, SpokenSound
  <2> QED BY <2>2 DEF SpeakTo, Settled, BodySound, body
<1> QED BY <1>1, <1>3, <1>4 DEF SpeakTo

LEMMA TradeStep == ASSUME Settled, NEW a \in Actors, Trade(a) PROVE Settled'
<1>1. PICK t : t = Colocated(talk, a)
  OBVIOUS
<1>a. a \in here
  BY DEF Trade, Awake
<1>2. Sound(t, place, here)
  BY <1>1, <1>a, ColocatedSound DEF Settled
<1>3. talk' = Touched(t, a)
  BY <1>1 DEF Trade
<1>4. Sound(talk', place, here)
  BY <1>2, <1>3, TouchedSound
<1> QED BY <1>4 DEF Trade, Settled, BodySound, body

\* Excuse, EndTick and the rest that only leave
LEMMA LeaveStep ==
    ASSUME Settled, NEW a \in Actors, talk' = Leave(talk, a), UNCHANGED body
    PROVE  Settled'
<1>1. Sound(talk', place, here)
  BY LeaveSound DEF Settled
<1> QED BY <1>1 DEF Settled, BodySound, body

LEMMA MoveActorStep ==
    ASSUME Settled, NEW a \in Actors, NEW p \in Places, MoveActor(a, p) PROVE Settled'
<1>1. Sound(talk', place, here)
  <2>1. CASE talk.current[a] = NoHuddle
    BY <2>1 DEF MoveActor, Settled
  <2>2. CASE talk.current[a] # NoHuddle
    <3>1. talk' = Leave(talk, a)
      BY <2>2 DEF MoveActor
    <3> QED BY <3>1, LeaveSound DEF Settled
  <2> QED BY <2>1, <2>2
<1>2. BodySound'
  BY DEF MoveActor, Settled, BodySound
<1> QED BY <1>1, <1>2 DEF MoveActor, Settled

LEMMA TowardIs ==
    ASSUME NEW p \in Places, NEW q \in Places
    PROVE  Toward(p, q) \in Places
<1>1. CASE p.in
  BY <1>1, PlaceIs, SpotIs DEF Toward
<1>2. CASE ~p.in /\ q.at = p.at
  BY <1>2 DEF Toward
<1>3. CASE ~p.in /\ q.at # p.at
  <2>1. CASE p = Road
    <3>1. q.at \in Structures
      BY <1>3, <2>1, PlaceIs, SpotIs
    <3> QED BY <1>3, <2>1, <3>1, SpotIs DEF Toward
  <2>2. CASE p # Road
    BY <1>3, <2>2 DEF Toward, Places
  <2> QED BY <2>1, <2>2
<1> QED BY <1>1, <1>2, <1>3

LEMMA StepStep == ASSUME Settled, NEW a \in Actors, Step(a) PROVE Settled'
<1>1. talk' = Unhuddled(talk, a) /\ here' = here
  BY DEF Step
<1>2. Sound(talk', place, here) /\ talk'.current[a] = NoHuddle
  BY <1>1, UnhuddledSound DEF Settled
<1>3. \A x \in Actors : x # a => place'[x] = place[x]
  BY DEF Step, Settled, BodySound
<1>4. Sound(talk', place', here)
  BY <1>2, <1>3, MovedSound
<1>5. Toward(place[a], walk[a]) \in Places
  <2>1. place[a] \in Places /\ walk[a] \in Places
    BY DEF Step, Settled, BodySound
  <2> QED BY <2>1, TowardIs
<1>6. BodySound'
  BY <1>5 DEF Step, Settled, BodySound
<1> QED BY <1>1, <1>4, <1>6 DEF Settled

LEMMA ArriveStep == ASSUME Settled, NEW a \in Actors, Arrive(a) PROVE Settled'
<1>a. a \in here /\ place[a] \in Places /\ BodySound
  BY DEF Arrive, Settled, BodySound
<1>1. PICK t : t = Unhuddled(talk, a)
  OBVIOUS
<1>2. Sound(t, place, here)
  BY <1>1, UnhuddledSound DEF Settled
<1>3. PICK met : met = Encountered(t, a)
  OBVIOUS
<1>4. Sound(met, place, here)
  BY <1>a, <1>2, <1>3, EncounteredSound
<1>5. Sound(talk', place, here)
  <2>1. CASE talk' = t
    BY <1>2, <2>1
  <2>2. CASE talk' = IF place[a].at = Outdoors THEN met ELSE Greeted(met, a, place[a].at)
    <3>1. CASE place[a].at = Outdoors
      BY <1>4, <2>2, <3>1
    <3>2. CASE place[a].at # Outdoors
      <4>1. PICK s : s = place[a].at
        OBVIOUS
      <4>2. s \in Structures
        BY <1>a, <3>2, <4>1, PlaceIs
      <4>3. talk' = Greeted(met, a, s)
        BY <2>2, <3>2, <4>1
      <4> QED BY <1>a, <1>4, <4>1, <4>2, <4>3, GreetedSound
    <3> QED BY <3>1, <3>2
  <2> QED BY <1>1, <1>3, <2>1, <2>2 DEF Arrive
<1>6. BodySound'
  BY <1>a DEF Arrive, BodySound
<1> QED BY <1>5, <1>6 DEF Arrive, Settled

LEMMA KnockStep ==
    ASSUME Settled, NEW a \in Actors, NEW s \in Structures, KnockAtDoor(a, s) PROVE Settled'
<1> DEFINE answered == InTalk(talk, a) /\ \E b \in talk.huddles[talk.current[a]].members \ {a} :
                                             place[b] = Inside(s)
           k == Keeper[s]
           opens == k \in here /\ place[k] = Inside(s) /\ rest[k] = "up" /\ walk[k] = Still
<1>a. a \in here /\ BodySound /\ place[a] = Door(s) /\ UNCHANGED body
  BY DEF KnockAtDoor, Awake, Settled
<1>1. PICK t : t = IF InTalk(talk, a) THEN Leave(talk, a) ELSE talk
  OBVIOUS
<1>2. Sound(t, place, here) /\ t.current[a] = NoHuddle
  <2>1. t = Unhuddled(talk, a)
    BY <1>1 DEF Unhuddled
  <2> QED BY <2>1, UnhuddledSound DEF Settled
<1>3. talk' = IF answered THEN talk ELSE IF opens THEN Join(Join(t, k, s), a, s) ELSE t
  BY <1>1 DEF KnockAtDoor
<1>4. Sound(talk', place, here)
  <2>1. CASE answered
    BY <1>3, <2>1 DEF Settled
  <2>2. CASE ~answered /\ opens
    <3>1. talk' = Join(Join(t, k, s), a, s)
      BY <1>3, <2>2
    <3>2. k \in here /\ place[k] = Inside(s)
      BY <2>2
    <3> HIDE DEF k
    <3>3. a # k /\ place[a].at = s /\ place[k].at = s
      BY <1>a, <3>2, SpotIs
    <3> QED BY <1>a, <1>2, <3>1, <3>2, <3>3, BothJoin
  <2>3. CASE ~answered /\ ~opens
    BY <1>2, <1>3, <2>3
  <2> QED BY <2>1, <2>2, <2>3
<1> QED BY <1>a, <1>4 DEF Settled, BodySound, body

LEMMA SetPositionStep ==
    ASSUME Settled, NEW a \in Actors, NEW p \in Places, SetPosition(a, p) PROVE Settled'
<1>1. talk' = Drifted(talk, a, p) /\ here' = here
  BY DEF SetPosition
<1>2. (\A x \in Actors : x # a => place'[x] = place[x]) /\ place'[a] = p
  BY DEF SetPosition, Settled, BodySound
<1>3. Sound(talk', place', here)
  BY <1>1, <1>2, DriftedSound DEF Settled
<1>4. BodySound'
  BY DEF SetPosition, Settled, BodySound
<1> QED BY <1>1, <1>3, <1>4 DEF Settled

LEMMA SleepStep == ASSUME Settled, NEW a \in Actors, Sleep(a) PROVE Settled'
<1>a. /\ place[a] \in Places /\ place[a].in
      /\ place' = place /\ walk' = walk /\ here' = here
      /\ rest' = [rest EXCEPT ![a] = "asleep"]
  BY DEF Sleep, Settled, BodySound
<1>1. PICK t : t = IF a \notin Players /\ InTalk(talk, a) THEN Leave(talk, a) ELSE talk
  OBVIOUS
<1>2. Sound(t, place, here)
  BY <1>1, LeaveSound DEF Settled
<1>3. PICK s : s = place[a].at
  OBVIOUS
<1>4. s \in Structures
  BY <1>a, <1>3, PlaceIs
<1>5. talk' = IF a \notin Players /\ a = Keeper[s] THEN Evicted(t, s) ELSE t
  BY <1>1, <1>3 DEF Sleep
<1>6. Sound(talk', place, here)
  BY <1>2, <1>4, <1>5, EvictedSound DEF Settled
<1>7. BodySound'
  BY <1>a DEF Settled, BodySound
<1> QED BY <1>a, <1>6, <1>7 DEF Settled

\* A visitor is out of its huddle, and so of the index, before it is deleted.
LEMMA DepartStep == ASSUME Settled, NEW a \in Actors, Depart(a) PROVE Settled'
<1>a. /\ place' = place /\ rest' = rest /\ here' = here \ {a}
      /\ BodySound'
  BY DEF Depart, Settled, BodySound
<1>1. Sound(talk', place, here) /\ talk'.current[a] = NoHuddle
  <2>1. CASE talk.current[a] = NoHuddle
    BY <2>1 DEF Depart, Settled
  <2>2. CASE talk.current[a] # NoHuddle
    <3>1. PICK t : t = Leave(talk, a)
      OBVIOUS
    <3>2. Sound(t, place, here) /\ t.current[a] = NoHuddle
      BY <3>1, LeaveSound DEF Settled
    <3>t. t \in Talk
      BY <3>2 DEF Sound
    <3>3. PICK h, index : h = talk.current[a] /\ index = Unindexed(t.byHuddle, h, {a})
      OBVIOUS
    <3>4. h \in DOMAIN t.byHuddle => a \notin t.byHuddle[h] /\ t.byHuddle[h] # {}
      <4>1. h # NoHuddle
        BY <2>2, <3>3
      <4> QED BY <3>2, <3>t, <4>1, TalkTypes DEF Sound, Rostered
    <3>5. index = t.byHuddle
      <4>1. t.byHuddle \in [DOMAIN t.byHuddle -> Groups]
        BY <3>t, TalkParts, MapsElim
      <4> QED BY <3>3, <3>4, <4>1 DEF Unindexed
    <3>6. talk' = [t EXCEPT !.byHuddle = index]
      BY <2>2, <3>1, <3>3 DEF Depart
    <3>7. talk' = t
      BY <3>5, <3>6, <3>t DEF Talk
    <3> QED BY <3>2, <3>7
  <2> QED BY <2>1, <2>2
<1>2. Sound(talk', place, here')
  <2>1. \A x \in Actors : talk'.current[x] # NoHuddle /\ x \in here => x \in here'
    BY <1>a, <1>1
  <2> QED BY <1>1, <2>1, ThereSound
<1> QED BY <1>a, <1>2 DEF Settled

LEMMA SpawnStep == ASSUME Settled, NEW a \in Actors, Spawn(a) PROVE Settled'
<1>a. /\ talk' = talk /\ walk' = walk /\ here' = here \cup {a}
      /\ place' = [place EXCEPT ![a] = Road] /\ rest' = [rest EXCEPT ![a] = "up"]
      /\ a \notin here
  BY DEF Spawn
<1>1. talk.current[a] = NoHuddle
  <2>1. ASSUME talk.current[a] # NoHuddle PROVE FALSE
    <3>1. PICK h : h = talk.current[a]
      OBVIOUS
    <3>2. h \in DOMAIN talk.huddles
      BY <2>1, <3>1 DEF Settled, Sound, Rostered
    <3>3. a \in talk.huddles[h].members
      BY <3>1, <3>2 DEF Settled, Sound, Rostered
    <3> QED BY <1>a, <3>2, <3>3 DEF Settled, Sound, Rostered
  <2> QED BY <2>1
<1>2. \A x \in Actors : talk.current[x] # NoHuddle => place'[x] = place[x]
  BY <1>a, <1>1 DEF Settled, BodySound
<1>3. Sound(talk, place', here)
  BY <1>2, MovedSound DEF Settled
<1>4. \A x \in Actors : talk.current[x] # NoHuddle /\ x \in here => x \in here'
  BY <1>a
<1>5. Sound(talk, place', here')
  BY <1>3, <1>4, ThereSound
<1>6. BodySound'
  BY <1>a DEF Settled, BodySound, Places
<1> QED BY <1>a, <1>5, <1>6 DEF Settled

LEMMA FallSilentStep ==
    ASSUME Settled, NEW h \in HuddleIds, FallSilent(h) PROVE Settled'
<1>1. PICK q : q = TRUE
  OBVIOUS
<1>2. h \in DOMAIN talk.huddles /\ q \in BOOLEAN /\ talk' = [talk EXCEPT !.huddles[h].quiet = q]
  BY <1>1 DEF FallSilent
<1>3. Sound(talk', place, here)
  BY <1>2, QuietSound DEF Settled
<1> QED BY <1>3 DEF FallSilent, Settled, BodySound, body

\* The silence sweep and the loop sweep
LEMMA SweepStep ==
    ASSUME Settled, NEW D \in SUBSET DOMAIN talk.huddles, talk' = Conclude(talk, D),
           UNCHANGED body
    PROVE  Settled'
<1>1. Sound(talk', place, here)
  BY ConcludeSound DEF Settled
<1> QED BY <1>1 DEF Settled, BodySound, body

\* What a restart keeps of the scenes watches nothing.
LEMMA RestartStep == ASSUME Settled, Restart PROVE Settled'
<1>1. PICK saved \in SUBSET DOMAIN Cleared(talk.scenes) :
         talk' = [current |-> [a \in Actors |-> NoHuddle], huddles |-> Empty, byHuddle |-> Empty,
                  scenes |-> Only(Cleared(talk.scenes), saved), awaiting |-> {}]
  BY DEF Restart
<1>2. PICK scenes : scenes = Only(Cleared(talk.scenes), saved)
  OBVIOUS
<1>t. talk \in Talk /\ Followed(talk)
  BY DEF Settled, Sound
<1>3. \A c \in DOMAIN scenes : /\ c \in DOMAIN talk.scenes /\ c \in Structures
                               /\ scenes[c] = [talk.scenes[c] EXCEPT !.huddles = {}]
  <2>1. \A c \in DOMAIN scenes : /\ c \in DOMAIN talk.scenes /\ talk.scenes[c].bound \in Structures
                                 /\ scenes[c] = [talk.scenes[c] EXCEPT !.huddles = {}]
    BY <1>2 DEF Only, Cleared
  <2> QED BY <1>t, <2>1 DEF Followed
<1>4. ASSUME NEW c \in DOMAIN scenes
      PROVE  scenes[c] \in Scene /\ scenes[c].bound = c /\ scenes[c].huddles = {}
  <2>1. talk.scenes[c] \in Scene
    BY <1>3, <1>t, TalkTypes
  <2>2. scenes[c] = [talk.scenes[c] EXCEPT !.huddles = {}]
    BY <1>3
  <2>3. talk.scenes[c].bound = c
    BY <1>3, <1>t DEF Followed
  <2> QED BY <2>1, <2>2, <2>3 DEF Scene
<1>5. scenes \in Maps(SceneKeys, Scene)
  <2>1. scenes \in [DOMAIN scenes -> Scene]
    BY <1>2, <1>4 DEF Only
  <2>2. DOMAIN scenes \in SUBSET SceneKeys
    BY <1>3 DEF SceneKeys
  <2> QED BY <2>1, <2>2, MapsIntro
<1>6. talk' = Record([a \in Actors |-> NoHuddle], Empty, Empty, scenes, {})
  BY <1>1, <1>2 DEF Record
<1>7. talk' \in Talk
  <2>1. /\ [a \in Actors |-> NoHuddle] \in [Actors -> HuddleIds \cup {NoHuddle}]
        /\ Empty \in Maps(HuddleIds, Huddle) /\ Empty \in Maps(HuddleIds, Groups)
        /\ {} \in SUBSET (Actors \X Actors)
    BY EmptyMap
  <2> QED BY <1>5, <1>6, <2>1, TalkIs
<1>8. /\ talk'.current = [a \in Actors |-> NoHuddle] /\ talk'.awaiting = {}
      /\ DOMAIN talk'.huddles = {} /\ DOMAIN talk'.byHuddle = {} /\ talk'.scenes = scenes
  BY <1>6 DEF Record, Empty
<1>9. Rostered(talk', here') /\ Waits(talk') /\ Roofs(talk') /\ Present(talk', place')
  BY <1>8 DEF Rostered, Waits, Roofs, At, Present
<1>10. Followed(talk')
  BY <1>3, <1>4, <1>8 DEF Followed
<1>11. Sound(talk', place', here')
  BY <1>7, <1>9, <1>10 DEF Sound
<1>12. BodySound'
  BY DEF Restart, Settled, BodySound
<1> QED BY <1>11, <1>12 DEF Settled

LEMMA ActStep == ASSUME Settled, NEW a \in Actors, Act(a) PROVE Settled'
<1>1. CASE SpeakTo(a) \/ Trade(a)
  BY <1>1, SpeakToStep, TradeStep
<1>2. CASE Excuse(a) \/ EndTick(a)
  BY <1>2, LeaveStep DEF Excuse, EndTick
<1>3. CASE Step(a) \/ Arrive(a) \/ Sleep(a)
  BY <1>3, StepStep, ArriveStep, SleepStep
<1>4. CASE TakeBreak(a) \/ Wake(a)
  BY <1>4 DEF TakeBreak, Wake, Settled, BodySound
<1>5. CASE Depart(a) \/ Spawn(a)
  BY <1>5, DepartStep, SpawnStep
<1>6. CASE \E p \in Places : MoveActor(a, p) \/ SetPosition(a, p)
  BY <1>6, MoveActorStep, SetPositionStep
<1>7. CASE \E s \in Structures : KnockAtDoor(a, s)
  BY <1>7, KnockStep
<1> QED BY <1>1, <1>2, <1>3, <1>4, <1>5, <1>6, <1>7 DEF Act

LEMMA SettledStep == Settled /\ [Next]_vars => Settled'
<1> SUFFICES ASSUME Settled, [Next]_vars PROVE Settled'
  OBVIOUS
<1>1. CASE UNCHANGED vars
  BY <1>1 DEF vars, Settled, BodySound
<1>2. CASE \E a \in Actors : Act(a)
  BY <1>2, ActStep
<1>3. CASE \E h \in HuddleIds : FallSilent(h) \/ LoopSweep(h)
  <2>1. PICK h \in HuddleIds : FallSilent(h) \/ LoopSweep(h)
    BY <1>3
  <2>2. CASE FallSilent(h)
    BY <2>2, FallSilentStep
  <2>3. CASE LoopSweep(h)
    <3>1. PICK D : D = {h}
      OBVIOUS
    <3>2. D \in SUBSET DOMAIN talk.huddles /\ talk' = Conclude(talk, D) /\ UNCHANGED body
      BY <2>3, <3>1 DEF LoopSweep
    <3> QED BY <3>2, SweepStep
  <2> QED BY <2>1, <2>2, <2>3
<1>4. CASE SilenceSweep
  <2>1. Dormant \in SUBSET DOMAIN talk.huddles
    BY DEF Dormant
  <2> QED BY <1>4, <2>1, SweepStep DEF SilenceSweep
<1>5. CASE Restart
  BY <1>5, RestartStep
<1> QED BY <1>1, <1>2, <1>3, <1>4, <1>5 DEF Next

LEMMA SettledAlways == Spec => []Settled
BY SettledInit, SettledStep, PTL DEF Spec

----------------------------------------------------------------------------
(* The theorems *)

\* Member list, pointer and index agree and name actors that are in the world, whatever
\* order actors talk, walk, sleep, depart, are swept and are restarted in.
THEOREM OneRosterKept == Spec => []RosterSound
<1>1. Settled => RosterSound
  BY DEF Settled, BodySound, Sound, Rostered, RosterSound, OneRoster, TypeOK
<1> QED BY <1>1, SettledAlways, PTL

\* No two actors wait for one another, and no one waits for an actor it does not talk with.
THEOREM NoDeadlockedTurns == Spec => []TurnsSound
<1>1. Settled => TurnsSound
  BY DEF Settled, Sound, Waits, TurnsSound
<1> QED BY <1>1, SettledAlways, PTL

\* One conversation under a roof, observed by the scenes of its own place, its members there.
THEOREM TalksInPlace == Spec => []TalksPlaced
<1>1. ASSUME Settled PROVE TalksPlaced
  <2>1. OneTalkPerRoof
    BY <1>1 DEF Settled, Sound, Roofs, OneTalkPerRoof
  <2>2. ScenesFollow
    BY <1>1 DEF Settled, Sound, Followed, ScenesFollow
  <2>3. TalkersPresent
    BY <1>1 DEF Settled, Sound, Present, TalkersPresent
  <2> QED BY <2>1, <2>2, <2>3 DEF TalksPlaced
<1>2. Settled => TalksPlaced
  BY <1>1
<1> QED BY <1>2, SettledAlways, PTL

=============================================================================
