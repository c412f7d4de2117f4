------------------------------ MODULE LaborProofs ------------------------------
(***************************************************************************)
(* Proofs about Labor, for any number of workers, employers and ids.       *)
(*                                                                         *)
(* The records of a job are kept together by LaborInv.  To what the runs   *)
(* check it adds that a LaborID names a job of that very worker, that ids  *)
(* run ahead of the ledger, that the saved ledger holds accepted contracts *)
(* only, with one for everybody saved at work, and that a dead engine has  *)
(* in memory what it will load.                                            *)
(***************************************************************************)
EXTENDS Labor, TLAPS

USE PartiesAssumption, BoundsAssumption

----------------------------------------------------------------------------
(* The invariant *)

\* Ids that were given out lie behind the counter.
FreshInv == up => \A i \in DOMAIN ledger : i <= seq

MirrorInv ==
    /\ JobsMirrored
    /\ up => \A w \in Workers : body[w].job # 0 => ledger[body[w].job].worker = w

PaidInv == paid \cap In(ledger, Active) = {}

\* What is on disk can be resumed.
DiskInv ==
    /\ \A i \in DOMAIN disk.ledger : disk.ledger[i].state \in Accepted
    /\ OneEach(disk.ledger)
    /\ disk.paid \cap DOMAIN disk.ledger = {}
    /\ \A w \in Workers :
          /\ disk.body[w].job = 0
          /\ disk.body[w].state = "laboring" =>
                \E i \in In(disk.ledger, {"working"}) : disk.ledger[i].worker = w

DownInv == ~up => /\ ledger = disk.ledger /\ body = disk.body /\ paid = disk.paid
                  /\ due = {}

JobInv == OneEach(ledger) /\ MirrorInv /\ PaidInv

LaborInv == LaborTypeOK /\ FreshInv /\ JobInv /\ DiskInv /\ DownInv

\* What the steps leave alone is not disturbed.
LEMMA DiskKept == ASSUME DiskInv, UNCHANGED disk PROVE DiskInv'
BY DEF DiskInv, OneEach, In

----------------------------------------------------------------------------
(* What the operators make of a ledger *)

LEMMA StatesFacts ==
    /\ Accepted \subseteq Active /\ Pending \subseteq Active /\ Active \subseteq States
    /\ Accepted \cap Pending = {}
BY DEF Accepted, Active, Pending, States

LEMMA PutLedger ==
    ASSUME NEW led, IsLedger(led), NEW i \in Ids, NEW o \in Offer
    PROVE  /\ IsLedger(Put(led, i, o)) /\ DOMAIN Put(led, i, o) = DOMAIN led \cup {i}
           /\ Put(led, i, o)[i] = o
           /\ \A j \in DOMAIN led : j # i => Put(led, i, o)[j] = led[j]
BY DEF IsLedger, Put

LEMMA OnlyLedger ==
    ASSUME NEW led, IsLedger(led), NEW I
    PROVE  /\ IsLedger(Only(led, I)) /\ DOMAIN Only(led, I) = DOMAIN led \cap I
           /\ \A j \in DOMAIN led \cap I : Only(led, I)[j] = led[j]
BY DEF IsLedger, Only

\* The offers in I are in a new state; nothing else of the ledger differs.
Relabelled(I, state) ==
    /\ IsLedger(ledger') /\ DOMAIN ledger' = DOMAIN ledger
    /\ \A j \in DOMAIN ledger :
          /\ ledger'[j].worker = ledger[j].worker /\ ledger'[j].employer = ledger[j].employer
          /\ ledger'[j].state = IF j \in I THEN state ELSE ledger[j].state

LEMMA Relabel ==
    ASSUME IsLedger(ledger), NEW I, NEW state \in States,
           ledger' = [j \in DOMAIN ledger |->
                        IF j \in I THEN [ledger[j] EXCEPT !.state = state] ELSE ledger[j]]
    PROVE  Relabelled(I, state)
<1>1. \A j \in DOMAIN ledger : ledger[j] \in Offer
  BY DEF IsLedger
<1>2. DOMAIN ledger' = DOMAIN ledger
  OBVIOUS
<1>3. ASSUME NEW j \in DOMAIN ledger
      PROVE  /\ ledger'[j] \in Offer
             /\ ledger'[j].worker = ledger[j].worker /\ ledger'[j].employer = ledger[j].employer
             /\ ledger'[j].state = IF j \in I THEN state ELSE ledger[j].state
  BY <1>1 DEF Offer
<1>4. IsLedger(ledger')
  BY <1>2, <1>3 DEF IsLedger
<1> QED BY <1>2, <1>3, <1>4 DEF Relabelled

LEMMA Flips ==
    ASSUME IsLedger(ledger), NEW i \in DOMAIN ledger, NEW state \in States,
           ledger' = Flip(i, state)
    PROVE  Relabelled({i}, state)
<1>1. ledger' = [j \in DOMAIN ledger |->
                   IF j \in {i} THEN [ledger[j] EXCEPT !.state = state] ELSE ledger[j]]
  BY DEF Flip, IsLedger
<1> QED BY <1>1, Relabel

\* Work begins for the offers in I, one of a worker at most.
Begun(I) ==
    /\ Relabelled(I, "working")
    /\ body' \in [Workers -> Body]
    /\ \A w \in Workers :
          IF \E i \in I : ledger[i].worker = w
          THEN /\ body'[w].job \in I /\ ledger[body'[w].job].worker = w
               /\ body'[w].state = "laboring"
          ELSE body'[w] = body[w]

LEMMA Starts ==
    ASSUME LaborTypeOK, NEW I \in SUBSET DOMAIN ledger, StartLaborWork(I)
    PROVE  Begun(I)
<1>0. IsLedger(ledger) /\ body \in [Workers -> Body] /\ DOMAIN ledger \subseteq Ids
  BY DEF LaborTypeOK, IsLedger
<1>1. Relabelled(I, "working")
  BY <1>0, Relabel DEF StartLaborWork, States
<1>2. body' = [w \in Workers |->
                 IF \E i \in I : ledger[i].worker = w
                 THEN [body[w] EXCEPT !.state = "laboring",
                                      !.job = CHOOSE i \in I : ledger[i].worker = w]
                 ELSE body[w]]
  BY DEF StartLaborWork
<1>3. ASSUME NEW w \in Workers, \E i \in I : ledger[i].worker = w
      PROVE  /\ body'[w].job \in I /\ ledger[body'[w].job].worker = w
             /\ body'[w].state = "laboring" /\ body'[w] \in Body
  <2> DEFINE j == CHOOSE i \in I : ledger[i].worker = w
  <2>1. j \in I /\ ledger[j].worker = w
    BY <1>3
  <2>2. body'[w] = [body[w] EXCEPT !.state = "laboring", !.job = j]
    BY <1>2, <1>3
  <2>3. body[w] \in Body /\ j \in Ids
    BY <1>0, <2>1
  <2> HIDE DEF j
  <2>4. body'[w].job = j /\ body'[w].state = "laboring" /\ body'[w] \in Body
    BY <2>2, <2>3 DEF Body
  <2> QED BY <2>1, <2>4
<1>4. ASSUME NEW w \in Workers, ~\E i \in I : ledger[i].worker = w
      PROVE  body'[w] = body[w] /\ body'[w] \in Body
  BY <1>0, <1>2, <1>4
<1>5. body' \in [Workers -> Body]
  BY <1>2, <1>3, <1>4
<1> QED BY <1>1, <1>3, <1>4, <1>5 DEF Begun

----------------------------------------------------------------------------
(* Jobs *)

\* An offer that ends, or lets its worker walk, while it is no one's running job.
LEMMA JobsFlip ==
    ASSUME LaborInv, up, up', NEW i \in DOMAIN ledger, ledger[i].state \in Pending,
           NEW state \in States \ (Pending \cup {"working"}), Relabelled({i}, state),
           state \in Accepted => ~HasLiveJob(ledger[i].worker),
           body' = body, paid' = paid
    PROVE  JobInv'
<1>1. OneEach(ledger')
  BY DEF LaborInv, JobInv, OneEach, In, Relabelled, HasLiveJob, Of
<1>2. ledger[i].state # "working" /\ i \notin In(ledger, {"working"})
  BY DEF Pending, In
<1>3. \A j \in DOMAIN ledger : ledger'[j].state = "working" <=> ledger[j].state = "working"
  BY <1>2 DEF Relabelled
<1>4. In(ledger', {"working"}) = In(ledger, {"working"})
  BY <1>3 DEF In, Relabelled
<1>5. MirrorInv'
  BY <1>4 DEF LaborInv, JobInv, MirrorInv, JobsMirrored, In, Relabelled
<1>6. \A j \in DOMAIN ledger : ledger'[j].state \in Active => ledger[j].state \in Active
  BY StatesFacts DEF Relabelled
<1>7. PaidInv'
  BY <1>6 DEF LaborInv, JobInv, PaidInv, In, Relabelled
<1> QED BY <1>1, <1>5, <1>7 DEF JobInv

\* Jobs that begin: accepted ones, or a new one of a worker without a job.
LEMMA JobsBegin ==
    ASSUME LaborInv, up, up', NEW I \in SUBSET DOMAIN ledger, Begun(I), paid' = paid,
           \/ \A i \in I : ledger[i].state \in Accepted
           \/ \E i \in DOMAIN ledger :
                 I = {i} /\ ledger[i].state \in Pending /\ ~HasLiveJob(ledger[i].worker)
    PROVE  JobInv'
<1>0. Relabelled(I, "working")
  BY DEF Begun
<1>1. OneEach(ledger')
  BY <1>0 DEF LaborInv, JobInv, OneEach, In, Relabelled, HasLiveJob, Of, Accepted
<1>2. ASSUME NEW i \in In(ledger', {"working"}) PROVE body'[ledger'[i].worker].job = i
  <2>1. i \in DOMAIN ledger /\ ledger'[i].worker = ledger[i].worker /\ ledger[i].worker \in Workers
    BY <1>0 DEF In, Relabelled, LaborInv, LaborTypeOK, IsLedger, Offer
  <2> DEFINE w == ledger[i].worker
  <2>2. CASE \E j \in I : ledger[j].worker = w
    <3>1. body'[w].job \in I /\ ledger[body'[w].job].worker = w
      BY <2>1, <2>2 DEF Begun
    <3>2. body'[w].job \in In(ledger', Accepted) /\ i \in In(ledger', Accepted)
          /\ ledger'[body'[w].job].worker = w
      BY <1>0, <3>1 DEF In, Relabelled, Accepted
    <3> QED BY <1>1, <2>1, <3>2 DEF OneEach
  <2>3. CASE ~\E j \in I : ledger[j].worker = w
    <3>1. i \in In(ledger, {"working"})
      BY <1>0, <2>1, <2>3 DEF In, Relabelled
    <3> QED BY <2>1, <2>3, <3>1 DEF Begun, LaborInv, JobInv, MirrorInv, JobsMirrored
  <2> QED BY <2>2, <2>3
<1>3. ASSUME NEW w \in Workers
      PROVE  /\ body'[w].job # 0 => /\ body'[w].job \in In(ledger', {"working"})
                                    /\ ledger'[body'[w].job].worker = w
             /\ body'[w].state = "laboring" => body'[w].job # 0
  <2>1. CASE \E j \in I : ledger[j].worker = w
    <3>1. body'[w].job \in I /\ ledger[body'[w].job].worker = w
      BY <2>1 DEF Begun
    <3>2. body'[w].job # 0
      BY <3>1 DEF LaborInv, LaborTypeOK, IsLedger, Ids
    <3> QED BY <1>0, <3>1, <3>2 DEF In, Relabelled
  <2>2. CASE ~\E j \in I : ledger[j].worker = w
    <3>1. body'[w] = body[w]
      BY <2>2 DEF Begun
    <3>2. /\ body[w].job # 0 => /\ body[w].job \in In(ledger, {"working"})
                                /\ ledger[body[w].job].worker = w
          /\ body[w].state = "laboring" => body[w].job # 0
      BY DEF LaborInv, JobInv, MirrorInv, JobsMirrored
    <3> QED BY <1>0, <3>1, <3>2 DEF In, Relabelled
  <2> QED BY <2>1, <2>2
<1>4. MirrorInv'
  BY <1>2, <1>3 DEF MirrorInv, JobsMirrored
<1>5. \A j \in DOMAIN ledger : ledger'[j].state \in Active => ledger[j].state \in Active
  BY <1>0, StatesFacts DEF Relabelled, Accepted
<1>6. PaidInv'
  BY <1>0, <1>5 DEF LaborInv, JobInv, PaidInv, In, Relabelled
<1> QED BY <1>1, <1>4, <1>6 DEF JobInv

\* Rest changes what the workers do, never whose job it is.
LEMMA JobsRest ==
    ASSUME LaborInv, up' = up, ledger' = ledger, paid' = paid,
           \A w \in Workers : /\ body'[w].job = body[w].job
                              /\ body'[w].state = "laboring" => body[w].state = "laboring"
    PROVE  JobInv'
<1>1. OneEach(ledger)' /\ PaidInv'
  BY DEF LaborInv, JobInv, PaidInv, OneEach, In
<1>2. \A S : In(ledger, S)' = In(ledger, S)
  BY DEF In
<1>3. up => /\ \A i \in In(ledger, {"working"}) : body[ledger[i].worker].job = i
            /\ \A i \in In(ledger, {"working"}) : ledger[i].worker \in Workers
  BY DEF LaborInv, JobInv, MirrorInv, JobsMirrored, LaborTypeOK, IsLedger, Offer, In
<1>4. up => \A w \in Workers :
               /\ body[w].job # 0 => /\ body[w].job \in In(ledger, {"working"})
                                     /\ ledger[body[w].job].worker = w
               /\ body[w].state = "laboring" => body[w].job # 0
  BY DEF LaborInv, JobInv, MirrorInv, JobsMirrored
<1>5. MirrorInv'
  BY <1>2, <1>3, <1>4 DEF MirrorInv, JobsMirrored
<1> QED BY <1>1, <1>5 DEF JobInv

\* A new offer is under way to nothing yet.
LEMMA JobsMint ==
    ASSUME LaborInv, NEW w \in Workers, NEW e \in Employers,
           NEW state \in Pending \cup {"declined"}, Mint(w, e, state)
    PROVE  JobInv' /\ IsLedger(ledger') /\ FreshInv' /\ due' \subseteq In(ledger', Active)
<1> DEFINE o == [worker |-> w, employer |-> e, state |-> state]
<1>1. o \in Offer /\ o.worker = w /\ o.state = state /\ state \notin Accepted \cup {"working"}
  BY DEF Offer, States, Pending, Accepted
<1>2. /\ seq + 1 \in Ids /\ seq' = seq + 1 /\ seq \in Nat /\ IsLedger(ledger)
      /\ \A i \in DOMAIN ledger : i <= seq
  BY DEF Mint, LaborInv, FreshInv, LaborTypeOK, Ids
<1>3. seq + 1 \notin DOMAIN ledger
  BY <1>2 DEF IsLedger, Ids
<1>4. /\ IsLedger(ledger') /\ DOMAIN ledger' = DOMAIN ledger \cup {seq + 1}
      /\ ledger'[seq + 1] = o /\ \A j \in DOMAIN ledger : ledger'[j] = ledger[j]
  BY <1>1, <1>2, <1>3, PutLedger DEF Mint
<1> HIDE DEF o
<1>5. In(ledger', Accepted) = In(ledger, Accepted)
      /\ In(ledger', {"working"}) = In(ledger, {"working"})
  BY <1>1, <1>3, <1>4 DEF In
<1>6. OneEach(ledger')
  BY <1>4, <1>5 DEF LaborInv, JobInv, OneEach, In
<1>7. MirrorInv'
  BY <1>4, <1>5 DEF LaborInv, JobInv, MirrorInv, JobsMirrored, In, Mint, people, stored
<1>8. PaidInv'
  BY <1>4 DEF LaborInv, JobInv, PaidInv, In, Mint
<1>9. FreshInv'
  BY <1>2, <1>4 DEF FreshInv, IsLedger, Ids
<1>10. due' \subseteq In(ledger', Active)
  BY <1>4 DEF LaborInv, LaborTypeOK, In, Mint
<1> QED BY <1>4, <1>6, <1>7, <1>8, <1>9, <1>10 DEF JobInv
----------------------------------------------------------------------------
(* Steps *)

LEMMA LaborInitial == Init => LaborInv
<1> SUFFICES ASSUME Init PROVE LaborInv
  OBVIOUS
<1>1. DOMAIN ledger = {} /\ IsLedger(ledger) /\ DOMAIN Saved0.ledger = {} /\ IsLedger(Saved0.ledger)
  BY DEF Init, Saved0, IsLedger
<1>2. Idle \in Body /\ Idle.job = 0 /\ Idle.state = "idle"
  BY DEF Idle, Body
<1>3. \A S : In(ledger, S) = {}
  BY <1>1 DEF In
<1>4. LaborTypeOK
  BY <1>1, <1>2 DEF Init, LaborTypeOK, IsSaved, Saved0, Spot
<1>5. JobInv /\ FreshInv
  BY <1>1, <1>2, <1>3 DEF Init, JobInv, OneEach, MirrorInv, JobsMirrored, PaidInv, FreshInv
<1>6. DiskInv /\ DownInv
  BY <1>1, <1>2 DEF Init, DiskInv, DownInv, OneEach, In, Saved0
<1> QED BY <1>4, <1>5, <1>6 DEF LaborInv

LEMMA StepMint ==
    ASSUME LaborInv, NEW w \in Workers, NEW e \in Employers, SolicitWork(w, e) \/ OfferWork(w, e)
    PROVE  LaborInv'
<1> PICK state \in Pending \cup {"declined"} : Mint(w, e, state)
  BY DEF SolicitWork, OfferWork, Pending
<1>1. JobInv' /\ IsLedger(ledger') /\ FreshInv' /\ due' \subseteq In(ledger', Active)
  BY JobsMint
<1>2. UNCHANGED <<body, place, walk, home, disk, up, crashes>> /\ up /\ paid' \subseteq paid
      /\ seq' \in 0 .. MaxId
  BY DEF Mint, people, stored, LaborInv, LaborTypeOK
<1>3. LaborTypeOK'
  BY <1>1, <1>2 DEF LaborInv, LaborTypeOK
<1> QED BY <1>1, <1>2, <1>3, DiskKept DEF LaborInv, DownInv

\* What is still due after the offer i was answered is active.
LEMMA DueFlip ==
    ASSUME LaborInv, NEW I, NEW state, Relabelled(I, state), due' \subseteq due \ I
    PROVE  due' \subseteq In(ledger', Active)
BY DEF LaborInv, LaborTypeOK, In, Relabelled

LEMMA FreshFlip ==
    ASSUME LaborInv, NEW I, NEW state, Relabelled(I, state), up, up', seq' = seq
    PROVE  FreshInv'
BY DEF LaborInv, FreshInv, Relabelled

LEMMA StepAnswer ==
    ASSUME LaborInv, NEW i \in Ids, AcceptWork(i) \/ DeclineWork(i)
    PROVE  LaborInv'
<1>0. /\ up /\ up' /\ i \in DOMAIN ledger /\ ledger[i].state \in Pending /\ due' = due \ {i}
      /\ UNCHANGED <<seq, place, home, paid, disk, up, crashes>>
  BY DEF AcceptWork, DeclineWork, In, people, stored
<1>1. /\ IsLedger(ledger) /\ body \in [Workers -> Body] /\ walk \in [Workers -> Spot \cup {Still}]
      /\ ledger[i].worker \in Workers /\ ledger[i].employer \in Employers
  BY <1>0 DEF LaborInv, LaborTypeOK, IsLedger, Offer
<1> DEFINE w == ledger[i].worker
           e == ledger[i].employer
           Fine == /\ JobInv' /\ IsLedger(ledger') /\ FreshInv' /\ due' \subseteq In(ledger', Active)
                   /\ body' \in [Workers -> Body] /\ walk' \in [Workers -> Spot \cup {Still}]
<1>2. ASSUME NEW state \in {"declined", "expired", "failed"}, ledger' = Flip(i, state),
             body' = body, walk' = walk
      PROVE  Fine
  <2>1. state \in States \ (Pending \cup {"working"}) /\ state \notin Accepted
    BY DEF States, Pending, Accepted
  <2>2. Relabelled({i}, state)
    BY <1>0, <1>1, <1>2, <2>1, Flips
  <2>3. JobInv'
    BY <1>0, <1>2, <2>1, <2>2, JobsFlip
  <2>4. IsLedger(ledger') /\ FreshInv' /\ due' \subseteq In(ledger', Active)
    BY ZenonT(60), <1>0, <2>2, DueFlip, FreshFlip DEF Relabelled
  <2> QED BY <1>1, <1>2, <2>3, <2>4
<1>3. ASSUME StartLaborWork({i}), ~HasLiveJob(w), walk' = walk PROVE Fine
  <2>1. Begun({i})
    BY <1>0, <1>3, Starts DEF LaborInv
  <2>2. JobInv'
    BY <1>0, <1>3, <2>1, JobsBegin
  <2>3. IsLedger(ledger') /\ FreshInv' /\ due' \subseteq In(ledger', Active)
    <3>1. Relabelled({i}, "working")
      BY <2>1 DEF Begun
    <3>2. IsLedger(ledger')
      BY <3>1 DEF Relabelled
    <3> QED BY <1>0, <3>1, <3>2, DueFlip, FreshFlip
  <2> QED BY <1>1, <1>3, <2>1, <2>2, <2>3 DEF Begun
<1>4. ASSUME ledger' = Flip(i, "en_route"), ~HasLiveJob(w), SendTo(w, e), body' = body, e \in Posted
      PROVE  Fine
  <2>1. "en_route" \in States \ (Pending \cup {"working"})
    BY DEF States, Pending
  <2>2. Relabelled({i}, "en_route")
    BY <1>0, <1>1, <1>4, <2>1, Flips
  <2>3. JobInv'
    BY <1>0, <1>4, <2>1, <2>2, JobsFlip
  <2>4. IsLedger(ledger') /\ FreshInv' /\ due' \subseteq In(ledger', Active)
    BY ZenonT(60), <1>0, <2>2, DueFlip, FreshFlip DEF Relabelled
  <2>5. Inside(e) \in Spot /\ Door(e) \in Spot
    BY <1>4 DEF Inside, Door, Spot
  <2>6. walk' \in [Workers -> Spot \cup {Still}]
    BY <1>1, <1>4, <2>5 DEF SendTo
  <2> QED BY <1>1, <1>4, <2>3, <2>4, <2>6
<1>5. Fine
  <2>1. CASE DeclineWork(i)
    BY <2>1, <1>2 DEF DeclineWork, people
  <2>2. CASE AcceptWork(i)
    <3>1. \/ \E state \in {"expired", "failed"} : ledger' = Flip(i, state) /\ UNCHANGED <<body, walk>>
          \/ ~HasLiveJob(w) /\ Hire(i)
      BY <2>2 DEF AcceptWork
    <3>2. ASSUME ~HasLiveJob(w), Hire(i) PROVE Fine
      BY <1>3, <1>4, <3>2 DEF Hire
    <3> QED BY <1>2, <3>1, <3>2
  <2> QED BY <2>1, <2>2
<1>6. LaborTypeOK'
  BY <1>0, <1>5 DEF LaborInv, LaborTypeOK
<1> QED BY <1>0, <1>5, <1>6, DiskKept DEF LaborInv, DownInv

\* Those who arrive find their job, or are sent in to it.
LEMMA Arrivals ==
    ASSUME LaborInv, up, up', UNCHANGED <<seq, paid>>, NEW e \in Posted, NEW W, NEW spots,
           NEW present, NEW steps \in [Workers -> Spot \cup {Still}],
           Advance(e, W, spots, present, steps)
    PROVE  /\ JobInv' /\ IsLedger(ledger') /\ FreshInv' /\ due' \subseteq In(ledger', Active)
           /\ body' \in [Workers -> Body] /\ walk' \in [Workers -> Spot \cup {Still}]
<1>1. PICK begun \in SUBSET In(ledger, {"en_route"}) :
         /\ StartLaborWork(begun) /\ due' = due \ begun
         /\ \E sent : walk' = [w \in Workers |-> IF w \in sent THEN Inside(e) ELSE steps[w]]
  <2> DEFINE reached == {i \in Reached(e, spots) : ledger[i].worker \in W /\ present}
             begun == {i \in reached : spots[ledger[i].worker] = Inside(e)}
  <2>1. begun \in SUBSET In(ledger, {"en_route"})
    BY DEF Reached
  <2>2. /\ StartLaborWork(begun) /\ due' = due \ begun
        /\ \E sent : walk' = [w \in Workers |-> IF w \in sent THEN Inside(e) ELSE steps[w]]
    BY DEF Advance
  <2> HIDE DEF begun
  <2> QED BY <2>1, <2>2
<1>2. begun \in SUBSET DOMAIN ledger /\ \A i \in begun : ledger[i].state \in Accepted
  BY DEF In, Accepted
<1>3. Begun(begun)
  BY <1>1, <1>2, Starts DEF LaborInv
<1>4. JobInv'
  BY <1>2, <1>3, JobsBegin
<1>5. IsLedger(ledger') /\ FreshInv' /\ due' \subseteq In(ledger', Active)
  <2>1. Relabelled(begun, "working")
    BY <1>3 DEF Begun
  <2>2. IsLedger(ledger')
    BY <2>1 DEF Relabelled
  <2> QED BY <1>1, <2>1, <2>2, DueFlip, FreshFlip
<1>6. walk' \in [Workers -> Spot \cup {Still}]
  BY <1>1 DEF Inside, Spot
<1> QED BY <1>3, <1>4, <1>5, <1>6 DEF Begun

LEMMA StepArrive ==
    ASSUME LaborInv, NEW w \in Workers, Arrive(w)
    PROVE  LaborInv'
<1>0. /\ up /\ up' /\ walk[w] \in Spot /\ UNCHANGED <<seq, home, paid, disk, up, crashes>>
      /\ walk \in [Workers -> Spot \cup {Still}] /\ place \in [Workers -> Spot]
  BY DEF Arrive, stored, LaborInv, LaborTypeOK
<1> DEFINE steps == [walk EXCEPT ![w] = Still]
           spots == [place EXCEPT ![w] = walk[w]]
<1>1. steps \in [Workers -> Spot \cup {Still}] /\ spots \in [Workers -> Spot]
  BY <1>0
<1>2. \/ UNCHANGED <<ledger, due, body>> /\ walk' = steps /\ place' \in [Workers -> Spot]
      \/ /\ walk[w] # Away /\ Advance(walk[w].at, {w}, spots, walk[w].at \in home, steps)
         /\ place' \in [Workers -> Spot]
  BY <1>0, <1>1 DEF Arrive
<1> HIDE DEF steps, spots
<1>3. CASE UNCHANGED <<ledger, due, body>> /\ walk' = steps /\ place' \in [Workers -> Spot]
  <2>1. JobInv'
    BY <1>0, <1>3, JobsRest
  <2>2. LaborTypeOK'
    BY <1>0, <1>1, <1>3 DEF LaborInv, LaborTypeOK, In
  <2> QED BY <1>0, <1>3, <2>1, <2>2, DiskKept DEF LaborInv, FreshInv, DownInv
<1>4. CASE /\ walk[w] # Away /\ Advance(walk[w].at, {w}, spots, walk[w].at \in home, steps)
           /\ place' \in [Workers -> Spot]
  <2>1. walk[w].at \in Posted
    BY <1>0, <1>4 DEF Spot
  <2>2. /\ JobInv' /\ IsLedger(ledger') /\ FreshInv' /\ due' \subseteq In(ledger', Active)
        /\ body' \in [Workers -> Body] /\ walk' \in [Workers -> Spot \cup {Still}]
    BY <1>0, <1>1, <1>4, <2>1, Arrivals
  <2>3. LaborTypeOK'
    BY <1>0, <1>4, <2>2 DEF LaborInv, LaborTypeOK
  <2> QED BY <1>0, <2>2, <2>3, DiskKept DEF LaborInv, DownInv
<1> QED BY <1>2, <1>3, <1>4

LEMMA StepOwner ==
    ASSUME LaborInv, NEW e \in Employers, OwnerArrives(e)
    PROVE  LaborInv'
<1>0. /\ up /\ up' /\ e \in Posted /\ UNCHANGED <<seq, place, paid, disk, up, crashes>>
      /\ home' \subseteq Posted /\ walk \in [Workers -> Spot \cup {Still}]
  BY DEF OwnerArrives, stored, LaborInv, LaborTypeOK
<1>1. /\ JobInv' /\ IsLedger(ledger') /\ FreshInv' /\ due' \subseteq In(ledger', Active)
      /\ body' \in [Workers -> Body] /\ walk' \in [Workers -> Spot \cup {Still}]
  BY <1>0, Arrivals DEF OwnerArrives
<1>2. LaborTypeOK'
  BY <1>0, <1>1 DEF LaborInv, LaborTypeOK
<1> QED BY <1>0, <1>1, <1>2, DiskKept DEF LaborInv, DownInv

\* Steps that leave the ledger as it is: walking off, rest, deadlines, owners leaving.
LEMMA StepQuiet ==
    ASSUME LaborInv,
           \/ \E w \in Workers, spot \in Spot : Wander(w, spot)
           \/ \E w \in Workers : GoToRest(w) \/ EndRest(w)
           \/ \E i \in Ids : Lapse(i)
           \/ \E e \in Employers : OwnerLeaves(e)
           \/ UNCHANGED vars
    PROVE  LaborInv'
<1>0. UNCHANGED <<ledger, seq, place, paid, disk, up, crashes>>
  BY DEF Wander, GoToRest, EndRest, Lapse, OwnerLeaves, vars, people, stored
<1>1. body \in [Workers -> Body] /\ walk \in [Workers -> Spot \cup {Still}]
  BY DEF LaborInv, LaborTypeOK
<1>2. /\ body' \in [Workers -> Body]
      /\ \A w \in Workers : /\ body'[w].job = body[w].job
                            /\ body'[w].state = "laboring" => body[w].state = "laboring"
  <2>1. ASSUME NEW w \in Workers, NEW rest \in BOOLEAN, NEW state \in {"idle", "resting"},
               body' = [body EXCEPT ![w] = [@ EXCEPT !.rest = rest, !.state = state]]
        PROVE  /\ body' \in [Workers -> Body]
               /\ \A v \in Workers : /\ body'[v].job = body[v].job
                                     /\ body'[v].state = "laboring" => body[v].state = "laboring"
    <3>1. /\ [body[w] EXCEPT !.rest = rest, !.state = state] \in Body
          /\ [body[w] EXCEPT !.rest = rest, !.state = state].job = body[w].job
          /\ [body[w] EXCEPT !.rest = rest, !.state = state].state = state
      BY <1>1 DEF Body
    <3> QED BY <1>1, <2>1, <3>1
  <2> QED BY <1>1, <2>1 DEF Wander, GoToRest, EndRest, Lapse, OwnerLeaves, vars, people
<1>3. walk' \in [Workers -> Spot \cup {Still}] /\ home' \subseteq Posted
  <2>1. walk \in [Workers -> Spot \cup {Still}] /\ home \subseteq Posted
    BY DEF LaborInv, LaborTypeOK
  <2>2. CASE \E w \in Workers, spot \in Spot : Wander(w, spot)
    <3>1. PICK w \in Workers, spot \in Spot : walk' = [walk EXCEPT ![w] = spot] /\ home' = home
      BY <2>2 DEF Wander
    <3> QED BY <2>1, <3>1
  <2>3. CASE \E w \in Workers : GoToRest(w) \/ EndRest(w)
    <3>1. walk' = walk /\ home' = home
      BY <2>3 DEF GoToRest, EndRest
    <3> QED BY <2>1, <3>1
  <2>4. CASE \E i \in Ids : Lapse(i)
    BY <2>1, <2>4 DEF Lapse, people
  <2>5. CASE \E e \in Employers : OwnerLeaves(e)
    BY <2>1, <2>5 DEF OwnerLeaves
  <2>6. CASE UNCHANGED vars
    BY <2>1, <2>6 DEF vars, people
  <2> QED BY <2>2, <2>3, <2>4, <2>5, <2>6
<1>4. due' \subseteq In(ledger', Active) /\ (due' = due \/ up)
  BY <1>0 DEF LaborInv, LaborTypeOK, In, Wander, GoToRest, EndRest, Lapse, OwnerLeaves, vars
<1>5. body' = body \/ up
  BY DEF Wander, GoToRest, EndRest, Lapse, OwnerLeaves, vars, people
<1>6. JobInv'
  BY <1>0, <1>2, JobsRest
<1>7. LaborTypeOK'
  BY <1>0, <1>2, <1>3, <1>4 DEF LaborInv, LaborTypeOK
<1> QED BY <1>0, <1>4, <1>5, <1>6, <1>7, DiskKept DEF LaborInv, FreshInv, DownInv
\* What the sweep leaves of an offer.
LEMMA SweepFacts ==
    ASSUME LaborInv, EvaluateLaborLedgerSweep
    PROVE  /\ up /\ up' /\ due' = {} /\ IsLedger(ledger') /\ DOMAIN ledger' \subseteq DOMAIN ledger
           /\ \E wage \in SUBSET (due \cap In(ledger, {"working"})) :
                 /\ paid' = paid \cup wage
                 /\ \A i \in DOMAIN ledger' :
                       /\ ledger'[i].worker = ledger[i].worker
                       /\ i \notin due => ledger'[i] = ledger[i]
                       /\ i \in due => ledger'[i].state \notin Active
           /\ \A i \in DOMAIN ledger \ DOMAIN ledger' : ledger[i].state \notin Active
<1> DEFINE done == due \cap In(ledger, {"working"})
<1> PICK coins \in [Employers -> 0 .. Purse], gone \in SUBSET (DOMAIN ledger \ In(ledger, Active)) :
           LET wage == Payable(done, coins)
           IN  /\ due \cup gone # {}
               /\ ledger' = [i \in DOMAIN ledger \ gone |->
                               IF i \in due THEN [ledger[i] EXCEPT !.state = Swept(i, wage)]
                                            ELSE ledger[i]]
               /\ paid' = paid \cup wage
  BY DEF EvaluateLaborLedgerSweep
<1> DEFINE wage == Payable(done, coins)
<1>1. wage \in SUBSET done
  BY DEF Payable
<1>2. /\ ledger' = [i \in DOMAIN ledger \ gone |->
                      IF i \in due THEN [ledger[i] EXCEPT !.state = Swept(i, wage)]
                                   ELSE ledger[i]]
      /\ paid' = paid \cup wage
  OBVIOUS
<1> HIDE DEF wage
<1>3. \A i \in DOMAIN ledger : ledger[i] \in Offer
  BY DEF LaborInv, LaborTypeOK, IsLedger
<1>4. due \subseteq In(ledger, Active)
  BY DEF LaborInv, LaborTypeOK
<1>5. ASSUME NEW i \in due
      PROVE  Swept(i, wage) \in {"expired", "completed", "failed"}
  <2>1. ledger[i].state \in Active /\ (i \in wage => ledger[i].state = "working")
    BY <1>1, <1>4 DEF In
  <2>2. ledger[i].state \in Pending \/ ledger[i].state = "en_route" \/ ledger[i].state = "working"
    BY <2>1 DEF Active, Accepted
  <2> QED BY <2>1, <2>2 DEF Swept, Accepted, Pending
<1>6. DOMAIN ledger' = DOMAIN ledger \ gone
  BY <1>2
<1>7. ASSUME NEW i \in DOMAIN ledger'
      PROVE  /\ ledger'[i] \in Offer /\ ledger'[i].worker = ledger[i].worker
             /\ i \notin due => ledger'[i] = ledger[i]
             /\ i \in due => ledger'[i].state \notin Active
  <2>1. CASE i \in due
    <3>1. Swept(i, wage) \in States /\ Swept(i, wage) \notin Active
      BY <1>5, <2>1 DEF States, Active, Accepted, Pending
    <3>2. ledger'[i] = [ledger[i] EXCEPT !.state = Swept(i, wage)] /\ ledger[i] \in Offer
      BY <1>2, <1>3, <1>6, <2>1
    <3> QED BY <2>1, <3>1, <3>2 DEF Offer
  <2>2. CASE i \notin due
    BY <1>2, <1>3, <1>6, <2>2
  <2> QED BY <2>1, <2>2
<1>8. IsLedger(ledger')
  <2>1. DOMAIN ledger' \subseteq Ids
    BY <1>6 DEF LaborInv, LaborTypeOK, IsLedger
  <2>2. ledger' = [i \in DOMAIN ledger' |-> ledger'[i]]
    BY <1>2
  <2> QED BY <1>7, <2>1, <2>2 DEF IsLedger
<1>9. \A i \in DOMAIN ledger \ DOMAIN ledger' : ledger[i].state \notin Active
  BY <1>6 DEF In
<1>10. up /\ up' /\ due' = {}
  BY DEF EvaluateLaborLedgerSweep, stored
<1> QED BY <1>1, <1>2, <1>6, <1>7, <1>8, <1>9, <1>10

LEMMA StepSweep == LaborInv /\ EvaluateLaborLedgerSweep => LaborInv'
<1> SUFFICES ASSUME LaborInv, EvaluateLaborLedgerSweep PROVE LaborInv'
  OBVIOUS
<1> DEFINE done == due \cap In(ledger, {"working"})
<1> PICK wage \in SUBSET done :
           /\ paid' = paid \cup wage
           /\ \A i \in DOMAIN ledger' : /\ ledger'[i].worker = ledger[i].worker
                                        /\ i \notin due => ledger'[i] = ledger[i]
                                        /\ i \in due => ledger'[i].state \notin Active
  BY SweepFacts
<1>1. /\ up /\ up' /\ due' = {} /\ IsLedger(ledger') /\ DOMAIN ledger' \subseteq DOMAIN ledger
      /\ \A i \in DOMAIN ledger \ DOMAIN ledger' : ledger[i].state \notin Active
  BY SweepFacts
<1>2. UNCHANGED <<seq, place, walk, home, disk, crashes>>
  BY DEF EvaluateLaborLedgerSweep, stored
<1>3. body' = [w \in Workers |-> IF body[w].job \in done THEN Freed(body[w]) ELSE body[w]]
  BY DEF EvaluateLaborLedgerSweep
<1>4. /\ body \in [Workers -> Body] /\ paid \subseteq Ids /\ DOMAIN ledger \subseteq Ids
      /\ \A i \in DOMAIN ledger : ledger[i].worker \in Workers
  BY DEF LaborInv, LaborTypeOK, IsLedger, Offer
<1>5. \A S \in SUBSET Active : In(ledger', S) = In(ledger, S) \ due
  BY <1>1 DEF In
<1>6. /\ Accepted \in SUBSET Active /\ {"working"} \in SUBSET Active
      /\ \A i \in In(ledger', Active) : i \notin done
  BY <1>5 DEF Active, Accepted
<1>7. ASSUME NEW w \in Workers
      PROVE  /\ body'[w] \in Body
             /\ body[w].job \in done => body'[w].job = 0 /\ body'[w].state # "laboring"
             /\ body[w].job \notin done => body'[w] = body[w]
  <2>1. CASE body[w].job \in done
    <3>1. body'[w] = Freed(body[w]) /\ body[w] \in Body
      BY <1>3, <1>4, <2>1
    <3> QED BY <2>1, <3>1 DEF Freed, Body
  <2>2. CASE body[w].job \notin done
    BY <1>3, <1>4, <2>2
  <2> QED BY <2>1, <2>2
<1>8. body' \in [Workers -> Body]
  BY <1>3, <1>7
<1>9. OneEach(ledger')
  <2>1. In(ledger', Accepted) \subseteq In(ledger, Accepted)
    BY <1>5, <1>6
  <2>2. \A i \in In(ledger', Accepted) : ledger'[i].worker = ledger[i].worker
    BY DEF In
  <2> QED BY <2>1, <2>2 DEF LaborInv, JobInv, OneEach
<1>10. ASSUME NEW i \in In(ledger', {"working"}) PROVE body'[ledger'[i].worker].job = i
  <2>1. i \in In(ledger, {"working"}) /\ i \notin due
    BY <1>5, <1>6
  <2>2. ledger'[i].worker = ledger[i].worker /\ ledger[i].worker \in Workers
    BY <1>4, <2>1 DEF In
  <2>3. body[ledger[i].worker].job = i
    BY <1>1, <2>1 DEF LaborInv, JobInv, MirrorInv, JobsMirrored
  <2> QED BY <1>7, <2>1, <2>2, <2>3
<1>11. ASSUME NEW w \in Workers
       PROVE  /\ body'[w].job # 0 => /\ body'[w].job \in In(ledger', {"working"})
                                     /\ ledger'[body'[w].job].worker = w
              /\ body'[w].state = "laboring" => body'[w].job # 0
  <2>1. CASE body[w].job \in done
    BY <1>7, <2>1
  <2>2. CASE body[w].job \notin done
    <3>1. body'[w] = body[w]
      BY <1>7, <2>2
    <3>2. /\ body[w].job # 0 => /\ body[w].job \in In(ledger, {"working"})
                                /\ ledger[body[w].job].worker = w
          /\ body[w].state = "laboring" => body[w].job # 0
      BY <1>1 DEF LaborInv, JobInv, MirrorInv, JobsMirrored
    <3>3. body[w].job # 0 => body[w].job \in In(ledger', {"working"})
      BY <1>5, <1>6, <2>2, <3>2
    <3>4. In(ledger', {"working"}) \subseteq DOMAIN ledger'
      BY DEF In
    <3> QED BY <3>1, <3>2, <3>3, <3>4
  <2> QED BY <2>1, <2>2
<1>12. MirrorInv'
  BY <1>10, <1>11 DEF MirrorInv, JobsMirrored
<1>13. PaidInv'
  <2>1. In(ledger', Active) \subseteq In(ledger, Active)
    BY <1>5
  <2> QED BY <1>6, <2>1 DEF LaborInv, JobInv, PaidInv
<1>14. FreshInv'
  BY <1>1, <1>2 DEF LaborInv, FreshInv
<1>15. LaborTypeOK'
  <2>1. paid' \subseteq Ids
    BY <1>4 DEF In
  <2> QED BY <1>1, <1>2, <1>8, <2>1 DEF LaborInv, LaborTypeOK
<1> QED BY <1>1, <1>2, <1>9, <1>12, <1>13, <1>14, <1>15, DiskKept DEF LaborInv, JobInv, DownInv

----------------------------------------------------------------------------
(* What a restart finds *)

LEMMA StepCheckpoint == LaborInv /\ Checkpoint => LaborInv'
<1> SUFFICES ASSUME LaborInv, Checkpoint PROVE LaborInv'
  OBVIOUS
<1>1. /\ up /\ UNCHANGED <<ledger, seq, due, body, place, walk, home, paid, up, crashes>>
      /\ disk' = [ledger |-> Only(ledger, In(ledger, Accepted)), paid |-> paid,
                  body |-> [w \in Workers |-> [body[w] EXCEPT !.job = 0]]]
  BY DEF Checkpoint, Saved, people
<1> DEFINE led == Only(ledger, In(ledger, Accepted))
           bodies == [w \in Workers |-> [body[w] EXCEPT !.job = 0]]
<1>2. /\ IsLedger(led) /\ DOMAIN led = In(ledger, Accepted)
      /\ \A j \in In(ledger, Accepted) : led[j] = ledger[j]
  <2>1. IsLedger(ledger)
    BY DEF LaborInv, LaborTypeOK
  <2>2. DOMAIN ledger \cap In(ledger, Accepted) = In(ledger, Accepted)
    BY DEF In
  <2>3. /\ IsLedger(led) /\ DOMAIN led = DOMAIN ledger \cap In(ledger, Accepted)
        /\ \A j \in DOMAIN ledger \cap In(ledger, Accepted) : led[j] = ledger[j]
    BY <2>1, OnlyLedger
  <2> HIDE DEF led
  <2> QED BY <2>2, <2>3
<1>3. /\ bodies \in [Workers -> Body]
      /\ \A w \in Workers : bodies[w].job = 0 /\ bodies[w].state = body[w].state
  <2>1. body \in [Workers -> Body]
    BY DEF LaborInv, LaborTypeOK
  <2>2. \A w \in Workers : /\ [body[w] EXCEPT !.job = 0] \in Body
                           /\ [body[w] EXCEPT !.job = 0].job = 0
                           /\ [body[w] EXCEPT !.job = 0].state = body[w].state
    BY <2>1 DEF Body
  <2> QED BY <2>2
<1> HIDE DEF led, bodies
<1>4. disk' = [ledger |-> led, paid |-> paid, body |-> bodies]
  BY <1>1 DEF led, bodies
<1>5. disk'.ledger = led /\ disk'.paid = paid /\ disk'.body = bodies
  BY <1>4
<1>6. IsSaved(disk')
  BY <1>2, <1>3, <1>4, <1>5 DEF IsSaved, LaborInv, LaborTypeOK
<1>7. \A i \in DOMAIN led : led[i].state \in Accepted
  BY <1>2 DEF In
<1>8. OneEach(led)
  BY <1>2 DEF LaborInv, JobInv, OneEach, In
<1>9. paid \cap DOMAIN led = {}
  BY <1>2, StatesFacts DEF LaborInv, JobInv, PaidInv, In
<1>10. ASSUME NEW w \in Workers, body[w].state = "laboring"
       PROVE  \E i \in In(led, {"working"}) : led[i].worker = w
  <2>1. body[w].job \in In(ledger, {"working"}) /\ ledger[body[w].job].worker = w
    BY <1>1, <1>10 DEF LaborInv, JobInv, MirrorInv, JobsMirrored
  <2> QED BY <1>2, <2>1 DEF In, Accepted
<1>11. DiskInv'
  BY <1>3, <1>5, <1>7, <1>8, <1>9, <1>10 DEF DiskInv
<1>12. LaborTypeOK'
  BY <1>1, <1>6 DEF LaborInv, LaborTypeOK, In
<1>13. JobInv'
  BY <1>1, JobsRest
<1> QED BY <1>1, <1>11, <1>12, <1>13 DEF LaborInv, FreshInv, DownInv

LEMMA StepCrash == LaborInv /\ Crash => LaborInv'
<1> SUFFICES ASSUME LaborInv, Crash PROVE LaborInv'
  OBVIOUS
<1>1. /\ ~up' /\ ledger' = disk.ledger /\ paid' = disk.paid /\ body' = disk.body
      /\ seq' = 0 /\ due' = {} /\ UNCHANGED <<place, walk, home, disk>>
      /\ crashes < MaxCrashes /\ crashes' = crashes + 1 /\ up' \in BOOLEAN
  BY DEF Crash
<1>2. LaborTypeOK'
  BY <1>1 DEF LaborInv, LaborTypeOK, IsSaved
<1>3. JobInv'
  <2>1. OneEach(ledger')
    BY <1>1 DEF LaborInv, DiskInv
  <2>2. PaidInv'
    BY <1>1 DEF LaborInv, DiskInv, PaidInv, In
  <2> QED BY <1>1, <2>1, <2>2 DEF JobInv, MirrorInv, JobsMirrored
<1> QED BY <1>1, <1>2, <1>3, DiskKept DEF LaborInv, FreshInv, DownInv

LEMMA StepRestart == LaborInv /\ Restart => LaborInv'
<1> SUFFICES ASSUME LaborInv, Restart PROVE LaborInv'
  OBVIOUS
<1> DEFINE kept == Only(ledger, Kept(ledger))
           jobs(w) == Of(kept, w) \cap In(kept, {"working"})
<1>1. /\ ~up /\ up' /\ ledger' = kept /\ due' \in SUBSET DOMAIN kept
      /\ body' = [w \in Workers |->
            IF Of(kept, w) # {} /\ jobs(w) = {} THEN body[w] ELSE Resumed(body[w], jobs(w))]
      /\ seq' \in {n \in Floor(ledger) \cup {0} : \A i \in Floor(ledger) : i <= n}
      /\ UNCHANGED <<paid, disk, crashes>> /\ up' \in BOOLEAN
  BY DEF Restart
<1>2. /\ place' \in [Workers -> Spot] /\ walk' \in [Workers -> Spot \cup {Still}] /\ home' \subseteq Posted
  BY DEF Restart
<1>3. /\ IsLedger(ledger) /\ body \in [Workers -> Body] /\ \A w \in Workers : body[w].job = 0
      /\ \A i \in DOMAIN ledger : ledger[i].state \in Accepted /\ ledger[i].worker \in Workers
      /\ OneEach(ledger) /\ paid \cap DOMAIN ledger = {}
      /\ \A w \in Workers : body[w].state = "laboring" =>
            \E i \in In(ledger, {"working"}) : ledger[i].worker = w
  BY <1>1 DEF LaborInv, LaborTypeOK, DiskInv, DownInv, IsLedger, Offer
<1>4. Kept(ledger) \subseteq DOMAIN ledger
  BY DEF Kept, Usable
<1>5. /\ IsLedger(kept) /\ DOMAIN kept = Kept(ledger)
      /\ \A i \in Kept(ledger) : kept[i] = ledger[i]
  <2>1. DOMAIN ledger \cap Kept(ledger) = Kept(ledger)
    BY <1>4
  <2>2. /\ IsLedger(kept) /\ DOMAIN kept = DOMAIN ledger \cap Kept(ledger)
        /\ \A i \in DOMAIN ledger \cap Kept(ledger) : kept[i] = ledger[i]
    BY <1>3, OnlyLedger
  <2> HIDE DEF kept
  <2> QED BY <2>1, <2>2
<1>6. \A i \in In(ledger, {"working"}) :
         body[ledger[i].worker].state = "laboring" => i \in Kept(ledger)
  BY <1>3 DEF Kept, Usable, OneEach, In
<1> HIDE DEF kept
<1>7. \A w \in Workers : jobs(w) \subseteq DOMAIN kept
      /\ \A i \in jobs(w) : kept[i].worker = w /\ kept[i].state = "working"
  BY DEF Of, In
<1>8. ASSUME NEW w \in Workers, jobs(w) # {}
      PROVE  /\ body'[w] \in Body /\ body'[w].job \in jobs(w) /\ body'[w].job # 0
  <2> DEFINE job == CHOOSE i \in jobs(w) : TRUE
  <2>1. job \in jobs(w) /\ job \in Ids
    BY <1>5, <1>7, <1>8 DEF IsLedger
  <2>2. body'[w] = [body[w] EXCEPT !.job = job]
    BY <1>1, <1>8 DEF Resumed
  <2> HIDE DEF job
  <2> QED BY <1>3, <2>1, <2>2 DEF Body, Ids
<1>9. ASSUME NEW w \in Workers, jobs(w) = {}
      PROVE  body'[w] \in Body /\ body'[w].job = 0 /\ body'[w].state # "laboring"
  <2>1. body[w] \in Body /\ body[w].job = 0
    BY <1>3
  <2>2. CASE Of(kept, w) # {}
    <3>1. body'[w] = body[w]
      BY <1>1, <1>9, <2>2
    <3>2. ASSUME body[w].state = "laboring" PROVE FALSE
      <4>1. PICK i \in In(ledger, {"working"}) : ledger[i].worker = w
        BY <1>3, <3>2
      <4>2. i \in Kept(ledger)
        BY <1>6, <3>2, <4>1
      <4>3. i \in jobs(w)
        BY <1>5, <4>1, <4>2 DEF Of, In
      <4> QED BY <1>9, <4>3
    <3> QED BY <2>1, <3>1, <3>2
  <2>3. CASE Of(kept, w) = {}
    <3>1. body'[w] = [body[w] EXCEPT !.state = IF @ = "laboring" THEN "idle" ELSE @]
      BY <1>1, <1>9, <2>3 DEF Resumed
    <3> QED BY <2>1, <3>1 DEF Body
  <2> QED BY <2>2, <2>3
<1>10. body' \in [Workers -> Body]
  BY <1>1, <1>8, <1>9
<1>11. OneEach(kept)
  BY <1>3, <1>4, <1>5 DEF OneEach, In
<1>12. MirrorInv'
  <2>1. ASSUME NEW i \in In(kept, {"working"}) PROVE body'[kept[i].worker].job = i
    <3>1. kept[i].worker \in Workers /\ i \in jobs(kept[i].worker) /\ i \in DOMAIN kept
      BY <1>3, <1>4, <1>5 DEF In, Of
    <3>2. body'[kept[i].worker].job \in jobs(kept[i].worker)
      BY <1>8, <3>1
    <3>3. /\ body'[kept[i].worker].job \in In(kept, Accepted) /\ i \in In(kept, Accepted)
          /\ kept[body'[kept[i].worker].job].worker = kept[i].worker
      BY <1>7, <3>1, <3>2 DEF In, Accepted
    <3> QED BY <1>11, <3>3 DEF OneEach
  <2>2. ASSUME NEW w \in Workers
        PROVE  /\ body'[w].job # 0 => body'[w].job \in In(kept, {"working"}) /\ kept[body'[w].job].worker = w
               /\ body'[w].state = "laboring" => body'[w].job # 0
    BY <1>7, <1>8, <1>9 DEF In
  <2> QED BY <1>1, <2>1, <2>2 DEF MirrorInv, JobsMirrored
<1>13. JobInv'
  BY <1>1, <1>3, <1>4, <1>5, <1>11, <1>12 DEF JobInv, PaidInv, In
<1>14. FreshInv' /\ seq' \in 0 .. MaxId
  BY <1>1, <1>3, <1>4, <1>5 DEF FreshInv, Floor, IsLedger, Ids
<1>15. due' \subseteq In(ledger', Active)
  BY <1>1, <1>3, <1>4, <1>5, StatesFacts DEF In
<1>16. LaborTypeOK'
  BY <1>1, <1>2, <1>5, <1>10, <1>14, <1>15 DEF LaborInv, LaborTypeOK
<1> QED BY <1>1, <1>13, <1>14, <1>16, DiskKept DEF LaborInv, DownInv

LEMMA LaborStep == LaborInv /\ [Next]_vars => LaborInv'
<1> SUFFICES ASSUME LaborInv, [Next]_vars PROVE LaborInv'
  OBVIOUS
<1>1. ASSUME NEW w \in Workers, NEW e \in Employers, SolicitWork(w, e) \/ OfferWork(w, e)
      PROVE  LaborInv'
  BY <1>1, StepMint
<1>2. ASSUME NEW i \in Ids, AcceptWork(i) \/ DeclineWork(i) PROVE LaborInv'
  BY <1>2, StepAnswer
<1>3. ASSUME NEW w \in Workers, Arrive(w) PROVE LaborInv'
  BY <1>3, StepArrive
<1>4. ASSUME NEW e \in Employers, OwnerArrives(e) PROVE LaborInv'
  BY <1>4, StepOwner
<1>5. CASE \/ \E w \in Workers, spot \in Spot : Wander(w, spot)
           \/ \E w \in Workers : GoToRest(w) \/ EndRest(w)
           \/ \E i \in Ids : Lapse(i)
           \/ \E e \in Employers : OwnerLeaves(e)
           \/ UNCHANGED vars
  BY <1>5, StepQuiet
<1>6. CASE EvaluateLaborLedgerSweep \/ Checkpoint \/ Crash \/ Restart
  BY <1>6, StepSweep, StepCheckpoint, StepCrash, StepRestart
<1> QED BY <1>1, <1>2, <1>3, <1>4, <1>5, <1>6 DEF Next

\* A worker holds one job at a time, its LaborID and its contract agree through late
\* sweeps, rest, crashes and restarts, and so does what is saved of them.
THEOREM JobsAreSound == Spec => []LaborSound
<1>1. LaborInv => LaborSound
  BY DEF LaborInv, JobInv, MirrorInv, DiskInv, OneLiveJob, LaborSound
<1> QED BY <1>1, LaborInitial, LaborStep, PTL DEF Spec

\* A wage that was handed over is not owed again, whatever save a crash falls back to.
THEOREM WagesArePaidOnce == Spec => []NotOwedTwice
<1>1. LaborInv => NotOwedTwice
  BY DEF LaborInv, JobInv, PaidInv, DiskInv, NotOwedTwice
<1> QED BY <1>1, LaborInitial, LaborStep, PTL DEF Spec

\* A step that puts a worker inside e's place is an arrival, and one that HiredAt lets in.
LEMMA EnteringSteps ==
  ASSUME LaborInv, [Next]_vars, up, NEW e \in Posted, NEW w \in Workers,
         place'[w] = Inside(e), place[w] # Inside(e)
  PROVE  HiredAt(w, e)
<1>1. ASSUME NEW v \in Workers, Arrive(v) PROVE HiredAt(w, e)
  <2>1. MayWalkTo(v, walk[v]) /\ place' = [place EXCEPT ![v] = walk[v]]
    BY <1>1 DEF Arrive
  <2>2. place \in [Workers -> Spot]
    BY DEF LaborInv, LaborTypeOK
  <2>3. v = w /\ walk[v] = Inside(e)
    BY <2>1, <2>2
  <2>4. Inside(e) \in [at : Posted, inside : BOOLEAN] /\ Inside(e).inside /\ Inside(e).at = e
    BY DEF Inside
  <2> QED BY <2>1, <2>3, <2>4, AwayAssumption DEF MayWalkTo
<1>2. ASSUME UNCHANGED place PROVE FALSE
  BY <1>2
<1>3. CASE \/ \E v \in Workers, f \in Employers : SolicitWork(v, f) \/ OfferWork(v, f)
           \/ \E i \in Ids : AcceptWork(i) \/ DeclineWork(i) \/ Lapse(i)
           \/ \E v \in Workers, spot \in Spot : Wander(v, spot)
           \/ \E v \in Workers : GoToRest(v) \/ EndRest(v)
           \/ \E f \in Employers : OwnerArrives(f) \/ OwnerLeaves(f)
           \/ EvaluateLaborLedgerSweep \/ Checkpoint \/ Crash \/ UNCHANGED vars
  BY <1>2, <1>3 DEF SolicitWork, OfferWork, Mint, AcceptWork, DeclineWork, Lapse, Wander, GoToRest,
       EndRest, OwnerArrives, OwnerLeaves, EvaluateLaborLedgerSweep, Checkpoint, Crash, vars, people, stored
<1>4. CASE Restart
  BY <1>4 DEF Restart
<1> QED BY <1>1, <1>3, <1>4 DEF Next

\* Nobody is inside an owner-only place before its owner let the work begin or stands
\* there, however long the walk took.
THEOREM OwnersGoFirst == Spec => EntersBehindOwner
<1>1. LaborInv /\ [Next]_vars =>
        \A e \in Posted, w \in Workers :
          up /\ place'[w] = Inside(e) /\ place[w] # Inside(e)
             => \/ e \in home
                \/ \E i \in Of(ledger, w) : ledger[i].employer = e /\ ledger[i].state = "working"
  BY EnteringSteps DEF HiredAt
<1> QED BY <1>1, LaborInitial, LaborStep, PTL DEF Spec, EntersBehindOwner
=============================================================================
