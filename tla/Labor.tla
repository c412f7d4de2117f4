------------------------------- MODULE Labor -------------------------------
(***************************************************************************)
(* Work for pay: an offer of labor, the walk to the workplace, the job and *)
(* its wage, and what a restart leaves of them.                            *)
(*                                                                         *)
(* Either side mints an offer, the other one answers.  Nothing is escrowed *)
(* : the wage moves when the sweep settles the finished job.  That a       *)
(* worker is busy is recorded three times, in the ledger, in the worker's  *)
(* LaborID and in its State, and only parts of it are saved.               *)
(*                                                                         *)
(* Abstractions.  How many wages an employer can cover is asked anew at    *)
(* every command, as what it holds drifts.  due holds the offers whose     *)
(* present deadline is past (ExpiresAt, EnRouteDeadline, WorkingUntil);    *)
(* how long a resolved offer is retained is left open.  An owner-only      *)
(* workplace with an interior is a door and an inside; every other spot is *)
(* Away.  Who shares a huddle is left to chance among those that may hear  *)
(* each other.  A break and a night's sleep are one rest: what opens and   *)
(* closes them differs.                                                    *)
(***************************************************************************)
EXTENDS Integers, FiniteSets

CONSTANTS
    Workers,     \* actors that carry AttrWorker
    Employers,   \* actors that can pay for work
    Posted,      \* the employers with a WorkStructureID
    Away,        \* anywhere but at a workplace
    Still,       \* no MoveIntent
    MaxId,       \* bound: ids of offers
    Purse,       \* bound: wages an employer can cover
    MaxCrashes   \* bound: crashes

ASSUME PartiesAssumption == /\ IsFiniteSet(Workers) /\ IsFiniteSet(Employers)
                            /\ Posted \subseteq Employers
ASSUME AwayAssumption == Away \notin [at : Posted, inside : BOOLEAN]
ASSUME BoundsAssumption == MaxId \in Nat /\ Purse \in Nat /\ MaxCrashes \in Nat

VARIABLES
    ledger,   \* World.LaborLedger
    seq,      \* laborLedgerSeq
    due,      \* offers whose present deadline is past
    body,     \* per worker: State, LaborID, open rest window
    place,    \* per worker: where it stands
    walk,     \* per worker: its MoveIntent
    home,     \* the employers present at their own workplace
    paid,     \* ids of the offers whose wage was handed over
    disk,     \* labor_contract rows and the actors saved with them
    up,       \* the engine runs
    crashes

people == <<body, place, walk, home>>
stored == <<disk, up, crashes>>
vars == <<ledger, seq, due, people, paid, stored>>

Ids == 1 .. MaxId
Pending == {"solicited", "offered"}   \* InitiatedBy is read of a pending offer only
States == Pending \cup {"en_route", "working", "completed", "declined", "expired", "failed"}
Accepted == {"en_route", "working"}
Active == Accepted \cup Pending

Offer == [worker : Workers, employer : Employers, state : States]
IsLedger(led) == /\ DOMAIN led \subseteq Ids
                 /\ led = [i \in DOMAIN led |-> led[i]]
                 /\ \A i \in DOMAIN led : led[i] \in Offer

Body == [state : {"idle", "laboring", "resting"},
         job : Ids \cup {0},
         rest : BOOLEAN]                \* BreakUntil or SleepingUntil is set
Spot == {Away} \cup [at : Posted, inside : BOOLEAN]

Put(led, i, o) == [j \in DOMAIN led \cup {i} |-> IF j = i THEN o ELSE led[j]]
Only(led, I) == [j \in DOMAIN led \cap I |-> led[j]]
In(led, S) == {i \in DOMAIN led : led[i].state \in S}
Of(led, w) == {i \in DOMAIN led : led[i].worker = w}

Door(e) == [at |-> e, inside |-> FALSE]
Inside(e) == [at |-> e, inside |-> TRUE]

\* Mutant: a job past its window does not occupy the worker any more.
MutHasLiveJob(w) == (Of(ledger, w) \cap In(ledger, Accepted)) \ due # {}

HasLiveJob(w) == Of(ledger, w) \cap In(ledger, Accepted) # {}

\* The offer w has yet to answer, or to get an answer to.
Bargains(w) == (Of(ledger, w) \cap In(ledger, Pending)) \ due
Asks(e) == {i \in In(ledger, {"offered"}) \ due : ledger[i].employer = e}

\* Within earshot: an owner at its post hears who is at the door or inside.
Together(w, e) == /\ walk[w] = Still
                  /\ IF e \in home THEN place[w] \in {Door(e), Inside(e)}
                                   ELSE place[w] # Inside(e)

\* Mutant: an accepted job opens the workplace at once.
MutHiredAt(w, e) == \E i \in Of(ledger, w) \cap In(ledger, Accepted) : ledger[i].employer = e

\* The labor leg of structureMembershipAllows.
HiredAt(w, e) == \E i \in Of(ledger, w) : /\ ledger[i].employer = e
                                          /\ \/ ledger[i].state = "working"
                                             \/ ledger[i].state = "en_route" /\ e \in home

----------------------------------------------------------------------------
(* Offers and answers *)

Mint(w, e, state) ==
    /\ up /\ seq < MaxId /\ seq' = seq + 1
    /\ Together(w, e) /\ ~HasLiveJob(w) /\ Bargains(w) = {}
    /\ ledger' = Put(ledger, seq + 1, [worker |-> w, employer |-> e, state |-> state])
    /\ due' = due /\ paid' = paid \ {seq + 1}
    /\ UNCHANGED <<people, stored>>

\* Whom nobody can pay, not even in kind, is refused on the spot; an employer with
\* goods to barter is left alone.
SolicitWork(w, e) == \E state \in {"solicited", "declined"} : Mint(w, e, state)

OfferWork(w, e) == Asks(e) = {} /\ Mint(w, e, "offered")

Flip(i, state) == [ledger EXCEPT ![i].state = state]

\* The worker's walk to the job: inside if the owner is there, else to the door.
\* A walk that cannot start leaves the offer to its deadline.
SendTo(w, e) ==
    \/ walk' = [walk EXCEPT ![w] = IF e \in home THEN Inside(e) ELSE Door(e)]
    \/ walk' = walk

AtWork(w, e) == e \in home /\ place[w] = Inside(e)

StartLaborWork(I) ==
    /\ ledger' = [j \in DOMAIN ledger |->
                    IF j \in I THEN [ledger[j] EXCEPT !.state = "working"] ELSE ledger[j]]
    /\ body' = [w \in Workers |->
                  IF \E i \in I : ledger[i].worker = w
                  THEN [body[w] EXCEPT !.state = "laboring",
                                       !.job = CHOOSE i \in I : ledger[i].worker = w]
                  ELSE body[w]]

Hire(i) ==
    LET w == ledger[i].worker  e == ledger[i].employer
    IN  IF e \notin Posted \/ AtWork(w, e)
        THEN StartLaborWork({i}) /\ UNCHANGED walk
        ELSE ledger' = Flip(i, "en_route") /\ SendTo(w, e) /\ UNCHANGED body

\* From the TTL on, a gate that fails resolves the offer: "sound" when both still
\* are in the huddle it was made in and the employer can cover the wage.
AcceptWork(i) ==
    /\ up /\ i \in In(ledger, Pending)
    /\ LET w == ledger[i].worker  e == ledger[i].employer
       IN  \E sound \in BOOLEAN :
             /\ sound => Together(w, e)
             /\ CASE i \in due -> ledger' = Flip(i, "expired") /\ UNCHANGED <<body, walk>>
                  [] i \notin due /\ sound /\ ~HasLiveJob(w) -> Hire(i)
                  [] OTHER -> ledger' = Flip(i, "failed") /\ UNCHANGED <<body, walk>>
    /\ due' = due \ {i}
    /\ UNCHANGED <<seq, place, home, paid, stored>>

DeclineWork(i) ==
    /\ up /\ i \in In(ledger, Pending)
    /\ ledger' = Flip(i, "declined") /\ due' = due \ {i}
    /\ UNCHANGED <<seq, people, paid, stored>>

----------------------------------------------------------------------------
(* Walking, and the arrivals that start the job *)

\* A member walks in; whoever is not hired here may come to the door.
MayWalkTo(w, spot) == spot # Away /\ spot.inside => HiredAt(w, spot.at)

\* Walking off wakes a sleeper, but ends no break.
Wander(w, spot) ==
    /\ up /\ spot # place[w] /\ MayWalkTo(w, spot)
    /\ walk' = [walk EXCEPT ![w] = spot]
    /\ \/ body' = body
       \/ body[w].rest /\ body' = [body EXCEPT ![w] = [@ EXCEPT !.rest = FALSE, !.state = "idle"]]
    /\ UNCHANGED <<ledger, seq, due, place, home, paid, stored>>

\* The hired whom spots puts at the workplace of e.
Reached(e, spots) == {i \in In(ledger, {"en_route"}) :
                        ledger[i].employer = e /\ spots[ledger[i].worker] \in {Door(e), Inside(e)}}

\* advanceEnRouteOffer for the arrivers W: with the owner there, the job of who is
\* inside begins and who stands at the door is sent in.
Advance(e, W, spots, present, steps) ==
    LET reached == {i \in Reached(e, spots) : ledger[i].worker \in W /\ present}
        begun == {i \in reached : spots[ledger[i].worker] = Inside(e)}
        called == {ledger[i].worker : i \in reached \ begun}
    IN  /\ StartLaborWork(begun) /\ due' = due \ begun
        /\ \E sent \in SUBSET called :
              walk' = [w \in Workers |-> IF w \in sent THEN Inside(e) ELSE steps[w]]

\* The tick re-checks the entry before the step that arrives.
Arrive(w) ==
    /\ up /\ walk[w] # Still
    /\ LET steps == [walk EXCEPT ![w] = Still]
           spots == [place EXCEPT ![w] = walk[w]]
       IN  IF ~MayWalkTo(w, walk[w])
           THEN walk' = steps /\ UNCHANGED <<ledger, due, body, place>>
           ELSE /\ place' = spots
                /\ IF walk[w] = Away
                   THEN walk' = steps /\ UNCHANGED <<ledger, due, body>>
                   ELSE Advance(walk[w].at, {w}, spots, walk[w].at \in home, steps)
    /\ UNCHANGED <<seq, home, paid, stored>>

OwnerArrives(e) ==
    /\ up /\ e \in Posted \ home
    /\ home' = home \cup {e}
    /\ Advance(e, Workers, place, TRUE, walk)
    /\ UNCHANGED <<seq, place, paid, stored>>

OwnerLeaves(e) ==
    /\ up /\ e \in home
    /\ home' = home \ {e}
    /\ UNCHANGED <<ledger, seq, due, body, place, walk, paid, stored>>

----------------------------------------------------------------------------
(* Rest *)

\* Neither going to rest nor waking asks whether the worker is on a job.
GoToRest(w) ==
    /\ up /\ ~body[w].rest
    /\ body' = [body EXCEPT ![w] = [@ EXCEPT !.rest = TRUE, !.state = "resting"]]
    /\ UNCHANGED <<ledger, seq, due, place, walk, home, paid, stored>>

EndRest(w) ==
    /\ up /\ body[w].rest
    /\ body' = [body EXCEPT ![w] = [@ EXCEPT !.rest = FALSE, !.state = "idle"]]
    /\ UNCHANGED <<ledger, seq, due, place, walk, home, paid, stored>>

----------------------------------------------------------------------------
(* The sweep *)

\* Of the jobs that are done, in id order, those their employer can pay.
Payable(done, coins) ==
    {i \in done : Cardinality({j \in done : j <= i /\ ledger[j].employer = ledger[i].employer})
                     <= coins[ledger[i].employer]}

\* Mutant: an accepted offer whose worker never came has no end.
MutSwept(i, wage) ==
    LET s == ledger[i].state
    IN  CASE s \in Pending -> "expired"
          [] s = "working" /\ i \in wage -> "completed"
          [] s = "working" /\ i \notin wage -> "failed"
          [] OTHER -> s

Swept(i, wage) ==
    LET s == ledger[i].state
    IN  CASE s \in Pending -> "expired"
          [] s = "working" /\ i \in wage -> "completed"
          [] s \in Accepted /\ i \notin wage -> "failed"
          [] OTHER -> s

Freed(b) == [b EXCEPT !.job = 0, !.state = IF @ = "laboring" THEN "idle" ELSE @]

EvaluateLaborLedgerSweep ==
    LET done == due \cap In(ledger, {"working"})
    IN  /\ up
        /\ due' = {}
        /\ UNCHANGED <<seq, place, walk, home, stored>>
        /\ \E coins \in [Employers -> 0 .. Purse],
              gone \in SUBSET (DOMAIN ledger \ In(ledger, Active)) :   \* reapTerminalLaborOffers
             LET wage == Payable(done, coins)
             IN  /\ due \cup gone # {}
                 /\ ledger' = [i \in DOMAIN ledger \ gone |->
                                 IF i \in due THEN [ledger[i] EXCEPT !.state = Swept(i, wage)]
                                              ELSE ledger[i]]
                 /\ paid' = paid \cup wage
        /\ body' = [w \in Workers |-> IF body[w].job \in done THEN Freed(body[w]) ELSE body[w]]

\* A deadline passes.
Lapse(i) ==
    /\ up /\ i \in In(ledger, Active) \ due /\ due' = due \cup {i}
    /\ UNCHANGED <<ledger, seq, people, paid, stored>>

----------------------------------------------------------------------------
(* Checkpoint, crash, restart *)

\* Mutant: the rows of contracts that ended are not deleted.
MutSaved(old, new) == [new EXCEPT !.ledger = [i \in DOMAIN old.ledger \cup DOMAIN new.ledger |->
                          IF i \in DOMAIN new.ledger THEN new.ledger[i] ELSE old.ledger[i]]]

Saved(old, new) == new

\* One transaction saves what the world was at one instant; a save that comes late
\* or fails changes only which instant a crash falls back to.  (Bound: none is saved
\* in the last life, which no crash ends.)
Checkpoint ==
    /\ up /\ crashes < MaxCrashes
    /\ disk' = Saved(disk, [ledger |-> Only(ledger, In(ledger, Accepted)),
                            paid |-> paid,
                            body |-> [w \in Workers |-> [body[w] EXCEPT !.job = 0]]])
    /\ UNCHANGED <<ledger, seq, due, people, paid, up, crashes>>

Crash ==
    /\ up /\ crashes < MaxCrashes
    /\ up' = FALSE /\ crashes' = crashes + 1
    /\ ledger' = disk.ledger /\ paid' = disk.paid /\ body' = disk.body
    /\ seq' = 0 /\ due' = {}
    /\ UNCHANGED <<place, walk, home, disk>>

\* Contracts FinalizeLoad keeps: a job whose worker was saved at work, and no
\* worker's second one.  People are never deleted here, so none lost its worker or
\* employer.
Usable(led) ==
    {i \in DOMAIN led : led[i].state = "working" => body[led[i].worker].state = "laboring"}
Kept(led) ==
    {i \in Usable(led) : \A j \in Usable(led) : led[j].worker = led[i].worker => j = i}

Floor(led) == DOMAIN led

\* A worker's LaborID is set again; one saved at work without a contract is idle.
Resumed(b, jobs) ==
    IF jobs # {} THEN [b EXCEPT !.job = CHOOSE i \in jobs : TRUE]
                 ELSE [b EXCEPT !.state = IF @ = "laboring" THEN "idle" ELSE @]

\* Where people are when the engine is back, and which deadlines passed
\* meanwhile, is left open.
Restart ==
    /\ ~up /\ up' = TRUE
    /\ LET kept == Only(ledger, Kept(ledger))
           jobs(w) == Of(kept, w) \cap In(kept, {"working"})
       IN  /\ ledger' = kept
           /\ body' = [w \in Workers |->
                 IF Of(kept, w) # {} /\ jobs(w) = {} THEN body[w] ELSE Resumed(body[w], jobs(w))]
           /\ due' \in SUBSET DOMAIN kept
    /\ seq' \in {n \in Floor(ledger) \cup {0} : \A i \in Floor(ledger) : i <= n}
    /\ home' \in SUBSET Posted
    /\ place' \in [Workers -> Spot] /\ walk' \in [Workers -> {Still}]
    /\ UNCHANGED <<paid, disk, crashes>>

----------------------------------------------------------------------------

Idle == [state |-> "idle", job |-> 0, rest |-> FALSE]
Saved0 == [ledger |-> [i \in {} |-> {}], paid |-> {},
           body |-> [w \in Workers |-> Idle]]

Init ==
    /\ ledger = [i \in {} |-> {}] /\ seq = 0 /\ due = {} /\ paid = {}
    /\ body = [w \in Workers |-> Idle]
    /\ place = [w \in Workers |-> Away] /\ walk = [w \in Workers |-> Still]
    /\ home \in SUBSET Posted
    /\ disk = Saved0 /\ up = TRUE /\ crashes = 0

Next ==
    \/ \E w \in Workers, e \in Employers : SolicitWork(w, e) \/ OfferWork(w, e)
    \/ \E i \in Ids : AcceptWork(i) \/ DeclineWork(i) \/ Lapse(i)
    \/ \E w \in Workers, spot \in Spot : Wander(w, spot)
    \/ \E w \in Workers : Arrive(w) \/ GoToRest(w) \/ EndRest(w)
    \/ \E e \in Employers : OwnerArrives(e) \/ OwnerLeaves(e)
    \/ EvaluateLaborLedgerSweep
    \/ Checkpoint \/ Crash \/ Restart

Spec == Init /\ [][Next]_vars

\* Time passes, the sweep re-arms itself, a dead engine is restarted.
FairSpec ==
    /\ Spec
    /\ \A i \in Ids : WF_vars(Lapse(i))
    /\ WF_vars(EvaluateLaborLedgerSweep) /\ WF_vars(Restart)

----------------------------------------------------------------------------
(* Properties *)

IsSaved(s) ==
    /\ s = [ledger |-> s.ledger, paid |-> s.paid, body |-> s.body]
    /\ IsLedger(s.ledger) /\ s.paid \subseteq Ids
    /\ s.body \in [Workers -> Body]

\* Every variable keeps to its type.
LaborTypeOK ==
    /\ IsLedger(ledger) /\ seq \in 0 .. MaxId /\ due \subseteq In(ledger, Active)
    /\ body \in [Workers -> Body]
    /\ place \in [Workers -> Spot] /\ walk \in [Workers -> Spot \cup {Still}]
    /\ home \subseteq Posted /\ paid \subseteq Ids
    /\ IsSaved(disk) /\ up \in BOOLEAN /\ crashes \in 0 .. MaxCrashes

OneEach(led) ==
    \A i, j \in In(led, Accepted) : led[i].worker = led[j].worker => i = j

\* A worker holds one job at a time, however late the sweep settles the last one
\* (workerHasLiveJob), and so does the saved ledger.
OneLiveJob == OneEach(ledger) /\ OneEach(disk.ledger)

\* The records of a running job agree: the worker's LaborID names it, and nobody
\* labors without one ("StateLaboring is always paired with a non-zero LaborID").
JobsMirrored ==
    up => /\ \A i \in In(ledger, {"working"}) : body[ledger[i].worker].job = i
          /\ \A w \in Workers : /\ body[w].job # 0 => body[w].job \in In(ledger, {"working"})
                                /\ body[w].state = "laboring" => body[w].job # 0

\* Contracts and bodies together, over well-typed state.
LaborSound == LaborTypeOK /\ OneLiveJob /\ JobsMirrored

\* A wage that was handed over is never owed again, also not after a crash:
\* the contract and the coins are saved as of one instant.
NotOwedTwice == /\ paid \cap In(ledger, Active) = {}
                /\ disk.paid \cap DOMAIN disk.ledger = {}

\* A hired worker steps into an owner-only workplace behind its owner, even if the
\* owner left while the worker walked: "never enter ahead of the owner".
EntersBehindOwner ==
    [][\A e \in Posted, w \in Workers :
          up /\ place'[w] = Inside(e) /\ place[w] # Inside(e)
             => \/ e \in home
                \/ \E i \in Of(ledger, w) : ledger[i].employer = e /\ ledger[i].state = "working"]_vars

\* Every accepted job ends, through owners that never show, rest and restarts.
JobsEnd == \A i \in Ids : i \in In(ledger, Accepted) ~> i \notin In(ledger, Accepted)

\* What is saved of a job agrees with what is saved of its worker: "actor +
\* contract are written in the SAME SaveWorld Tx, so they agree by construction".
SavedAgree ==
    \A i \in In(disk.ledger, {"working"}) : disk.body[disk.ledger[i].worker].state = "laboring"
=============================================================================
