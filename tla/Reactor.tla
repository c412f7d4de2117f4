------------------------------ MODULE Reactor ------------------------------
(***************************************************************************)
(* How the engine decides that an NPC thinks, and how that thought ends.   *)
(*                                                                         *)
(* Stimuli are stamped on an actor as warrants; the world goroutine scans  *)
(* the due actors (EvaluateReactors), turns an actor's open warrant cycle  *)
(* into a tick attempt and enqueues it; a pool worker runs the attempt     *)
(* against an LLM, outside the world, and sends CompleteReactorTick back.  *)
(*                                                                         *)
(* One command runs at a time on the world goroutine and the snapshot is   *)
(* republished after it, so a command is one action here, except the       *)
(* evaluation scan: it feeds the workers' channels as it goes, and they    *)
(* run while the snapshot still shows the world before the scan.           *)
(*                                                                         *)
(* Abstractions.  A warrant is a member of Warrants: its source event, its *)
(* Force flag, its lane and the class of its kind.  A pile of warrants is  *)
(* a set; the cap that drops the oldest drops any of the older ones.       *)
(* Clocks are left to chance: whenever the code compares now with          *)
(* WarrantDueAt, MaxWarrantAge, the reply cadence or a pacing gate (minimum*)
(* gap, eco, per-actor and per-agent rate, degeneracy, stale wake), either *)
(* answer is possible.                                                     *)
(***************************************************************************)
EXTENDS Naturals, Sequences, FiniteSets

CONSTANTS
    Actors,        \* the LLM-driven actors
    Workers,       \* goroutines of the tick pool
    Attempts,      \* tick attempt ids; an id nobody holds stands for a new one
    Sources,       \* keys of the events that stamp event-sourced warrants
    Warrants,      \* the warrants that may be stamped
    Unfinished,    \* the warrant of a turn that left intended tools unused
    Holds,         \* the sets of holds an actor may be under
    WarrantCap,    \* MaxWarrantsPerActor
    QueueCap,      \* capacity of each lane's channel
    MaxPlayerRun,  \* player jobs a worker takes in a row before looking at village
    NoAttempt, NoActor, NoSource

Lanes == {"player", "village"}

Kinds == {"wake",     \* need threshold, operator nudge, PC speech: pierces every pause
          "errand",   \* hired repair or hearth, return to post, pay offer: pierces labor
          "speech",   \* an NPC spoke: pierces labor and baking at the reply cadence
          "ambient",  \* low-information kinds
          "other"}

Warrant == [src : Sources \cup {NoSource}, force : BOOLEAN, kind : Kinds, lane : Lanes]

Pauses == {"asleep", "break", "labor", "bake", "source", "hushed"}

ASSUME WarrantsAssumption == Warrants \subseteq Warrant /\ Unfinished \in Warrants
ASSUME UnfinishedAssumption == Unfinished.src = NoSource
ASSUME HoldsAssumption == Holds \subseteq SUBSET Pauses /\ {} \in Holds
ASSUME CapsAssumption == /\ WarrantCap \in Nat \ {0}
                         /\ QueueCap \in Nat \ {0}
                         /\ MaxPlayerRun \in Nat \ {0}
ASSUME NullsAssumption == /\ NoAttempt \notin Attempts
                          /\ NoActor \notin Actors
                          /\ NoSource \notin Sources

Job == [actor : Actors, attempt : Attempts, warrants : SUBSET Warrants]

VARIABLES
    pending,     \* Actor.Warrants of the open cycle; {} when no cycle is open
    holds,       \* what the actor is in the middle of
    attempt,     \* TickAttemptID, NoAttempt when no tick is in flight
    inFlight,    \* inFlightSourceKeys
    recent,      \* recentlyConsumedSourceKeys younger than their TTL
    scan,        \* due actors the running evaluation has still to visit
    emitting,    \* the actor whose lane CanAdmit just answered for
    unpublished, \* attempts dispatched by the running evaluation
    queue,       \* the lanes' channels
    wpc,         \* where each worker is
    wjob,        \* the job it holds (a job of NoActor when none)
    wrun,        \* its playerRun, counted up to MaxPlayerRun
    wres,        \* the TickResult it is building
    stopping,    \* the pool was stopped and its context cancelled
    panicked     \* the enqueue found its channel full

actorVars == <<pending, attempt, inFlight, recent>>
scanVars == <<scan, emitting, unpublished>>
workerVars == <<wpc, wjob, wrun, wres>>
vars == <<actorVars, holds, scanVars, queue, workerVars, stopping, panicked>>

NoJob == [actor |-> NoActor, attempt |-> NoAttempt, warrants |-> {}]

Statuses == {"unknown", "success", "done", "budget", "failed_before", "failed_after",
             "skipped", "lagging", "stale", "shutdown"}

Result == [status : Statuses,
           carry : SUBSET Warrants,      \* UnaddressedWarrants
           shown : SUBSET Sources,       \* DischargedSourceKeys
           unfinished : BOOLEAN]         \* SkippedIntentTools is not empty

Outcome(status, carry, shown, unfinished) ==
    [status |-> status, carry |-> carry, shown |-> shown, unfinished |-> unfinished]

NoResult == Outcome("unknown", {}, {}, FALSE)

----------------------------------------------------------------------------
(* Warrants *)

Keys(W) == {w.src : w \in W} \ {NoSource}

HasForce(W) == \E w \in W : w.force
HasKind(W, K) == \E w \in W : w.kind \in K

\* Appending to a pile under the cap drops the oldest entries: nothing of the
\* new ones while an old one is left.
Capped(old, new) ==
    {kept \in SUBSET (old \cup new) :
        IF Cardinality(old \cup new) <= WarrantCap
        THEN kept = old \cup new
        ELSE /\ Cardinality(kept) = WarrantCap
             /\ new \subseteq kept \/ kept \subseteq new}

LaneOf(W) == IF \E w \in W : w.lane = "player" THEN "player" ELSE "village"

Declined(a, w) ==
    w.src # NoSource /\ w.src \in Keys(pending[a]) \cup inFlight[a] \cup recent[a]

----------------------------------------------------------------------------
(* The world goroutine: commands between two evaluations *)

Idle == scan = {} /\ emitting = NoActor /\ unpublished = {} /\ ~panicked

Stamp(a, w) ==
    /\ Idle /\ ~Declined(a, w)
    /\ \E pile \in Capped(pending[a], {w}) : pending' = [pending EXCEPT ![a] = pile]
    /\ UNCHANGED <<attempt, inFlight, recent, holds,
                   scanVars, queue, workerVars, stopping, panicked>>

\* Everything else the world does to an actor that the reactor looks at: it
\* sleeps, works, bakes, rests, is spoken over, and stops doing so.
ChangeHolds(a) ==
    /\ Idle
    /\ \E h \in Holds : h # holds[a] /\ holds' = [holds EXCEPT ![a] = h]
    /\ UNCHANGED <<actorVars, scanVars, queue, workerVars, stopping, panicked>>

Forget(a, k) ==
    /\ Idle /\ k \in recent[a]
    /\ recent' = [recent EXCEPT ![a] = @ \ {k}]
    /\ UNCHANGED <<pending, attempt, inFlight, holds,
                   scanVars, queue, workerVars, stopping, panicked>>

----------------------------------------------------------------------------
(* The world goroutine: EvaluateReactors *)

\* actorReactorDue, but for the clock.
ReactorDue(a) == pending[a] # {} /\ attempt[a] = NoAttempt

HeardSpeech(a) == HasKind(pending[a], {"speech"})

\* actorCanReactNow; cadence says that the actor's reply cadence has elapsed.
CanReact(a, cadence) ==
    /\ holds[a] \cap {"asleep", "hushed"} = {}
    /\ "source" \in holds[a] => HasKind(pending[a], {"wake"})
    /\ "bake" \in holds[a] =>
          HasKind(pending[a], {"wake"}) \/ (cadence /\ HeardSpeech(a))
    /\ "labor" \in holds[a] =>
          HasKind(pending[a], {"wake", "errand"}) \/ (cadence /\ HeardSpeech(a))
    /\ "break" \in holds[a] => HasKind(pending[a], {"wake"})

\* replyCadenceDeferUntil names a time: a worker or a baker heard speech.
AwaitsCadence(a) ==
    /\ holds[a] \cap {"asleep", "break"} = {} /\ holds[a] \cap {"labor", "bake"} # {}
    /\ HeardSpeech(a) /\ ~HasForce(pending[a])

\* Mutant: a full channel still admits.
MutCanAdmitFull(l) == ~stopping /\ Len(queue[l]) <= QueueCap

CanAdmit(l) == ~stopping /\ Len(queue[l]) < QueueCap

StartScan ==
    /\ Idle
    /\ scan' \in (SUBSET {a \in Actors : ReactorDue(a)}) \ {{}}
    /\ UNCHANGED <<actorVars, holds, emitting, unpublished, queue, workerVars,
                   stopping, panicked>>

Visiting(a) == a \in scan /\ emitting = NoActor

\* The scan moves on and the cycle waits for a later due time.
DeferCycle(a) ==
    /\ scan' = scan \ {a}
    /\ UNCHANGED <<actorVars, holds, emitting, unpublished, queue, workerVars,
                   stopping, panicked>>

\* The scan moves on and only `kept` of the cycle is left.
PruneCycle(a, kept) ==
    /\ scan' = scan \ {a}
    /\ pending' = [pending EXCEPT ![a] = kept]
    /\ UNCHANGED <<attempt, inFlight, recent, holds, emitting, unpublished, queue,
                   workerVars, stopping, panicked>>

\* An actor that cannot react keeps its cycle while it is young, or while only
\* its own cadence stands in the way; of a stale one the Force warrants stay.
Shelve(a) ==
    /\ Visiting(a)
    /\ \E cadence, stale \in BOOLEAN :
          /\ ~CanReact(a, cadence)
          /\ IF ~stale \/ (AwaitsCadence(a) /\ ~cadence)
             THEN DeferCycle(a)
             ELSE PruneCycle(a, {w \in pending[a] : w.force})

MayReact(a) == \E cadence \in BOOLEAN : CanReact(a, cadence)

\* The pacing gates: none holds a cycle with a Force warrant, and only the
\* shared agent's rate gate sheds a stale one.
Pace(a) ==
    /\ Visiting(a) /\ MayReact(a) /\ ~HasForce(pending[a])
    /\ DeferCycle(a) \/ PruneCycle(a, {})

AwaitRoom(a) ==
    /\ Visiting(a) /\ MayReact(a) /\ ~CanAdmit(LaneOf(pending[a]))
    /\ DeferCycle(a)

Admit(a) ==
    /\ Visiting(a) /\ MayReact(a) /\ CanAdmit(LaneOf(pending[a]))
    /\ emitting' = a
    /\ UNCHANGED <<actorVars, holds, scan, unpublished, queue, workerVars,
                   stopping, panicked>>

FreshAttempts ==
    Attempts \ ({attempt[a] : a \in Actors} \cup {wjob[w].attempt : w \in Workers}
                \cup UNION {{queue[l][i].attempt : i \in DOMAIN queue[l]} : l \in Lanes})

Emit(a) ==
    /\ emitting = a /\ a \in scan
    /\ \E x \in FreshAttempts :
        LET l == LaneOf(pending[a])
            job == [actor |-> a, attempt |-> x, warrants |-> pending[a]]
        IN  /\ attempt' = [attempt EXCEPT ![a] = x]
            /\ unpublished' = unpublished \cup {x}
            /\ IF Len(queue[l]) < QueueCap
               THEN queue' = [queue EXCEPT ![l] = Append(@, job)] /\ UNCHANGED panicked
               ELSE panicked' = TRUE /\ UNCHANGED queue
    /\ inFlight' = [inFlight EXCEPT ![a] = Keys(pending[a])]
    /\ pending' = [pending EXCEPT ![a] = {}]
    /\ holds' = [holds EXCEPT ![a] = @ \ {"break"}]
    /\ scan' = scan \ {a}
    /\ emitting' = NoActor
    /\ UNCHANGED <<recent, workerVars, stopping>>

Publish ==
    /\ scan = {} /\ emitting = NoActor /\ unpublished # {}
    /\ unpublished' = {}
    /\ UNCHANGED <<actorVars, holds, scan, emitting, queue, workerVars, stopping, panicked>>

----------------------------------------------------------------------------
(* The pool's workers *)

worldVars == <<actorVars, holds, scanVars, stopping, panicked>>

Goto(w, pc) == wpc' = [wpc EXCEPT ![w] = pc]

Take(w, l) ==
    /\ queue[l] # <<>>
    /\ wjob' = [wjob EXCEPT ![w] = Head(queue[l])]
    /\ queue' = [queue EXCEPT ![l] = Tail(@)]
    /\ wrun' = [wrun EXCEPT ![w] =
                  IF l = "village" THEN 0 ELSE IF @ = MaxPlayerRun THEN @ ELSE @ + 1]
    /\ Goto(w, "taken")
    /\ UNCHANGED <<worldVars, wres>>

PassOver(w, pc) == Goto(w, pc) /\ UNCHANGED <<worldVars, queue, wjob, wrun, wres>>

\* Mutant: the player lane always comes first.
MutPlayerAlwaysFirst(w) == FALSE

VillageFirst(w) == wrun[w] >= MaxPlayerRun

\* nextJob: three looks, each at the channels as they are then.
LookVillage(w) ==
    /\ wpc[w] = "next"
    /\ IF VillageFirst(w) /\ queue["village"] # <<>>
       THEN Take(w, "village") ELSE PassOver(w, "player")

LookPlayer(w) ==
    /\ wpc[w] = "player"
    /\ IF queue["player"] # <<>> THEN Take(w, "player") ELSE PassOver(w, "select")

\* Mutant: the blocking select does not watch the context.
MutSelectNoStop(w) == wpc[w] = "select" /\ \E l \in Lanes : Take(w, l)

Select(w) ==
    /\ wpc[w] = "select"
    /\ (\E l \in Lanes : Take(w, l)) \/ (stopping /\ PassOver(w, "down"))

\* The job of a worker that finds the pool stopped is abandoned.
CheckStop(w) ==
    /\ wpc[w] = "taken"
    /\ wres' = [wres EXCEPT ![w] = NoResult]
    /\ IF stopping
       THEN Goto(w, "down") /\ wjob' = [wjob EXCEPT ![w] = NoJob]
       ELSE Goto(w, "preflight") /\ UNCHANGED wjob
    /\ UNCHANGED <<worldVars, queue, wrun>>

Finish(w, status, carry) ==
    /\ wres' = [wres EXCEPT ![w] = Outcome(status, carry, @.shown, FALSE)]
    /\ Goto(w, "complete")
    /\ UNCHANGED <<worldVars, queue, wjob, wrun>>

\* The published snapshot is later than the command that dispatched the job.
SnapshotFresh(job) == job.attempt \notin unpublished

\* What the snapshot says of the actor's attempt.
SnapshotAttempt(a) == IF attempt[a] \in unpublished THEN NoAttempt ELSE attempt[a]

Preflight(w) ==
    LET job == wjob[w] IN
    /\ wpc[w] = "preflight"
    /\ \/ /\ SnapshotFresh(job) /\ SnapshotAttempt(job.actor) = job.attempt
          /\ PassOver(w, "render")
       \/ /\ SnapshotFresh(job) /\ SnapshotAttempt(job.actor) # job.attempt
          /\ Finish(w, "stale", job.warrants)
       \/ ~SnapshotFresh(job) /\ stopping /\ Finish(w, "shutdown", job.warrants)
       \/ ~SnapshotFresh(job) /\ ~stopping /\ Finish(w, "lagging", job.warrants)

\* shouldSkipNoop: nothing but low-information warrants, and nothing around to act on.
SkipNoop(w) ==
    /\ wpc[w] = "render"
    /\ \A x \in wjob[w].warrants : x.kind = "ambient" /\ ~x.force
    /\ Finish(w, "skipped", {})

\* The prompt may leave warrants out (they are carried) and may show stimuli
\* whose warrant this attempt did not consume (they are discharged).
Render(w) ==
    /\ wpc[w] = "render"
    /\ \E dropped \in SUBSET wjob[w].warrants, shown \in SUBSET Sources :
          wres' = [wres EXCEPT ![w] = Outcome("unknown", dropped, shown, FALSE)]
    /\ Goto(w, "ask")
    /\ UNCHANGED <<worldVars, queue, wjob, wrun>>

\* A response without a terminal tool: the turn goes on, within its budget.
Respond(w) == wpc[w] = "ask" /\ PassOver(w, "rounds")

LLMFails(w) ==
    /\ wpc[w] \in {"ask", "rounds"}
    /\ Finish(w, IF wpc[w] = "ask" THEN "failed_before" ELSE "failed_after", wres[w].carry)

Cancelled(w) ==
    wpc[w] \in {"ask", "rounds"} /\ stopping /\ Finish(w, "shutdown", wres[w].carry)

EndTurn(w) ==
    /\ wpc[w] \in {"ask", "rounds"}
    /\ \E status \in {"success", "done", "budget"}, unfinished \in BOOLEAN :
          wres' = [wres EXCEPT ![w] = Outcome(status, @.carry, @.shown, unfinished)]
    /\ Goto(w, "complete")
    /\ UNCHANGED <<worldVars, queue, wjob, wrun>>

----------------------------------------------------------------------------
(* CompleteReactorTick *)

\* Mutant: a skipped turn counts as not addressed.
MutAddressesNoSkip(status) == status \in {"success", "done", "budget", "failed_after"}

Addresses(status) == status \in {"success", "done", "budget", "failed_after", "skipped"}
Answered(status) == status \in {"success", "done", "budget"}

\* Keys the turn both showed and answered, the carried ones apart.
Discharged(res) == IF Answered(res.status) THEN res.shown \ Keys(res.carry) ELSE {}

\* Mutant: the carried keys are remembered too.
MutConsumedAll(a, res) == IF Addresses(res.status) THEN inFlight[a] \cup Discharged(res) ELSE {}

\* Keys that become recently consumed.
Consumed(a, res) ==
    IF Addresses(res.status)
    THEN (inFlight[a] \ Keys(res.carry)) \cup Discharged(res) ELSE {}

\* The pile after the carried warrants are reopened and the discharged ones leave.
Reopened(a, res) ==
    {{x \in pile : x.src \notin Discharged(res)} : pile \in Capped(pending[a], res.carry)}

Release(w) ==
    /\ wjob' = [wjob EXCEPT ![w] = NoJob]
    /\ wres' = [wres EXCEPT ![w] = NoResult]
    /\ Goto(w, "next")
    /\ UNCHANGED wrun

\* Mutant: the in-flight marker is left set.
MutSettleKeepsAttempt(a, res) ==
    /\ recent' = [recent EXCEPT ![a] = @ \cup Consumed(a, res)]
    /\ inFlight' = [inFlight EXCEPT ![a] = {}]
    /\ \E pile \in Reopened(a, res) : pending' = [pending EXCEPT ![a] = pile]
    /\ UNCHANGED attempt

\* applyTerminalWarrantPolicy, the end of the attempt, and the unfinished-intent
\* stamp: what a completion does to its actor.
Settle(a, res) ==
    /\ recent' = [recent EXCEPT ![a] = @ \cup Consumed(a, res)]
    /\ attempt' = [attempt EXCEPT ![a] = NoAttempt]
    /\ inFlight' = [inFlight EXCEPT ![a] = {}]
    /\ \E pile \in Reopened(a, res) :
          \E full \in IF res.unfinished /\ Addresses(res.status)
                      THEN Capped(pile, {Unfinished}) ELSE {pile} :
             pending' = [pending EXCEPT ![a] = full]

\* A completion whose attempt is not the actor's current one changes nothing.
Complete(w) ==
    /\ Idle /\ wpc[w] = "complete"
    /\ IF attempt[wjob[w].actor] = wjob[w].attempt
       THEN Settle(wjob[w].actor, wres[w])
       ELSE UNCHANGED <<pending, attempt, inFlight, recent>>
    /\ Release(w)
    /\ UNCHANGED <<holds, scanVars, queue, stopping, panicked>>

\* Mutant: the worker may give its completion up at any time.
MutCompleteGivesUp(w) == wpc[w] = "complete" /\ Release(w) /\ UNCHANGED <<worldVars, queue>>

\* SendContext gives up: the pool's context is cancelled.
CompleteLost(w) ==
    /\ stopping /\ wpc[w] = "complete"
    /\ Release(w)
    /\ UNCHANGED <<worldVars, queue>>

----------------------------------------------------------------------------
(* Shutdown and the next start *)

Stop ==
    /\ ~stopping /\ ~panicked
    /\ stopping' = TRUE
    /\ UNCHANGED <<actorVars, holds, scanVars, queue, workerVars, panicked>>

\* Nothing of the reactor is persisted: loading the world resets it.
Restart ==
    /\ Idle /\ stopping /\ \A w \in Workers : wpc[w] = "down"
    /\ pending' = [a \in Actors |-> {}]
    /\ attempt' = [a \in Actors |-> NoAttempt]
    /\ inFlight' = [a \in Actors |-> {}]
    /\ recent' = [a \in Actors |-> {}]
    /\ queue' = [l \in Lanes |-> <<>>]
    /\ wpc' = [w \in Workers |-> "next"]
    /\ wjob' = [w \in Workers |-> NoJob]
    /\ wrun' = [w \in Workers |-> 0]
    /\ wres' = [w \in Workers |-> NoResult]
    /\ stopping' = FALSE
    /\ UNCHANGED <<holds, scanVars, panicked>>

Init ==
    /\ pending = [a \in Actors |-> {}]
    /\ attempt = [a \in Actors |-> NoAttempt]
    /\ inFlight = [a \in Actors |-> {}]
    /\ recent = [a \in Actors |-> {}]
    /\ queue = [l \in Lanes |-> <<>>]
    /\ wpc = [w \in Workers |-> "next"]
    /\ wjob = [w \in Workers |-> NoJob]
    /\ wrun = [w \in Workers |-> 0]
    /\ wres = [w \in Workers |-> NoResult]
    /\ stopping = FALSE
    /\ holds \in [Actors -> Holds]
    /\ scan = {} /\ emitting = NoActor /\ unpublished = {}
    /\ panicked = FALSE

Evaluate(a) == Shelve(a) \/ Pace(a) \/ AwaitRoom(a) \/ Admit(a) \/ Emit(a)

WorkerStep(w) ==
    \/ LookVillage(w) \/ LookPlayer(w) \/ Select(w) \/ CheckStop(w)
    \/ Preflight(w) \/ SkipNoop(w) \/ Render(w) \/ Respond(w) \/ LLMFails(w)
    \/ Cancelled(w) \/ EndTurn(w) \/ Complete(w) \/ CompleteLost(w)

Environment(a) ==
    \/ \E w \in Warrants : Stamp(a, w)
    \/ ChangeHolds(a)
    \/ \E k \in Sources : Forget(a, k)

Next ==
    \/ \E a \in Actors : Environment(a) \/ Evaluate(a)
    \/ StartScan \/ Publish \/ Stop \/ Restart
    \/ \E w \in Workers : WorkerStep(w)

Spec == Init /\ [][Next]_vars

\* A worker goroutine keeps running and its LLM call ends within the client's
\* timeout; the world goroutine finishes its scan; a command waiting on the
\* world's channel is received in turn although other commands keep coming.
FairSpec ==
    /\ Spec
    /\ \A w \in Workers :
          /\ WF_vars(WorkerStep(w))
          /\ SF_vars(Complete(w))
    /\ WF_vars(Publish \/ \E a \in Actors : Evaluate(a))

----------------------------------------------------------------------------
(* Properties *)

TypeOK ==
    /\ pending \in [Actors -> SUBSET Warrants]
    /\ holds \in [Actors -> SUBSET Pauses]
    /\ attempt \in [Actors -> Attempts \cup {NoAttempt}]
    /\ inFlight \in [Actors -> SUBSET Sources]
    /\ recent \in [Actors -> SUBSET Sources]
    /\ scan \subseteq Actors
    /\ emitting \in Actors \cup {NoActor}
    /\ unpublished \subseteq Attempts
    /\ queue \in [Lanes -> Seq(Job)]
    /\ wpc \in [Workers -> {"next", "player", "select", "taken", "preflight", "render",
                            "ask", "rounds", "complete", "down"}]
    /\ wjob \in [Workers -> Job \cup {NoJob}]
    /\ wrun \in [Workers -> 0 .. MaxPlayerRun]
    /\ wres \in [Workers -> Result]
    /\ stopping \in BOOLEAN
    /\ panicked \in BOOLEAN

\* A stimulus is owed once: it is not in two places of an actor's memory (the
\* open pile, the attempt in flight, the recently consumed) and no two warrants
\* of a pile carry the same one.  Stamping, carrying forward and discharging
\* keep the three apart only together.
StimulusOwedOnce ==
    \A a \in Actors :
        /\ \A x, y \in pending[a] : x.src = y.src /\ x.src # NoSource => x = y
        /\ Keys(pending[a]) \cap inFlight[a] = {}
        /\ Keys(pending[a]) \cap recent[a] = {}
        /\ inFlight[a] \cap recent[a] = {}

Busy(w) == wjob[w].actor # NoActor

\* Every job that exists, queued or in a worker's hands, is the current attempt
\* of its actor, and no actor has two: the stale-completion branch and the
\* stale-snapshot branch are for what cannot happen.
JobsCurrent ==
    /\ \A l \in Lanes : \A i \in DOMAIN queue[l] :
          queue[l][i].attempt = attempt[queue[l][i].actor]
    /\ \A w \in Workers : Busy(w) => wjob[w].attempt = attempt[wjob[w].actor]
    /\ \A l, m \in Lanes : \A i \in DOMAIN queue[l], j \in DOMAIN queue[m] :
          queue[l][i].actor = queue[m][j].actor => l = m /\ i = j
    /\ \A w \in Workers, l \in Lanes : \A i \in DOMAIN queue[l] :
          wjob[w].actor # queue[l][i].actor
    /\ \A v, w \in Workers : Busy(v) /\ wjob[v].actor = wjob[w].actor => v = w

\* Until the pool stops, an actor marked in flight has a job that will unmark
\* it: nothing else clears TickInFlight, so without one it never thinks again.
InFlightBacked ==
    \A a \in Actors : attempt[a] # NoAttempt /\ ~stopping =>
        \/ \E l \in Lanes : \E i \in DOMAIN queue[l] : queue[l][i].actor = a
        \/ \E w \in Workers : wjob[w].actor = a

\* The jobs and the actors' in-flight markers tell the same story.
JobsSound == JobsCurrent /\ InFlightBacked

\* The world goroutine never meets the full channel it panics on, whatever the
\* workers and Stop do between CanAdmit and the enqueue.
AdmissionSafe == ~panicked /\ \A l \in Lanes : Len(queue[l]) <= QueueCap

\* No attempt is given up because the snapshot it looked at predates it: the
\* wait for a snapshot later than the dispatch excludes it.
SnapshotShowsAttempt == \A w \in Workers : wres[w].status # "stale"

\* The hand-over of a job: it finds room on its channel, and the snapshot its worker
\* looks at knows of it.
HandOverSafe == AdmissionSafe /\ SnapshotShowsAttempt

\* When a completion lands, each stimulus its attempt consumed is owed again or
\* remembered as consumed, unless the pile is at its cap, or the attempt ended
\* without the model having answered.
Unanswered == {"failed_before", "shutdown"}

CompletionAccounts ==
    [][\A w \in Workers :
          LET a == wjob[w].actor IN
          Busy(w) /\ attempt[a] # NoAttempt /\ attempt'[a] = NoAttempt /\ ~stopping =>
             \/ inFlight[a] \subseteq Keys(pending'[a]) \cup recent'[a]
             \/ Cardinality(pending'[a]) >= WarrantCap
             \/ wres[w].status \in Unanswered]_vars

\* What applyTerminalWarrantPolicy's comment says of those two statuses: the
\* whole consumed set is carried forward.
UnansweredCarriedForward ==
    [][\A w \in Workers :
          LET a == wjob[w].actor IN
          /\ Busy(w) /\ attempt[a] # NoAttempt /\ attempt'[a] = NoAttempt
          /\ wres[w].status \in Unanswered
          => inFlight[a] \subseteq Keys(pending'[a])]_vars

\* What EvaluateReactors' comment says of Force warrants: they survive shelving.
ForceSurvivesShelving ==
    [][\A a \in Actors :
          "asleep" \in holds[a] /\ attempt[a] = NoAttempt /\ ~stopping =>
             \A x \in pending[a] : x.force => x \in pending'[a]]_vars

\* An attempt ends, whatever the LLM does, unless the pool is stopped first.
AttemptEnds == \A a \in Actors : attempt[a] # NoAttempt ~> attempt[a] = NoAttempt \/ stopping

Queued(a, l) == \E i \in DOMAIN queue[l] : queue[l][i].actor = a

\* A village job is reached however many player jobs keep coming.
VillageServed == \A a \in Actors : Queued(a, "village") ~> ~Queued(a, "village") \/ stopping

\* Wait returns: after Stop every worker leaves.
PoolDrains == stopping ~> \A w \in Workers : wpc[w] = "down"
=============================================================================
