--------------------------- MODULE ReactorProofs ---------------------------
(***************************************************************************)
(* What Reactor guarantees for any number of actors, workers and warrants. *)
(***************************************************************************)
EXTENDS Reactor, FiniteSetTheorems, TLAPS

USE WarrantsAssumption, UnfinishedAssumption, CapsAssumption, NullsAssumption,
    HoldsAssumption

\* Appending under the cap adds nothing that was not there or appended.
LEMMA CappedSubset ==
    ASSUME NEW old, NEW new, NEW kept \in Capped(old, new)
    PROVE  kept \subseteq old \cup new
BY DEF Capped

\* The keys of a pile are sources.
LEMMA KeysType ==
    ASSUME NEW P \in SUBSET Warrants
    PROVE  Keys(P) \subseteq Sources
BY DEF Keys, Warrant

\* What a completion may leave pending is a pile of the model's warrants.
LEMMA ReopenedType ==
    ASSUME TypeOK, NEW a \in Actors, NEW res \in Result, NEW pile \in Reopened(a, res)
    PROVE  pile \subseteq Warrants
<1>1. PICK kept \in Capped(pending[a], res.carry) :
          pile = {x \in kept : x.src \notin Discharged(res)}
  BY DEF Reopened
<1>2. pending[a] \subseteq Warrants /\ res.carry \subseteq Warrants
  BY DEF TypeOK, Result
<1> QED BY <1>1, <1>2, CappedSubset

\* A completion keeps the actor's memory within its types.
LEMMA SettleType ==
    ASSUME TypeOK, NEW a \in Actors, NEW res \in Result, Settle(a, res)
    PROVE  /\ pending' \in [Actors -> SUBSET Warrants]
           /\ attempt' \in [Actors -> Attempts \cup {NoAttempt}]
           /\ inFlight' \in [Actors -> SUBSET Sources]
           /\ recent' \in [Actors -> SUBSET Sources]
<1>1. Consumed(a, res) \subseteq Sources
  BY DEF Consumed, Discharged, Result, TypeOK
<1>2. PICK pile \in Reopened(a, res) : \E full :
          /\ pending' = [pending EXCEPT ![a] = full]
          /\ full = pile \/ full \in Capped(pile, {Unfinished})
  BY DEF Settle
<1>3. PICK full :
          /\ pending' = [pending EXCEPT ![a] = full]
          /\ full = pile \/ full \in Capped(pile, {Unfinished})
  BY <1>2
<1>4. full \subseteq Warrants
  BY <1>3, ReopenedType, CappedSubset
<1> QED BY <1>1, <1>3, <1>4 DEF Settle, TypeOK

LEMMA OutcomeType ==
    ASSUME NEW status \in Statuses, NEW carry \in SUBSET Warrants,
           NEW shown \in SUBSET Sources, NEW unfinished \in BOOLEAN
    PROVE  Outcome(status, carry, shown, unfinished) \in Result
BY DEF Outcome, Result

LEMMA NoResultType == NoResult \in Result
BY OutcomeType DEF NoResult, Statuses

\* Taking a job from a lane keeps the types.
LEMMA TakeType ==
    ASSUME TypeOK, NEW w \in Workers, NEW l \in Lanes, Take(w, l)
    PROVE  TypeOK'
<1>1. Head(queue[l]) \in Job /\ Tail(queue[l]) \in Seq(Job)
  BY DEF Take, TypeOK
<1>2. queue' \in [Lanes -> Seq(Job)] /\ wjob' \in [Workers -> Job \cup {NoJob}]
  BY <1>1 DEF Take, TypeOK
<1>3. wrun' \in [Workers -> 0 .. MaxPlayerRun]
  BY DEF Take, TypeOK
<1>4. wpc' \in [Workers -> {"next", "player", "select", "taken", "preflight", "render",
                            "ask", "rounds", "complete", "down"}]
  BY DEF Take, Goto, TypeOK
<1> QED BY <1>2, <1>3, <1>4 DEF Take, TypeOK, worldVars, actorVars, scanVars

\* Moving a worker on, with or without a result, keeps the types.
LEMMA PassOverType ==
    ASSUME TypeOK, NEW w \in Workers,
           NEW pc \in {"next", "player", "select", "taken", "preflight", "render",
                       "ask", "rounds", "complete", "down"},
           PassOver(w, pc)
    PROVE  TypeOK'
BY DEF PassOver, Goto, TypeOK, worldVars, actorVars, scanVars

LEMMA FinishType ==
    ASSUME TypeOK, NEW w \in Workers, NEW status \in Statuses,
           NEW carry \in SUBSET Warrants, Finish(w, status, carry)
    PROVE  TypeOK'
<1>0. wres[w].shown \in SUBSET Sources
  BY DEF TypeOK, Result
<1>1. wres' \in [Workers -> Result]
  BY <1>0, OutcomeType DEF Finish, TypeOK
<1>2. wpc' \in [Workers -> {"next", "player", "select", "taken", "preflight", "render",
                            "ask", "rounds", "complete", "down"}]
  BY DEF Finish, Goto, TypeOK
<1> QED BY <1>1, <1>2 DEF Finish, TypeOK, worldVars, actorVars, scanVars


LEMMA ReleaseType ==
    ASSUME TypeOK, NEW w \in Workers, Release(w)
    PROVE  /\ wjob' \in [Workers -> Job \cup {NoJob}]
           /\ wres' \in [Workers -> Result]
           /\ wrun' \in [Workers -> 0 .. MaxPlayerRun]
           /\ wpc' \in [Workers -> {"next", "player", "select", "taken", "preflight",
                            "render", "ask", "rounds", "complete", "down"}]
BY NoResultType DEF Release, Goto, TypeOK

\* Type correctness, an invariant of every step.
LEMMA TypeInit == Init => TypeOK
<1> SUFFICES ASSUME Init PROVE TypeOK
  OBVIOUS
<1>1. queue \in [Lanes -> Seq(Job)]
  <2>1. <<>> \in Seq(Job) OBVIOUS
  <2> QED BY <2>1 DEF Init
<1>2. wrun \in [Workers -> 0 .. MaxPlayerRun]
  BY DEF Init
<1>3. wpc \in [Workers -> {"next", "player", "select", "taken", "preflight", "render",
                          "ask", "rounds", "complete", "down"}]
  BY DEF Init
<1>4. wjob \in [Workers -> Job \cup {NoJob}] /\ wres \in [Workers -> Result]
  BY NoResultType DEF Init
<1> QED BY <1>1, <1>2, <1>3, <1>4 DEF Init, TypeOK

LEMMA EnvironmentType ==
    ASSUME TypeOK, NEW a \in Actors, Environment(a)
    PROVE  TypeOK'
<1>1. CASE \E w \in Warrants : Stamp(a, w)
  <2>0. PICK w \in Warrants : Stamp(a, w)
    BY <1>1
  <2>1. PICK pile \in Capped(pending[a], {w}) : pending' = [pending EXCEPT ![a] = pile]
    BY <2>0 DEF Stamp
  <2>2. pile \subseteq Warrants
    BY <2>1, CappedSubset DEF TypeOK
  <2> QED BY <2>0, <2>1, <2>2 DEF Stamp, TypeOK, scanVars, workerVars
<1>2. CASE ChangeHolds(a)
  BY <1>2 DEF ChangeHolds, TypeOK, actorVars, scanVars, workerVars
<1>3. CASE \E k \in Sources : Forget(a, k)
  BY <1>3 DEF Forget, TypeOK, scanVars, workerVars
<1> QED BY <1>1, <1>2, <1>3 DEF Environment

LEMMA DeferType ==
    ASSUME TypeOK, NEW a, DeferCycle(a) PROVE TypeOK'
BY DEF DeferCycle, TypeOK, actorVars, workerVars

LEMMA PruneType ==
    ASSUME TypeOK, NEW a \in Actors, NEW kept \in SUBSET pending[a], PruneCycle(a, kept)
    PROVE  TypeOK'
BY DEF PruneCycle, TypeOK, workerVars

LEMMA EmitType ==
    ASSUME TypeOK, NEW a \in Actors, Emit(a)
    PROVE  TypeOK'
<1> DEFINE l == LaneOf(pending[a])
<1>1. PICK x \in FreshAttempts :
          /\ attempt' = [attempt EXCEPT ![a] = x]
          /\ unpublished' = unpublished \cup {x}
          /\ \/ queue' = [queue EXCEPT ![l] = Append(@,
                    [actor |-> a, attempt |-> x, warrants |-> pending[a]])] /\ UNCHANGED panicked
             \/ panicked' = TRUE /\ UNCHANGED queue
  BY DEF Emit
<1>2. x \in Attempts /\ l \in Lanes
  BY DEF FreshAttempts, LaneOf, Lanes
<1>3. [actor |-> a, attempt |-> x, warrants |-> pending[a]] \in Job
  BY <1>2 DEF Job, TypeOK
<1>4. queue' \in [Lanes -> Seq(Job)] /\ panicked' \in BOOLEAN
  <2>1. CASE UNCHANGED queue BY <1>1, <2>1 DEF TypeOK
  <2>2. CASE queue' = [queue EXCEPT ![l] = Append(@,
                    [actor |-> a, attempt |-> x, warrants |-> pending[a]])] /\ UNCHANGED panicked
    <3> HIDE DEF l
    <3> QED BY <1>2, <1>3, <2>2 DEF TypeOK
  <2> QED BY <1>1, <2>1, <2>2
<1>5. Keys(pending[a]) \subseteq Sources
  BY KeysType DEF TypeOK
<1>6. attempt' \in [Actors -> Attempts \cup {NoAttempt}] /\ unpublished' \subseteq Attempts
  BY <1>1, <1>2 DEF TypeOK
<1>7. /\ inFlight' \in [Actors -> SUBSET Sources]
      /\ pending' \in [Actors -> SUBSET Warrants]
      /\ holds' \in [Actors -> SUBSET Pauses]
      /\ scan' \subseteq Actors /\ emitting' \in Actors \cup {NoActor}
  BY <1>5 DEF Emit, TypeOK
<1> QED BY <1>4, <1>6, <1>7 DEF Emit, TypeOK, workerVars

LEMMA EvaluateType ==
    ASSUME TypeOK, NEW a \in Actors, Evaluate(a)
    PROVE  TypeOK'
<1>1. CASE Shelve(a)
  <2>1. DeferCycle(a) \/ PruneCycle(a, {w \in pending[a] : w.force})
    BY <1>1 DEF Shelve
  <2> QED BY <2>1, DeferType, PruneType
<1>2. CASE Pace(a) BY <1>2, DeferType, PruneType DEF Pace
<1>3. CASE AwaitRoom(a) BY <1>3, DeferType DEF AwaitRoom
<1>4. CASE Admit(a) BY <1>4 DEF Admit, TypeOK, actorVars, workerVars
<1>5. CASE Emit(a) BY <1>5, EmitType
<1> QED BY <1>1, <1>2, <1>3, <1>4, <1>5 DEF Evaluate

LEMMA WorkerType ==
    ASSUME TypeOK, NEW w \in Workers, WorkerStep(w)
    PROVE  TypeOK'
<1> DEFINE job == wjob[w]
<1>0. wres[w] \in Result /\ wres[w].carry \in SUBSET Warrants /\ Lanes = {"player", "village"}
  BY DEF TypeOK, Result, Lanes
<1>b. wjob[w].warrants \in SUBSET Warrants
  <2>1. CASE wjob[w] = NoJob BY <2>1 DEF NoJob
  <2>2. CASE wjob[w] \in Job BY <2>2 DEF Job
  <2> QED BY <2>1, <2>2 DEF TypeOK
<1>1. CASE LookVillage(w) BY <1>0, <1>1, TakeType, PassOverType DEF LookVillage
<1>2. CASE LookPlayer(w) BY <1>0, <1>2, TakeType, PassOverType DEF LookPlayer
<1>3. CASE Select(w) BY <1>3, TakeType, PassOverType DEF Select
<1>4. CASE CheckStop(w)
  BY <1>4, NoResultType DEF CheckStop, Goto, TypeOK, worldVars, actorVars, scanVars
<1>5. CASE Preflight(w)
  BY <1>5, <1>b, PassOverType, FinishType DEF Preflight, Statuses
<1>6. CASE SkipNoop(w) BY <1>6, FinishType DEF SkipNoop, Statuses
<1>7. CASE Render(w)
  <2>0. PICK dropped \in SUBSET wjob[w].warrants, shown \in SUBSET Sources :
            wres' = [wres EXCEPT ![w] = Outcome("unknown", dropped, shown, FALSE)]
    BY <1>7 DEF Render
  <2>1. Outcome("unknown", dropped, shown, FALSE) \in Result
    BY <1>b, OutcomeType DEF Statuses
  <2>3. wres' \in [Workers -> Result]
    BY <2>0, <2>1 DEF TypeOK
  <2>2. wpc' \in [Workers -> {"next", "player", "select", "taken", "preflight", "render",
                            "ask", "rounds", "complete", "down"}]
    BY <1>7 DEF Render, Goto, TypeOK
  <2> QED BY <1>7, <2>3, <2>2 DEF Render, TypeOK, worldVars, actorVars, scanVars
<1>8. CASE Respond(w) BY <1>8, PassOverType DEF Respond
<1>9. CASE LLMFails(w)
  BY <1>9, <1>0, FinishType DEF LLMFails, Statuses
<1>10. CASE Cancelled(w) BY <1>10, <1>0, FinishType DEF Cancelled, Statuses
<1>11. CASE EndTurn(w)
  <2>0. wres[w].shown \in SUBSET Sources BY <1>0 DEF Result
  <2>1. PICK status \in {"success", "done", "budget"}, unfinished \in BOOLEAN :
            wres' = [wres EXCEPT ![w] =
                       Outcome(status, wres[w].carry, wres[w].shown, unfinished)]
    BY <1>11 DEF EndTurn
  <2>3. Outcome(status, wres[w].carry, wres[w].shown, unfinished) \in Result
    BY <1>0, <2>0, OutcomeType DEF Statuses
  <2>4. wres' \in [Workers -> Result]
    BY <2>1, <2>3 DEF TypeOK
  <2>2. wpc' \in [Workers -> {"next", "player", "select", "taken", "preflight", "render",
                            "ask", "rounds", "complete", "down"}]
    BY <1>11 DEF EndTurn, Goto, TypeOK
  <2> QED BY <1>11, <2>4, <2>2 DEF EndTurn, TypeOK, worldVars, actorVars, scanVars
<1>12. CASE Complete(w)
  <2>1. Release(w) /\ UNCHANGED <<holds, scanVars, queue, stopping, panicked>>
    BY <1>12 DEF Complete
  <2>2. /\ pending' \in [Actors -> SUBSET Warrants]
        /\ attempt' \in [Actors -> Attempts \cup {NoAttempt}]
        /\ inFlight' \in [Actors -> SUBSET Sources]
        /\ recent' \in [Actors -> SUBSET Sources]
    <3>1. CASE UNCHANGED <<pending, attempt, inFlight, recent>> BY <3>1 DEF TypeOK
    <3>2. CASE Settle(wjob[w].actor, wres[w])
      <4>1. CASE wjob[w].actor \in Actors BY <1>0, <3>2, <4>1, SettleType
      <4>2. CASE wjob[w].actor \notin Actors
        <5>1. PICK full : pending' = [pending EXCEPT ![wjob[w].actor] = full]
          BY <3>2 DEF Settle
        <5>2. pending' = pending BY <4>2, <5>1 DEF TypeOK
        <5>3. UNCHANGED <<attempt, inFlight, recent>>
          BY <3>2, <4>2 DEF Settle, TypeOK
        <5> QED BY <5>2, <5>3 DEF TypeOK
      <4> QED BY <4>1, <4>2
    <3> QED BY <1>12, <3>1, <3>2 DEF Complete
  <2> QED BY <2>1, <2>2, ReleaseType DEF TypeOK, scanVars
<1>13. CASE CompleteLost(w)
  BY <1>13, ReleaseType DEF CompleteLost, TypeOK, worldVars, actorVars, scanVars
<1> QED BY <1>1, <1>2, <1>3, <1>4, <1>5, <1>6, <1>7, <1>8, <1>9, <1>10, <1>11, <1>12,
           <1>13 DEF WorkerStep

LEMMA TypeNext == TypeOK /\ [Next]_vars => TypeOK'
<1> SUFFICES ASSUME TypeOK, [Next]_vars PROVE TypeOK'
  OBVIOUS
<1>1. ASSUME NEW a \in Actors, Environment(a) \/ Evaluate(a) PROVE TypeOK'
  BY <1>1, EnvironmentType, EvaluateType
<1>2. CASE StartScan BY <1>2 DEF StartScan, TypeOK, actorVars, workerVars
<1>3. CASE Publish BY <1>3 DEF Publish, TypeOK, actorVars, workerVars
<1>4. CASE Stop BY <1>4 DEF Stop, TypeOK, actorVars, scanVars, workerVars
<1>5. CASE Restart
  <2>1. queue' \in [Lanes -> Seq(Job)]
    <3>1. <<>> \in Seq(Job) OBVIOUS
    <3> QED BY <1>5, <3>1 DEF Restart
  <2>2. wrun' \in [Workers -> 0 .. MaxPlayerRun]
    BY <1>5 DEF Restart
  <2>3. wpc' \in [Workers -> {"next", "player", "select", "taken", "preflight", "render",
                            "ask", "rounds", "complete", "down"}]
    BY <1>5 DEF Restart
  <2>4. wjob' \in [Workers -> Job \cup {NoJob}] /\ wres' \in [Workers -> Result]
    BY <1>5, NoResultType DEF Restart
  <2> QED BY <1>5, <2>1, <2>2, <2>3, <2>4 DEF Restart, TypeOK, scanVars
<1>6. ASSUME NEW w \in Workers, WorkerStep(w) PROVE TypeOK'
  BY <1>6, WorkerType
<1>7. CASE UNCHANGED vars
  BY <1>7 DEF vars, TypeOK, actorVars, scanVars, workerVars
<1> QED BY <1>1, <1>2, <1>3, <1>4, <1>5, <1>6, <1>7 DEF Next

\* Every variable of the reactor keeps its type.
THEOREM TypeCorrect == Spec => []TypeOK
BY TypeInit, TypeNext, PTL DEF Spec
----------------------------------------------------------------------------
(* Jobs: each is its actor's current attempt, and no actor has two. *)

Working == {"taken", "preflight", "render", "ask", "rounds", "complete"}

JobsInv ==
    /\ JobsCurrent
    /\ \A w \in Workers : Busy(w) <=> wpc[w] \in Working
    /\ \A a \in scan : attempt[a] = NoAttempt

LEMMA QueuedJobs ==
    ASSUME TypeOK, NEW l \in Lanes, NEW i \in DOMAIN queue[l]
    PROVE  /\ queue[l][i] \in Job
           /\ queue[l][i].actor \in Actors
           /\ queue[l][i].attempt \in Attempts
           /\ queue[l][i].warrants \in SUBSET Warrants
<1>1. queue[l] \in Seq(Job)
  BY DEF TypeOK
<1>2. queue[l][i] \in Job
  BY <1>1
<1> QED BY <1>2 DEF Job

\* A step that leaves attempts, queues, jobs and the workers' places alone.
LEMMA JobsFrame ==
    ASSUME JobsInv, UNCHANGED <<attempt, queue, wjob, wpc>>,
           \A a \in scan' : attempt[a] = NoAttempt
    PROVE  JobsInv'
BY DEF JobsInv, JobsCurrent, Busy

\* A step that moves a worker between two places of the same kind.
LEMMA JobsMove ==
    ASSUME TypeOK, JobsInv, NEW w \in Workers, NEW pc,
           Goto(w, pc), pc \in Working <=> wpc[w] \in Working,
           UNCHANGED <<attempt, queue, wjob, scan>>
    PROVE  JobsInv'
<1>1. \A v \in Workers : wpc'[v] \in Working <=> wpc[v] \in Working
  BY DEF Goto, TypeOK
<1> QED BY <1>1 DEF JobsInv, JobsCurrent, Busy

\* Jobs and workers' hands, after a worker has taken the head of a lane.
LEMMA JobsTake ==
    ASSUME TypeOK, JobsInv, NEW w \in Workers, NEW l \in Lanes, Take(w, l),
           wpc[w] \notin Working
    PROVE  JobsInv'
<1>1. /\ ~Busy(w) /\ queue[l] # <<>> /\ queue[l] \in Seq(Job)
      /\ wjob' = [wjob EXCEPT ![w] = Head(queue[l])]
      /\ queue' = [queue EXCEPT ![l] = Tail(queue[l])]
      /\ wpc' = [wpc EXCEPT ![w] = "taken"]
      /\ UNCHANGED <<attempt, scan>>
  BY DEF Take, Goto, JobsInv, worldVars, actorVars, scanVars, TypeOK
<1>2. /\ 1 \in DOMAIN queue[l] /\ Head(queue[l]) = queue[l][1] /\ queue[l][1] \in Job
      /\ \A i \in DOMAIN Tail(queue[l]) :
            i + 1 \in DOMAIN queue[l] /\ Tail(queue[l])[i] = queue[l][i + 1] /\ i + 1 # 1
  BY <1>1
<1>3. \A m \in Lanes : \A i \in DOMAIN queue'[m] :
         \E j \in DOMAIN queue[m] :
            /\ queue'[m][i] = queue[m][j]
            /\ j = IF m = l THEN i + 1 ELSE i
            /\ m = l => j # 1
  BY <1>1, <1>2 DEF TypeOK
<1>4. \A v \in Workers : wjob'[v] = IF v = w THEN queue[l][1] ELSE wjob[v]
  BY <1>1, <1>2 DEF TypeOK
<1>5. queue[l][1].actor # NoActor /\ queue[l][1].actor \in Actors
  BY <1>2 DEF Job
<1>6. \A m \in Lanes : \A i \in DOMAIN queue'[m] :
         queue'[m][i].attempt = attempt[queue'[m][i].actor]
  BY <1>3 DEF JobsInv, JobsCurrent
<1>7. \A v \in Workers : Busy(v)' => wjob'[v].attempt = attempt[wjob'[v].actor]
  BY <1>2, <1>4 DEF JobsInv, JobsCurrent, Busy
<1>8. \A m, n \in Lanes : \A i \in DOMAIN queue'[m], j \in DOMAIN queue'[n] :
         queue'[m][i].actor = queue'[n][j].actor => m = n /\ i = j
  <2> SUFFICES ASSUME NEW m \in Lanes, NEW n \in Lanes, NEW i \in DOMAIN queue'[m],
                      NEW j \in DOMAIN queue'[n], queue'[m][i].actor = queue'[n][j].actor
               PROVE  m = n /\ i = j
    OBVIOUS
  <2>1. PICK ii \in DOMAIN queue[m] : queue'[m][i] = queue[m][ii]
                                       /\ ii = IF m = l THEN i + 1 ELSE i
    BY <1>3
  <2>2. PICK jj \in DOMAIN queue[n] : queue'[n][j] = queue[n][jj]
                                       /\ jj = IF n = l THEN j + 1 ELSE j
    BY <1>3
  <2>3. m = n /\ ii = jj
    BY <2>1, <2>2 DEF JobsInv, JobsCurrent
  <2>4. i \in Nat /\ j \in Nat
    BY <1>1 DEF TypeOK
  <2> QED BY <2>1, <2>2, <2>3, <2>4
<1>9. \A v \in Workers, m \in Lanes : \A i \in DOMAIN queue'[m] :
         wjob'[v].actor # queue'[m][i].actor
  <2> SUFFICES ASSUME NEW v \in Workers, NEW m \in Lanes, NEW i \in DOMAIN queue'[m]
               PROVE  wjob'[v].actor # queue'[m][i].actor
    OBVIOUS
  <2>1. PICK ii \in DOMAIN queue[m] : queue'[m][i] = queue[m][ii] /\ (m = l => ii # 1)
    BY <1>3
  <2> QED BY <1>2, <1>4, <2>1 DEF JobsInv, JobsCurrent
<1>10. \A u, v \in Workers : Busy(u)' /\ wjob'[u].actor = wjob'[v].actor => u = v
  BY <1>2, <1>4, <1>5 DEF JobsInv, JobsCurrent, Busy
<1>11. \A v \in Workers : Busy(v)' <=> wpc'[v] \in Working
  BY <1>1, <1>4, <1>5 DEF JobsInv, Busy, Working, TypeOK
<1>12. \A a \in scan' : attempt'[a] = NoAttempt
  BY <1>1 DEF JobsInv
<1> QED
  BY <1>1, <1>6, <1>7, <1>8, <1>9, <1>10, <1>11, <1>12 DEF JobsInv, JobsCurrent

\* A worker lets its job go, and only that job's actor may lose its attempt.
LEMMA JobsDrop ==
    ASSUME TypeOK, JobsInv, NEW w \in Workers, Busy(w),
           wjob' = [wjob EXCEPT ![w] = NoJob],
           \A v \in Workers \ {w} : wpc'[v] = wpc[v], wpc'[w] \notin Working,
           UNCHANGED queue,
           \A a \in Actors : a # wjob[w].actor => attempt'[a] = attempt[a],
           \A a \in scan' : attempt'[a] = NoAttempt
    PROVE  JobsInv'
<1>1. \A v \in Workers : wjob'[v] = IF v = w THEN NoJob ELSE wjob[v]
  BY DEF TypeOK
<1>2. NoJob.actor = NoActor
  BY DEF NoJob
<1>3. \A l \in Lanes : \A i \in DOMAIN queue[l] :
         queue[l][i].actor \in Actors /\ queue[l][i].actor # wjob[w].actor
  BY QueuedJobs DEF JobsInv, JobsCurrent
<1>4. \A v \in Workers : v # w /\ Busy(v) =>
         wjob[v].actor \in Actors /\ wjob[v].actor # wjob[w].actor
  BY DEF TypeOK, Job, NoJob, Busy, JobsInv, JobsCurrent
<1>5. \A v \in Workers : Busy(v)' <=> v # w /\ Busy(v)
  BY <1>1, <1>2 DEF Busy
<1>6. JobsCurrent'
  <2>1. \A l \in Lanes : \A i \in DOMAIN queue'[l] :
           queue'[l][i].attempt = attempt'[queue'[l][i].actor]
    BY <1>3 DEF JobsInv, JobsCurrent
  <2>2. \A v \in Workers : Busy(v)' => wjob'[v].attempt = attempt'[wjob'[v].actor]
    BY <1>1, <1>4, <1>5 DEF JobsInv, JobsCurrent
  <2>3. \A v \in Workers, l \in Lanes : \A i \in DOMAIN queue'[l] :
           wjob'[v].actor # queue'[l][i].actor
    BY <1>1, <1>2, <1>3 DEF JobsInv, JobsCurrent
  <2>4. \A u, v \in Workers : Busy(u)' /\ wjob'[u].actor = wjob'[v].actor => u = v
    BY <1>1, <1>2, <1>4, <1>5 DEF JobsInv, JobsCurrent, Busy
  <2> QED BY <2>1, <2>2, <2>3, <2>4 DEF JobsInv, JobsCurrent
<1>7. \A v \in Workers : Busy(v)' <=> wpc'[v] \in Working
  BY <1>5 DEF JobsInv
<1> QED BY <1>6, <1>7 DEF JobsInv

\* A new attempt joins the end of its lane.
LEMMA JobsEmit ==
    ASSUME TypeOK, JobsInv, NEW a \in scan, NEW x \in Attempts, NEW l \in Lanes,
           attempt' = [attempt EXCEPT ![a] = x],
           queue' = [queue EXCEPT ![l] = Append(@,
                       [actor |-> a, attempt |-> x, warrants |-> pending[a]])],
           scan' = scan \ {a}, UNCHANGED <<wjob, wpc>>
    PROVE  JobsInv'
<1> DEFINE job == [actor |-> a, attempt |-> x, warrants |-> pending[a]]
<1>1. a \in Actors /\ attempt[a] = NoAttempt /\ job \in Job
  BY DEF JobsInv, TypeOK, Job
<1>2. \A m \in Lanes : \A i \in DOMAIN queue[m] : queue[m][i].actor # a
  BY <1>1, QueuedJobs DEF JobsInv, JobsCurrent
<1>3. \A w \in Workers : wjob[w].actor # a
  <2> TAKE w \in Workers
  <2>1. CASE Busy(w)
    <3>1. wjob[w] \in Job /\ wjob[w].attempt = attempt[wjob[w].actor]
      BY <2>1 DEF Busy, TypeOK, NoJob, JobsInv, JobsCurrent
    <3>2. wjob[w].attempt \in Attempts BY <3>1 DEF Job
    <3> QED BY <1>1, <3>1, <3>2
  <2>2. CASE ~Busy(w) BY <1>1, <2>2 DEF Busy
  <2> QED BY <2>1, <2>2
<1>4. \A m \in Lanes : \A i \in DOMAIN queue'[m] :
         \/ m = l /\ i = Len(queue[l]) + 1 /\ queue'[m][i] = job
         \/ i \in DOMAIN queue[m] /\ queue'[m][i] = queue[m][i]
                /\ (m = l => i # Len(queue[l]) + 1)
  <2>1. \A i \in DOMAIN Append(queue[l], job) :
           \/ i = Len(queue[l]) + 1 /\ Append(queue[l], job)[i] = job
           \/ i \in DOMAIN queue[l] /\ Append(queue[l], job)[i] = queue[l][i]
                  /\ i # Len(queue[l]) + 1
    <3>1. queue[l] \in Seq(Job) BY DEF TypeOK
    <3> HIDE DEF job
    <3> QED BY <1>1, <3>1
  <2> HIDE DEF job
  <2> QED BY <2>1 DEF job, TypeOK
<1>5. job.actor = a /\ job.attempt = x
  OBVIOUS
<1> HIDE DEF job
<1>6. \A m \in Lanes : \A i \in DOMAIN queue'[m] :
         queue'[m][i].attempt = attempt'[queue'[m][i].actor]
  BY <1>1, <1>2, <1>4, <1>5, QueuedJobs DEF JobsInv, JobsCurrent, TypeOK
<1>7. \A w \in Workers : Busy(w)' => wjob'[w].attempt = attempt'[wjob'[w].actor]
  BY <1>1, <1>3 DEF JobsInv, JobsCurrent, Busy, TypeOK, Job
<1>8. \A m, n \in Lanes : \A i \in DOMAIN queue'[m], j \in DOMAIN queue'[n] :
         queue'[m][i].actor = queue'[n][j].actor => m = n /\ i = j
  BY <1>2, <1>4, <1>5 DEF JobsInv, JobsCurrent
<1>9. \A w \in Workers, m \in Lanes : \A i \in DOMAIN queue'[m] :
         wjob'[w].actor # queue'[m][i].actor
  BY <1>3, <1>4, <1>5 DEF JobsInv, JobsCurrent
<1>10. \A b \in scan' : attempt'[b] = NoAttempt
  BY <1>1 DEF JobsInv, TypeOK
<1> QED
  BY <1>6, <1>7, <1>8, <1>9, <1>10 DEF JobsInv, JobsCurrent, Busy

----------------------------------------------------------------------------
(* Admission: the room CanAdmit saw is still there at the enqueue. *)

AdmissionInv ==
    /\ AdmissionSafe
    /\ emitting # NoActor => Len(queue[LaneOf(pending[emitting])]) < QueueCap

LEMMA LaneType == ASSUME NEW P PROVE LaneOf(P) \in Lanes
BY DEF LaneOf, Lanes

LEMMA AdmissionTake ==
    ASSUME TypeOK, AdmissionInv, NEW w \in Workers, NEW l \in Lanes, Take(w, l)
    PROVE  AdmissionInv'
<1>1. queue[l] \in Seq(Job) /\ queue[l] # <<>>
  BY DEF Take, TypeOK
<1>2. Len(Tail(queue[l])) = Len(queue[l]) - 1 /\ Len(queue[l]) \in Nat
  BY <1>1
<1>3. \A m \in Lanes : Len(queue[m]) \in Nat
  BY DEF TypeOK
<1>4. \A m \in Lanes : Len(queue'[m]) <= Len(queue[m]) /\ Len(queue'[m]) \in Nat
  BY <1>2, <1>3 DEF Take, TypeOK
<1>5. UNCHANGED <<pending, emitting, panicked>>
  BY DEF Take, worldVars, actorVars, scanVars
<1> QED BY <1>3, <1>4, <1>5, LaneType DEF AdmissionInv, AdmissionSafe

LEMMA AdmissionEmit ==
    ASSUME TypeOK, AdmissionInv, NEW a \in Actors, Emit(a)
    PROVE  /\ AdmissionInv'
           /\ \E x \in Attempts : \E l \in Lanes :
                 /\ attempt' = [attempt EXCEPT ![a] = x]
                 /\ unpublished' = unpublished \cup {x}
                 /\ queue' = [queue EXCEPT ![l] = Append(@,
                       [actor |-> a, attempt |-> x, warrants |-> pending[a]])]
<1> DEFINE l == LaneOf(pending[a])
           job(x) == [actor |-> a, attempt |-> x, warrants |-> pending[a]]
<1>1. emitting = a /\ emitting # NoActor /\ Len(queue[l]) < QueueCap
  BY DEF Emit, AdmissionInv
<1>2. PICK x \in FreshAttempts :
          /\ attempt' = [attempt EXCEPT ![a] = x]
          /\ unpublished' = unpublished \cup {x}
          /\ queue' = [queue EXCEPT ![l] = Append(@, job(x))] /\ UNCHANGED panicked
  BY <1>1 DEF Emit
<1>3. x \in Attempts /\ l \in Lanes /\ queue[l] \in Seq(Job) /\ job(x) \in Job
  BY LaneType DEF FreshAttempts, TypeOK, Job
<1>4. Len(Append(queue[l], job(x))) = Len(queue[l]) + 1 /\ Len(queue[l]) \in Nat
  <2> HIDE DEF l, job
  <2> QED BY <1>3
<1>5. \A m \in Lanes : Len(queue'[m]) <= QueueCap
  <2> HIDE DEF l, job
  <2> QED BY <1>1, <1>2, <1>3, <1>4 DEF AdmissionInv, AdmissionSafe, TypeOK
<1>6. emitting' = NoActor
  BY DEF Emit
<1> QED BY <1>2, <1>3, <1>5, <1>6 DEF AdmissionInv, AdmissionSafe

----------------------------------------------------------------------------
(* The inductive invariant of the pool *)

PoolInv == TypeOK /\ JobsInv /\ AdmissionInv /\ SnapshotShowsAttempt /\ InFlightBacked

LEMMA PoolInit == Init => PoolInv
<1> SUFFICES ASSUME Init PROVE PoolInv
  OBVIOUS
<1>1. TypeOK BY TypeInit
<1>2. \A l \in Lanes : queue[l] = <<>> /\ DOMAIN queue[l] = {} /\ Len(queue[l]) = 0
  BY DEF Init
<1>3. \A w \in Workers : wjob[w].actor = NoActor /\ wres[w].status = "unknown"
  BY DEF Init, NoJob, NoResult, Outcome
<1>4. JobsInv
  BY <1>2, <1>3 DEF Init, JobsInv, JobsCurrent, Busy, Working
<1>5. AdmissionInv
  BY <1>2 DEF Init, AdmissionInv, AdmissionSafe
<1>6. SnapshotShowsAttempt /\ InFlightBacked
  BY <1>3 DEF Init, SnapshotShowsAttempt, InFlightBacked
<1> QED BY <1>1, <1>4, <1>5, <1>6 DEF PoolInv

\* World steps that touch neither jobs nor attempts.
LEMMA PoolFrame ==
    ASSUME PoolInv, TypeOK', UNCHANGED <<attempt, queue, workerVars, panicked>>,
           stopping => stopping',
           \A a \in scan' : attempt[a] = NoAttempt,
           \/ emitting' = NoActor
           \/ emitting' \in Actors /\ Len(queue[LaneOf(pending'[emitting'])]) < QueueCap
    PROVE  PoolInv'
<1>1. JobsInv'
  BY JobsFrame DEF PoolInv, workerVars
<1>2. AdmissionInv'
  BY DEF PoolInv, AdmissionInv, AdmissionSafe
<1>3. SnapshotShowsAttempt' /\ InFlightBacked'
  BY DEF PoolInv, SnapshotShowsAttempt, InFlightBacked, workerVars
<1> QED BY <1>1, <1>2, <1>3 DEF PoolInv

LEMMA PoolEnvironment ==
    ASSUME PoolInv, NEW a \in Actors, Environment(a)
    PROVE  PoolInv'
<1>1. TypeOK' BY EnvironmentType DEF PoolInv
<1>2. /\ scan = {} /\ emitting = NoActor
      /\ UNCHANGED <<attempt, queue, workerVars, panicked, stopping, scan, emitting>>
  BY DEF Environment, Stamp, ChangeHolds, Forget, Idle, actorVars, scanVars
<1> QED BY <1>1, <1>2, PoolFrame

LEMMA PoolEvaluate ==
    ASSUME PoolInv, NEW a \in Actors, Evaluate(a)
    PROVE  PoolInv'
<1>0. TypeOK' BY EvaluateType DEF PoolInv
<1>s. \A b \in scan : attempt[b] = NoAttempt
  BY DEF PoolInv, JobsInv
<1>1. CASE Shelve(a) \/ Pace(a) \/ AwaitRoom(a)
  <2>1. /\ emitting = NoActor /\ scan' = scan \ {a}
        /\ UNCHANGED <<attempt, queue, workerVars, panicked, stopping, emitting>>
    BY <1>1 DEF Shelve, Pace, AwaitRoom, Visiting, DeferCycle, PruneCycle, actorVars
  <2> QED BY <1>0, <1>s, <2>1, PoolFrame
<1>2. CASE Admit(a)
  <2>1. /\ emitting' = a /\ Len(queue[LaneOf(pending'[a])]) < QueueCap
        /\ UNCHANGED <<attempt, queue, workerVars, panicked, stopping, scan>>
    BY <1>2 DEF Admit, CanAdmit, actorVars
  <2> QED BY <1>0, <1>s, <2>1, PoolFrame
<1>3. CASE Emit(a)
  <2>1. PICK x \in Attempts, l \in Lanes :
            /\ attempt' = [attempt EXCEPT ![a] = x]
            /\ queue' = [queue EXCEPT ![l] = Append(@,
                  [actor |-> a, attempt |-> x, warrants |-> pending[a]])]
    BY <1>3, AdmissionEmit DEF PoolInv
  <2>2. a \in scan /\ scan' = scan \ {a} /\ UNCHANGED <<workerVars, stopping>>
    BY <1>3 DEF Emit
  <2>3. JobsInv'
    BY <2>1, <2>2, JobsEmit DEF PoolInv, workerVars
  <2>4. AdmissionInv'
    BY <1>3, AdmissionEmit DEF PoolInv
  <2>5. SnapshotShowsAttempt'
    BY <2>2 DEF PoolInv, SnapshotShowsAttempt, workerVars
  <2>6. InFlightBacked'
    <3> DEFINE job == [actor |-> a, attempt |-> x, warrants |-> pending[a]]
    <3>1. queue[l] \in Seq(Job) /\ job \in Job
      BY <1>0, <2>1 DEF PoolInv, TypeOK, Job
    <3>2. /\ Len(queue[l]) + 1 \in DOMAIN Append(queue[l], job)
          /\ Append(queue[l], job)[Len(queue[l]) + 1] = job
          /\ \A i \in DOMAIN queue[l] :
                i \in DOMAIN Append(queue[l], job) /\ Append(queue[l], job)[i] = queue[l][i]
      <4> HIDE DEF job
      <4> QED BY <3>1
    <3>3. \E i \in DOMAIN queue'[l] : queue'[l][i].actor = a
      BY <2>1, <3>2 DEF PoolInv, TypeOK
    <3>4. \A m \in Lanes : \A i \in DOMAIN queue[m] :
             i \in DOMAIN queue'[m] /\ queue'[m][i] = queue[m][i]
      BY <2>1, <3>2 DEF PoolInv, TypeOK
    <3> SUFFICES ASSUME NEW b \in Actors, attempt'[b] # NoAttempt, ~stopping', b # a
                 PROVE  \/ \E m \in Lanes : \E i \in DOMAIN queue'[m] : queue'[m][i].actor = b
                        \/ \E w \in Workers : wjob'[w].actor = b
      BY <3>3 DEF InFlightBacked
    <3>5. attempt[b] # NoAttempt /\ ~stopping
      BY <2>1, <2>2 DEF PoolInv, TypeOK
    <3> QED BY <2>2, <3>4, <3>5 DEF PoolInv, InFlightBacked, workerVars
  <2> QED BY <1>0, <2>3, <2>4, <2>5, <2>6 DEF PoolInv
<1> QED BY <1>1, <1>2, <1>3 DEF Evaluate

\* The rest of the pool's state under a step that leaves the world alone.
LEMMA PoolWorkerFrame ==
    ASSUME PoolInv, TypeOK', JobsInv', UNCHANGED <<worldVars, queue, wjob>>,
           \A w \in Workers : wres'[w].status # "stale"
    PROVE  PoolInv'
<1>1. AdmissionInv'
  BY DEF PoolInv, AdmissionInv, AdmissionSafe, worldVars, actorVars, scanVars
<1>2. InFlightBacked'
  BY DEF PoolInv, InFlightBacked, worldVars, actorVars
<1> QED BY <1>1, <1>2 DEF PoolInv, SnapshotShowsAttempt

LEMMA PoolTake ==
    ASSUME PoolInv, NEW w \in Workers, NEW l \in Lanes, Take(w, l), wpc[w] \notin Working
    PROVE  PoolInv'
<1>1. TypeOK' /\ JobsInv' /\ AdmissionInv'
  BY TakeType, JobsTake, AdmissionTake DEF PoolInv
<1>2. SnapshotShowsAttempt'
  BY DEF PoolInv, SnapshotShowsAttempt, Take
<1>3. InFlightBacked'
  <2>1. queue[l] \in Seq(Job) /\ queue[l] # <<>>
    BY DEF Take, PoolInv, TypeOK
  <2>2. \A i \in DOMAIN queue[l] :
           \/ i = 1 /\ Head(queue[l]) = queue[l][i]
           \/ i - 1 \in DOMAIN Tail(queue[l]) /\ Tail(queue[l])[i - 1] = queue[l][i]
    BY <2>1
  <2>3. /\ queue' = [queue EXCEPT ![l] = Tail(queue[l])]
        /\ wjob' = [wjob EXCEPT ![w] = Head(queue[l])]
        /\ UNCHANGED <<attempt, stopping>>
    BY DEF Take, worldVars, actorVars
  <2>4. ~Busy(w)
    BY DEF PoolInv, JobsInv
  <2> SUFFICES ASSUME NEW b \in Actors, attempt[b] # NoAttempt, ~stopping
               PROVE  \/ \E m \in Lanes : \E i \in DOMAIN queue'[m] : queue'[m][i].actor = b
                      \/ \E v \in Workers : wjob'[v].actor = b
    BY <2>3 DEF InFlightBacked
  <2>5. CASE \E v \in Workers : wjob[v].actor = b
    <3>1. PICK v \in Workers : wjob[v].actor = b BY <2>5
    <3>2. v # w BY <2>4, <3>1 DEF Busy
    <3> QED BY <2>3, <3>1, <3>2 DEF PoolInv, TypeOK
  <2>6. CASE \E m \in Lanes : \E i \in DOMAIN queue[m] : queue[m][i].actor = b
    <3>1. PICK m \in Lanes : \E i \in DOMAIN queue[m] : queue[m][i].actor = b
      BY <2>6
    <3>2. PICK i \in DOMAIN queue[m] : queue[m][i].actor = b
      BY <3>1
    <3>3. CASE m # l
      <4>1. queue'[m] = queue[m] BY <2>3, <3>3 DEF PoolInv, TypeOK
      <4> QED BY <3>2, <4>1
    <3>4. CASE m = l /\ i = 1
      BY <2>2, <2>3, <3>2, <3>4 DEF PoolInv, TypeOK
    <3>5. CASE m = l /\ i - 1 \in DOMAIN Tail(queue[l]) /\ Tail(queue[l])[i - 1] = queue[l][i]
      <4>1. queue'[l] = Tail(queue[l]) BY <2>3 DEF PoolInv, TypeOK
      <4> QED BY <3>2, <3>5, <4>1
    <3> QED BY <2>2, <3>2, <3>3, <3>4, <3>5
  <2> QED BY <2>5, <2>6 DEF PoolInv, InFlightBacked
<1> QED BY <1>1, <1>2, <1>3 DEF PoolInv

\* A worker lets its job go after the stop, or at the end of the attempt.
LEMMA PoolDrop ==
    ASSUME PoolInv, TypeOK', NEW w \in Workers, Busy(w),
           wjob' = [wjob EXCEPT ![w] = NoJob],
           \A v \in Workers \ {w} : wpc'[v] = wpc[v], wpc'[w] \notin Working,
           \A v \in Workers : wres'[v].status # "stale",
           UNCHANGED <<queue, scan, emitting, stopping, panicked>>,
           \A a \in Actors : a # wjob[w].actor => attempt'[a] = attempt[a],
           \/ stopping /\ UNCHANGED <<attempt, pending>>
           \/ scan = {} /\ emitting = NoActor /\ attempt'[wjob[w].actor] = NoAttempt
    PROVE  PoolInv'
<1>1. \A a \in scan' : attempt'[a] = NoAttempt
  BY DEF PoolInv, JobsInv
<1>3. JobsInv'
  BY <1>1, JobsDrop DEF PoolInv
<1>4. AdmissionInv'
  BY DEF PoolInv, AdmissionInv, AdmissionSafe
<1>5. InFlightBacked'
  <2>1. \A v \in Workers : v # w => wjob'[v] = wjob[v]
    BY DEF PoolInv, TypeOK
  <2> QED BY <2>1 DEF PoolInv, InFlightBacked
<1> QED BY <1>3, <1>4, <1>5 DEF PoolInv, SnapshotShowsAttempt

LEMMA FinishPool ==
    ASSUME PoolInv, TypeOK', NEW w \in Workers, NEW status \in Statuses \ {"stale"}, NEW carry,
           Finish(w, status, carry), wpc[w] \in Working
    PROVE  PoolInv'
<1>1. wres' = [wres EXCEPT ![w] = Outcome(status, carry, wres[w].shown, FALSE)]
  BY DEF Finish
<1>2. \A v \in Workers : wres'[v].status # "stale"
  BY <1>1 DEF PoolInv, TypeOK, SnapshotShowsAttempt, Outcome
<1>3. JobsInv'
  BY JobsMove DEF PoolInv, Finish, worldVars, actorVars, scanVars, Working
<1> QED BY <1>2, <1>3, PoolWorkerFrame DEF Finish

LEMMA PassOverPool ==
    ASSUME PoolInv, TypeOK', NEW w \in Workers, NEW pc, PassOver(w, pc),
           pc \in Working <=> wpc[w] \in Working
    PROVE  PoolInv'
<1>1. JobsInv'
  BY JobsMove DEF PoolInv, PassOver, worldVars, actorVars, scanVars
<1> QED BY <1>1, PoolWorkerFrame DEF PoolInv, SnapshotShowsAttempt, PassOver

LEMMA PoolWorker ==
    ASSUME PoolInv, NEW w \in Workers, WorkerStep(w)
    PROVE  PoolInv'
<1>0. TypeOK' BY WorkerType DEF PoolInv
<1>b. Busy(w) <=> wpc[w] \in Working
  BY DEF PoolInv, JobsInv
<1>n. NoResult.status # "stale"
  BY DEF NoResult, Outcome
<1>1. CASE LookVillage(w)
  <2>1. wpc[w] \notin Working BY <1>1 DEF LookVillage, Working
  <2>2. CASE Take(w, "village") BY <2>1, <2>2, PoolTake DEF Lanes
  <2>3. CASE PassOver(w, "player") BY <1>0, <2>1, <2>3, PassOverPool DEF Working
  <2> QED BY <1>1, <2>2, <2>3 DEF LookVillage
<1>2. CASE LookPlayer(w)
  BY <1>0, <1>2, PoolTake, PassOverPool DEF LookPlayer, Working, Lanes
<1>3. CASE Select(w)
  BY <1>0, <1>3, PoolTake, PassOverPool DEF Select, Working
<1>4. CASE CheckStop(w)
  <2>1. \A v \in Workers : wres'[v].status # "stale"
    BY <1>4, <1>n DEF CheckStop, PoolInv, SnapshotShowsAttempt, TypeOK
  <2>2. CASE stopping
    <3>1. /\ wjob' = [wjob EXCEPT ![w] = NoJob] /\ wpc' = [wpc EXCEPT ![w] = "down"]
          /\ UNCHANGED <<worldVars, queue>>
      BY <1>4, <2>2 DEF CheckStop, Goto
    <3>2. Busy(w) BY <1>4, <1>b DEF CheckStop, Working
    <3>3. (\A v \in Workers \ {w} : wpc'[v] = wpc[v]) /\ wpc'[w] \notin Working
      BY <3>1 DEF PoolInv, TypeOK, Working
    <3> QED
      BY <1>0, <2>1, <2>2, <3>1, <3>2, <3>3, PoolDrop DEF worldVars, actorVars, scanVars
  <2>3. CASE ~stopping
    <3>1. Goto(w, "preflight") /\ UNCHANGED <<worldVars, queue, wjob>>
      BY <1>4, <2>3 DEF CheckStop
    <3>2. JobsInv'
      BY <1>4, <3>1, JobsMove DEF CheckStop, PoolInv, worldVars, actorVars, scanVars, Working
    <3> QED BY <1>0, <2>1, <3>1, <3>2, PoolWorkerFrame
  <2> QED BY <2>2, <2>3
<1>5. CASE Preflight(w)
  <2>1. Busy(w) /\ wpc[w] \in Working BY <1>5, <1>b DEF Preflight, Working
  <2>2. wjob[w].attempt = attempt[wjob[w].actor]
    BY <2>1 DEF PoolInv, JobsInv, JobsCurrent
  <2>3. SnapshotFresh(wjob[w]) => SnapshotAttempt(wjob[w].actor) = wjob[w].attempt
    BY <2>2 DEF SnapshotFresh, SnapshotAttempt
  <2>4. \/ PassOver(w, "render")
        \/ Finish(w, "shutdown", wjob[w].warrants)
        \/ Finish(w, "lagging", wjob[w].warrants)
    BY <1>5, <2>3 DEF Preflight
  <2> QED BY <1>0, <2>1, <2>4, FinishPool, PassOverPool DEF Statuses, Working
<1>6. CASE SkipNoop(w) BY <1>0, <1>6, FinishPool DEF SkipNoop, Statuses, Working
<1>7. CASE Render(w)
  <2>1. PICK dropped, shown : wres' = [wres EXCEPT ![w] = Outcome("unknown", dropped, shown, FALSE)]
    BY <1>7 DEF Render
  <2>2. \A v \in Workers : wres'[v].status # "stale"
    BY <2>1 DEF PoolInv, TypeOK, SnapshotShowsAttempt, Outcome
  <2>3. JobsInv'
    BY <1>7, JobsMove DEF Render, PoolInv, worldVars, actorVars, scanVars, Working
  <2> QED BY <1>0, <1>7, <2>2, <2>3, PoolWorkerFrame DEF Render
<1>8. CASE Respond(w) BY <1>0, <1>8, PassOverPool DEF Respond, Working
<1>9. CASE LLMFails(w) BY <1>0, <1>9, FinishPool DEF LLMFails, Statuses, Working
<1>10. CASE Cancelled(w) BY <1>0, <1>10, FinishPool DEF Cancelled, Statuses, Working
<1>11. CASE EndTurn(w)
  <2>1. PICK status \in {"success", "done", "budget"}, unfinished \in BOOLEAN :
            wres' = [wres EXCEPT ![w] =
                       Outcome(status, wres[w].carry, wres[w].shown, unfinished)]
    BY <1>11 DEF EndTurn
  <2>2. \A v \in Workers : wres'[v].status # "stale"
    BY <2>1 DEF PoolInv, TypeOK, SnapshotShowsAttempt, Outcome
  <2>3. JobsInv'
    BY <1>11, JobsMove DEF EndTurn, PoolInv, worldVars, actorVars, scanVars, Working
  <2> QED BY <1>0, <1>11, <2>2, <2>3, PoolWorkerFrame DEF EndTurn
<1>12. CASE Complete(w) \/ CompleteLost(w)
  <2>1. /\ wpc[w] = "complete" /\ Release(w)
        /\ UNCHANGED <<queue, scan, emitting, stopping, panicked>>
    BY <1>12 DEF Complete, CompleteLost, worldVars, scanVars
  <2>2. Busy(w) BY <2>1, <1>b DEF Working
  <2>3. /\ wjob' = [wjob EXCEPT ![w] = NoJob]
        /\ \A v \in Workers \ {w} : wpc'[v] = wpc[v]
        /\ wpc'[w] \notin Working
        /\ \A v \in Workers : wres'[v].status # "stale"
    BY <2>1, <1>n DEF Release, Goto, PoolInv, TypeOK, SnapshotShowsAttempt, Working
  <2>4. CASE CompleteLost(w)
    <3>1. stopping /\ UNCHANGED <<attempt, pending>>
      BY <2>4 DEF CompleteLost, worldVars, actorVars
    <3> QED BY <1>0, <2>1, <2>2, <2>3, <3>1, PoolDrop
  <2>5. CASE Complete(w)
    <3>1. wjob[w].attempt = attempt[wjob[w].actor]
      BY <2>2 DEF PoolInv, JobsInv, JobsCurrent
    <3>2. wjob[w].actor \in Actors
      BY <2>2 DEF Busy, PoolInv, TypeOK, Job, NoJob
    <3>3. attempt' = [attempt EXCEPT ![wjob[w].actor] = NoAttempt]
      BY <2>5, <3>1 DEF Complete, Settle
    <3>4. /\ \A a \in Actors : a # wjob[w].actor => attempt'[a] = attempt[a]
          /\ attempt'[wjob[w].actor] = NoAttempt
      BY <3>2, <3>3 DEF PoolInv, TypeOK
    <3>5. scan = {} /\ emitting = NoActor
      BY <2>5 DEF Complete, Idle
    <3> QED BY <1>0, <2>1, <2>2, <2>3, <3>4, <3>5, PoolDrop
  <2> QED BY <1>12, <2>4, <2>5
<1> QED BY <1>1, <1>2, <1>3, <1>4, <1>5, <1>6, <1>7, <1>8, <1>9, <1>10, <1>11, <1>12
        DEF WorkerStep

LEMMA PoolNext == PoolInv /\ [Next]_vars => PoolInv'
<1> SUFFICES ASSUME PoolInv, [Next]_vars PROVE PoolInv'
  OBVIOUS
<1>0. TypeOK' BY TypeNext DEF PoolInv
<1>s. \A a \in scan : attempt[a] = NoAttempt
  BY DEF PoolInv, JobsInv
<1>e. emitting = NoActor \/ (emitting \in Actors /\ Len(queue[LaneOf(pending[emitting])]) < QueueCap)
  BY DEF PoolInv, TypeOK, AdmissionInv
<1>1. ASSUME NEW a \in Actors, Environment(a) \/ Evaluate(a) PROVE PoolInv'
  BY <1>1, PoolEnvironment, PoolEvaluate
<1>2. CASE StartScan
  <2>1. /\ \A a \in scan' : attempt[a] = NoAttempt
        /\ emitting' = NoActor
        /\ UNCHANGED <<attempt, queue, workerVars, panicked, stopping>>
    BY <1>2 DEF StartScan, ReactorDue, Idle, actorVars
  <2> QED BY <1>0, <2>1, PoolFrame
<1>3. CASE Publish
  <2>1. /\ emitting' = NoActor
        /\ UNCHANGED <<attempt, queue, workerVars, panicked, stopping, scan>>
    BY <1>3 DEF Publish, actorVars
  <2> QED BY <1>0, <1>s, <2>1, PoolFrame
<1>4. CASE Stop
  <2>1. stopping' /\ UNCHANGED <<attempt, queue, workerVars, panicked, scan, emitting, pending>>
    BY <1>4 DEF Stop, actorVars, scanVars
  <2> QED BY <1>0, <1>s, <1>e, <2>1, PoolFrame
<1>5. CASE Restart
  <2>1. \A l \in Lanes : queue'[l] = <<>> /\ DOMAIN queue'[l] = {} /\ Len(queue'[l]) = 0
    BY <1>5 DEF Restart
  <2>2. \A w \in Workers : wjob'[w].actor = NoActor /\ wres'[w].status = "unknown"
    BY <1>5 DEF Restart, NoJob, NoResult, Outcome
  <2>3. JobsInv'
    BY <1>5, <2>1, <2>2 DEF Restart, Idle, JobsInv, JobsCurrent, Busy, Working, scanVars
  <2>4. AdmissionInv'
    BY <1>5, <2>1 DEF Restart, Idle, AdmissionInv, AdmissionSafe, scanVars
  <2>5. SnapshotShowsAttempt' /\ InFlightBacked'
    BY <1>5, <2>2 DEF Restart, SnapshotShowsAttempt, InFlightBacked
  <2> QED BY <1>0, <2>3, <2>4, <2>5 DEF PoolInv
<1>6. ASSUME NEW w \in Workers, WorkerStep(w) PROVE PoolInv'
  BY <1>6, PoolWorker
<1>7. CASE UNCHANGED vars
  BY <1>0, <1>7, <1>s, <1>e, PoolFrame DEF vars, actorVars, scanVars
<1> QED BY <1>1, <1>2, <1>3, <1>4, <1>5, <1>6, <1>7 DEF Next

\* Each job is the current attempt of its actor and no actor has two, so the
\* engine's stale-completion branch is never taken.
THEOREM JobsAreCurrent == Spec => []JobsCurrent
<1>1. PoolInv => JobsCurrent BY DEF PoolInv, JobsInv
<1> QED BY <1>1, PoolInit, PoolNext, PTL DEF Spec

\* The enqueue that panics on a full channel never meets one.
THEOREM AdmissionIsSafe == Spec => []AdmissionSafe
<1>1. PoolInv => AdmissionSafe BY DEF PoolInv, AdmissionInv
<1> QED BY <1>1, PoolInit, PoolNext, PTL DEF Spec

\* Until the pool stops, a job exists for each actor marked in flight.
THEOREM InFlightIsBacked == Spec => []InFlightBacked
<1>1. PoolInv => InFlightBacked BY DEF PoolInv
<1> QED BY <1>1, PoolInit, PoolNext, PTL DEF Spec

\* A fresh snapshot always shows the attempt a worker is about to run.
THEOREM SnapshotIsFresh == Spec => []SnapshotShowsAttempt
<1>1. PoolInv => SnapshotShowsAttempt BY DEF PoolInv
<1> QED BY <1>1, PoolInit, PoolNext, PTL DEF Spec

\* A job always stands for the current attempt of its actor, and until the pool stops
\* every attempt in flight has one.
THEOREM JobsAreSound == Spec => []JobsSound
BY JobsAreCurrent, InFlightIsBacked, PTL DEF JobsSound

\* A job is handed over safely: into a channel with room for it, to a worker that sees
\* the attempt it is about to run.
THEOREM HandOverIsSafe == Spec => []HandOverSafe
BY AdmissionIsSafe, SnapshotIsFresh, PTL DEF HandOverSafe

----------------------------------------------------------------------------
(* Stimuli: owed once. *)

Distinct(P) == \A x, y \in P : x.src = y.src /\ x.src # NoSource => x = y

\* The batch of a job is what its actor's in-flight keys were taken from.
Batched(job) == Distinct(job.warrants) /\ Keys(job.warrants) = inFlight[job.actor]

OwedInv ==
    /\ StimulusOwedOnce
    /\ \A a \in Actors : attempt[a] = NoAttempt => inFlight[a] = {}
    /\ \A l \in Lanes : \A i \in DOMAIN queue[l] : Batched(queue[l][i])
    /\ \A w \in Workers : Busy(w) => Batched(wjob[w])
    /\ \A w \in Workers : wres[w].carry \subseteq wjob[w].warrants

LEMMA KeysIn == ASSUME NEW P, NEW k PROVE k \in Keys(P) <=> k # NoSource /\ \E x \in P : x.src = k
BY DEF Keys

\* A completion: what it reopens was in flight, what it remembers leaves the pile.
LEMMA OwedSettle ==
    ASSUME TypeOK, OwedInv, NEW a \in Actors, NEW res \in Result, NEW batch \in SUBSET Warrants,
           Distinct(batch), Keys(batch) = inFlight[a], res.carry \subseteq batch,
           Settle(a, res)
    PROVE  /\ StimulusOwedOnce'
           /\ inFlight' = [inFlight EXCEPT ![a] = {}]
<1>1. PICK pile \in Reopened(a, res) : \E full :
          /\ pending' = [pending EXCEPT ![a] = full]
          /\ full = pile \/ full \in Capped(pile, {Unfinished})
  BY DEF Settle
<1>2. PICK full :
          /\ pending' = [pending EXCEPT ![a] = full]
          /\ full = pile \/ full \in Capped(pile, {Unfinished})
  BY <1>1
<1>3. PICK kept \in Capped(pending[a], res.carry) :
          pile = {x \in kept : x.src \notin Discharged(res)}
  BY DEF Reopened
<1>4. kept \subseteq pending[a] \cup res.carry
  BY CappedSubset
<1>5. full \subseteq pile \cup {Unfinished}
  BY <1>2, CappedSubset
<1>6. \A x \in full : x.src # NoSource => x \in kept /\ x.src \notin Discharged(res)
  BY <1>3, <1>5
<1>7. Distinct(full)
  BY <1>4, <1>6, KeysIn DEF OwedInv, StimulusOwedOnce, Distinct
<1>8. recent' = [recent EXCEPT ![a] = @ \cup Consumed(a, res)]
      /\ inFlight' = [inFlight EXCEPT ![a] = {}]
  BY DEF Settle
<1>9. Keys(full) \cap (recent[a] \cup Consumed(a, res)) = {}
  <2> SUFFICES ASSUME NEW k \in Keys(full) PROVE k \notin recent[a] /\ k \notin Consumed(a, res)
    OBVIOUS
  <2>1. PICK x \in full : x.src = k /\ k # NoSource
    BY KeysIn
  <2>2. x \in kept /\ k \notin Discharged(res)
    BY <1>6, <2>1
  <2>3. CASE x \in pending[a]
    <3>1. k \in Keys(pending[a]) BY <2>1, <2>3, KeysIn
    <3> QED BY <2>2, <3>1 DEF OwedInv, StimulusOwedOnce, Consumed
  <2>4. CASE x \in res.carry
    <3>1. k \in Keys(res.carry) /\ k \in inFlight[a] BY <2>1, <2>4, KeysIn
    <3> QED BY <2>2, <3>1 DEF OwedInv, StimulusOwedOnce, Consumed
  <2> QED BY <1>4, <2>2, <2>3, <2>4
<1>10. StimulusOwedOnce'
  <2>1. \A b \in Actors : b # a => /\ pending'[b] = pending[b] /\ recent'[b] = recent[b]
                                   /\ inFlight'[b] = inFlight[b]
    BY <1>2, <1>8 DEF TypeOK
  <2>2. pending'[a] = full /\ inFlight'[a] = {} /\ recent'[a] = recent[a] \cup Consumed(a, res)
    BY <1>2, <1>8 DEF TypeOK
  <2> QED BY <1>7, <1>9, <2>1, <2>2 DEF OwedInv, StimulusOwedOnce, Distinct
<1> QED BY <1>8, <1>10

\* Steps that only shrink or leave an actor's memory.
LEMMA OwedShrink ==
    ASSUME TypeOK, OwedInv, UNCHANGED <<inFlight, attempt, queue, wjob, wres>>,
           \A a \in Actors : pending'[a] \subseteq pending[a] /\ recent'[a] \subseteq recent[a]
    PROVE  OwedInv'
<1>1. \A a \in Actors : Keys(pending'[a]) \subseteq Keys(pending[a])
  BY DEF Keys
<1>2. StimulusOwedOnce'
  BY <1>1 DEF OwedInv, StimulusOwedOnce
<1> QED BY <1>2 DEF OwedInv, Batched, Busy

LEMMA OwedEnvironment ==
    ASSUME TypeOK, OwedInv, NEW a \in Actors, Environment(a)
    PROVE  OwedInv'
<1>1. ASSUME NEW w \in Warrants, Stamp(a, w) PROVE OwedInv'
  <2>1. PICK pile \in Capped(pending[a], {w}) : pending' = [pending EXCEPT ![a] = pile]
    BY <1>1 DEF Stamp
  <2>2. pile \subseteq pending[a] \cup {w}
    BY <2>1, CappedSubset
  <2>3. ~Declined(a, w) /\ UNCHANGED <<inFlight, recent, attempt, queue, wjob, wres>>
    BY <1>1 DEF Stamp, workerVars
  <2>4. w.src # NoSource => w.src \notin Keys(pending[a]) \cup inFlight[a] \cup recent[a]
    BY <2>3 DEF Declined
  <2>5. Distinct(pile)
    BY <2>2, <2>4, KeysIn DEF OwedInv, StimulusOwedOnce, Distinct
  <2>6. Keys(pile) \subseteq Keys(pending[a]) \cup ({w.src} \ {NoSource})
    BY <2>2 DEF Keys
  <2>7. StimulusOwedOnce'
    BY <2>1, <2>3, <2>4, <2>5, <2>6 DEF OwedInv, StimulusOwedOnce, Distinct, TypeOK
  <2> QED BY <2>3, <2>7 DEF OwedInv, Batched, Busy
<1>2. CASE ChangeHolds(a)
  BY <1>2, OwedShrink DEF ChangeHolds, actorVars, workerVars
<1>3. ASSUME NEW k \in Sources, Forget(a, k) PROVE OwedInv'
  <2>1. \A b \in Actors : recent'[b] \subseteq recent[b]
    BY <1>3 DEF Forget, TypeOK
  <2> QED BY <1>3, <2>1, OwedShrink DEF Forget, workerVars
<1> QED BY <1>1, <1>2, <1>3 DEF Environment

LEMMA OwedEvaluate ==
    ASSUME PoolInv, OwedInv, NEW a \in Actors, Evaluate(a)
    PROVE  OwedInv'
<1>t. TypeOK BY DEF PoolInv
<1>1. CASE Shelve(a) \/ Pace(a) \/ AwaitRoom(a) \/ Admit(a)
  <2>1. /\ UNCHANGED <<inFlight, attempt, queue, wjob, wres, recent>>
        /\ \/ UNCHANGED pending
           \/ \E kept \in SUBSET pending[a] : pending' = [pending EXCEPT ![a] = kept]
    BY <1>1 DEF Shelve, Pace, AwaitRoom, Admit, DeferCycle, PruneCycle, actorVars, workerVars
  <2>2. \A b \in Actors : pending'[b] \subseteq pending[b]
    BY <1>t, <2>1 DEF TypeOK
  <2> QED BY <1>t, <2>1, <2>2, OwedShrink
<1>2. CASE Emit(a)
  <2>1. PICK x \in Attempts, l \in Lanes :
            /\ attempt' = [attempt EXCEPT ![a] = x]
            /\ queue' = [queue EXCEPT ![l] = Append(@,
                  [actor |-> a, attempt |-> x, warrants |-> pending[a]])]
    BY <1>2, AdmissionEmit DEF PoolInv
  <2>2. /\ inFlight' = [inFlight EXCEPT ![a] = Keys(pending[a])]
        /\ pending' = [pending EXCEPT ![a] = {}]
        /\ UNCHANGED <<recent, wjob, wres>> /\ a \in scan
    BY <1>2 DEF Emit, workerVars
  <2>3. attempt[a] = NoAttempt
    BY <2>2 DEF PoolInv, JobsInv
  <2>4. StimulusOwedOnce'
    <3>1. Keys({}) = {} BY DEF Keys
    <3> QED BY <1>t, <2>2, <3>1 DEF OwedInv, StimulusOwedOnce, TypeOK
  <2>5. \A m \in Lanes : \A i \in DOMAIN queue[m] : queue[m][i].actor # a
    BY <1>t, <2>3, QueuedJobs DEF PoolInv, JobsInv, JobsCurrent
  <2>6. \A w \in Workers : Busy(w) => wjob[w].actor # a /\ wjob[w].actor \in Actors
    BY <1>t, <2>3 DEF PoolInv, JobsInv, JobsCurrent, Busy, TypeOK, Job, NoJob
  <2> DEFINE job == [actor |-> a, attempt |-> x, warrants |-> pending[a]]
  <2>7. \A i \in DOMAIN Append(queue[l], job) :
           \/ Append(queue[l], job)[i] = job
           \/ i \in DOMAIN queue[l] /\ Append(queue[l], job)[i] = queue[l][i]
    <3>1. queue[l] \in Seq(Job) BY <1>t DEF TypeOK
    <3> HIDE DEF job
    <3> QED BY <3>1
  <2>8. \A m \in Lanes : \A i \in DOMAIN queue'[m] :
           \/ queue'[m][i] = job
           \/ i \in DOMAIN queue[m] /\ queue'[m][i] = queue[m][i]
    BY <1>t, <2>1, <2>7 DEF TypeOK
  <2>9. Distinct(job.warrants) /\ Keys(job.warrants) = inFlight'[job.actor]
    BY <1>t, <2>2 DEF OwedInv, StimulusOwedOnce, Distinct, TypeOK
  <2> HIDE DEF job
  <2>10. ASSUME NEW m \in Lanes, NEW i \in DOMAIN queue'[m]
         PROVE  /\ Distinct(queue'[m][i].warrants)
                /\ Keys(queue'[m][i].warrants) = inFlight'[queue'[m][i].actor]
    <3>1. CASE queue'[m][i] = job BY <2>9, <3>1
    <3>2. CASE i \in DOMAIN queue[m] /\ queue'[m][i] = queue[m][i]
      <4>1. queue[m][i].actor # a /\ queue[m][i].actor \in Actors
        BY <1>t, <2>5, <3>2, QueuedJobs
      <4>2. inFlight'[queue[m][i].actor] = inFlight[queue[m][i].actor]
        BY <1>t, <2>2, <4>1 DEF TypeOK
      <4> QED BY <3>2, <4>2 DEF OwedInv, Batched
    <3> QED BY <2>8, <3>1, <3>2
  <2>11. \A w \in Workers : Busy(w)' =>
            /\ Distinct(wjob'[w].warrants)
            /\ Keys(wjob'[w].warrants) = inFlight'[wjob'[w].actor]
    BY <1>t, <2>2, <2>6 DEF OwedInv, Batched, Busy, TypeOK
  <2>12. \A b \in Actors : attempt'[b] = NoAttempt => inFlight'[b] = {}
    BY <1>t, <2>1, <2>2 DEF OwedInv, TypeOK
  <2>13. \A w \in Workers : wres'[w].carry \subseteq wjob'[w].warrants
    BY <2>2 DEF OwedInv
  <2> QED BY <2>4, <2>10, <2>11, <2>12, <2>13 DEF OwedInv, Batched
<1> QED BY <1>1, <1>2 DEF Evaluate

\* A worker's own step: the world and the lanes stay, it keeps its job or drops it.
LEMMA OwedWorkerFrame ==
    ASSUME TypeOK, OwedInv, NEW w \in Workers,
           UNCHANGED <<pending, inFlight, recent, attempt, queue>>,
           \/ UNCHANGED wjob
           \/ wjob' = [wjob EXCEPT ![w] = NoJob],
           \A v \in Workers \ {w} : wres'[v] = wres[v],
           wres'[w].carry \subseteq wjob'[w].warrants
    PROVE  OwedInv'
<1>0. wjob \in [Workers -> Job \cup {NoJob}] BY DEF TypeOK
<1>2. \A v \in Workers : v # w => wjob'[v] = wjob[v]
  BY <1>0
<1>4. wjob'[w] = wjob[w] \/ wjob'[w].actor = NoActor
  BY <1>0 DEF NoJob
<1>1. \A v \in Workers : Busy(v)' => wjob'[v] = wjob[v] /\ Busy(v)
  BY <1>2, <1>4 DEF Busy
<1>3. \A v \in Workers : wres'[v].carry \subseteq wjob'[v].warrants
  BY <1>2 DEF OwedInv
<1> QED BY <1>1, <1>3 DEF OwedInv, StimulusOwedOnce, Batched

\* A worker takes the first job of a lane.
LEMMA OwedTake ==
    ASSUME PoolInv, OwedInv, NEW w \in Workers, NEW l \in Lanes, Take(w, l),
           wpc[w] \notin Working
    PROVE  OwedInv'
<1>t. TypeOK BY DEF PoolInv
<1>1. /\ queue[l] # <<>> /\ queue[l] \in Seq(Job)
      /\ wjob' = [wjob EXCEPT ![w] = Head(queue[l])]
      /\ queue' = [queue EXCEPT ![l] = Tail(@)]
      /\ UNCHANGED <<pending, inFlight, recent, attempt, wres>>
  BY <1>t DEF Take, worldVars, actorVars, TypeOK
<1>2. wres[w].carry = {}
  <2>1. wjob[w] = NoJob BY <1>t DEF PoolInv, JobsInv, Busy, TypeOK, Job
  <2> QED BY <2>1 DEF OwedInv, NoJob
<1>3. 1 \in DOMAIN queue[l] /\ Head(queue[l]) = queue[l][1]
  BY <1>1
<1>4. ASSUME NEW m \in Lanes, NEW i \in DOMAIN queue'[m]
      PROVE  \E j \in DOMAIN queue[m] : queue'[m][i] = queue[m][j]
  <2>1. CASE m = l
    <3>1. i + 1 \in DOMAIN queue[l] /\ Tail(queue[l])[i] = queue[l][i + 1]
      BY <1>1, <2>1, <1>t DEF TypeOK
    <3> QED BY <1>1, <1>t, <2>1, <3>1 DEF TypeOK
  <2>2. CASE m # l BY <1>1, <1>t, <2>2 DEF TypeOK
  <2> QED BY <2>1, <2>2
<1>5. \A v \in Workers : wjob'[v] = IF v = w THEN queue[l][1] ELSE wjob[v]
  BY <1>1, <1>3, <1>t DEF TypeOK
<1>6. ASSUME NEW m \in Lanes, NEW i \in DOMAIN queue'[m] 
      PROVE  /\ Distinct(queue'[m][i].warrants)
             /\ Keys(queue'[m][i].warrants) = inFlight'[queue'[m][i].actor]
  BY <1>1, <1>4 DEF OwedInv, Batched
<1>7. \A v \in Workers : Busy(v)' => /\ Distinct(wjob'[v].warrants)
                                     /\ Keys(wjob'[v].warrants) = inFlight'[wjob'[v].actor]
  BY <1>1, <1>3, <1>5 DEF OwedInv, Batched, Busy
<1>8. \A v \in Workers : wres'[v].carry \subseteq wjob'[v].warrants
  BY <1>1, <1>2, <1>5 DEF OwedInv
<1> QED BY <1>1, <1>6, <1>7, <1>8 DEF OwedInv, StimulusOwedOnce, Batched

\* A completion: the policy is applied, or the attempt was no longer current.
LEMMA OwedComplete ==
    ASSUME PoolInv, OwedInv, NEW w \in Workers, Complete(w)
    PROVE  OwedInv'
<1>t. TypeOK BY DEF PoolInv
<1>1. Busy(w) /\ wjob[w].attempt = attempt[wjob[w].actor]
  BY DEF Complete, Working, PoolInv, JobsInv, JobsCurrent
<1>2. wjob[w] \in Job /\ wjob[w].actor \in Actors /\ wjob[w].warrants \in SUBSET Warrants
  BY <1>t, <1>1 DEF Busy, TypeOK, NoJob, Job
<1> DEFINE a == wjob[w].actor
<1>3. /\ Settle(a, wres[w]) /\ UNCHANGED queue
      /\ wjob' = [wjob EXCEPT ![w] = NoJob] /\ wres' = [wres EXCEPT ![w] = NoResult]
  BY <1>1 DEF Complete, Release
<1>4. Distinct(wjob[w].warrants) /\ Keys(wjob[w].warrants) = inFlight[a]
  BY <1>1 DEF OwedInv, Batched
<1>5. wres[w] \in Result /\ wres[w].carry \subseteq wjob[w].warrants
  BY <1>t DEF OwedInv, TypeOK
<1> HIDE DEF a
<1>6. StimulusOwedOnce' /\ inFlight' = [inFlight EXCEPT ![a] = {}] /\ a \in Actors
  <2>1. a \in Actors BY <1>2 DEF a
  <2> QED BY <1>t, <1>2, <1>3, <1>4, <1>5, <2>1, OwedSettle
<1>7. \A b \in Actors : b # a => attempt'[b] = attempt[b] /\ inFlight'[b] = inFlight[b]
  BY <1>t, <1>3, <1>6 DEF Settle, TypeOK
<1>8. \A b \in Actors : attempt'[b] = NoAttempt => inFlight'[b] = {}
  BY <1>t, <1>6, <1>7 DEF OwedInv, TypeOK
<1>9. ASSUME NEW m \in Lanes, NEW i \in DOMAIN queue[m]
      PROVE  Batched(queue[m][i])'
  <2>1. queue[m][i].actor # a /\ queue[m][i].actor \in Actors
    BY <1>t, QueuedJobs DEF a, PoolInv, JobsInv, JobsCurrent
  <2> QED BY <1>3, <1>7, <2>1 DEF OwedInv, Batched
<1>10. ASSUME NEW v \in Workers, Busy(v)'
       PROVE  Batched(wjob[v])'
  <2>1. wjob'[v] = wjob[v] /\ v # w /\ Busy(v)
    BY <1>t, <1>3, <1>10 DEF Busy, TypeOK, NoJob
  <2>2. wjob[v].actor # a /\ wjob[v].actor \in Actors
    BY <1>t, <1>1, <2>1 DEF a, PoolInv, JobsInv, JobsCurrent, Busy, TypeOK, Job, NoJob
  <2> QED BY <1>7, <2>1, <2>2 DEF OwedInv, Batched
<1>11. \A v \in Workers : wres'[v].carry \subseteq wjob'[v].warrants
  BY <1>t, <1>3 DEF OwedInv, TypeOK, NoResult, Outcome
<1> QED BY <1>3, <1>6, <1>8, <1>9, <1>10, <1>11 DEF OwedInv

LEMMA OwedWorker ==
    ASSUME PoolInv, OwedInv, NEW w \in Workers, WorkerStep(w)
    PROVE  OwedInv'
<1>t. TypeOK BY DEF PoolInv
<1>f. ASSUME NEW status, NEW carry \in SUBSET wjob[w].warrants, Finish(w, status, carry)
      PROVE  OwedInv'
  <2>1. wres'[w].carry \subseteq wjob'[w].warrants /\ \A v \in Workers \ {w} : wres'[v] = wres[v]
    BY <1>t, <1>f DEF Finish, TypeOK, Outcome
  <2> QED BY <1>t, <1>f, <2>1, OwedWorkerFrame DEF Finish, worldVars, actorVars
<1>p. ASSUME NEW pc, PassOver(w, pc) PROVE OwedInv'
  BY <1>t, <1>p, OwedWorkerFrame DEF PassOver, worldVars, actorVars, OwedInv
<1>c. wres[w].carry \subseteq wjob[w].warrants
  BY DEF OwedInv
<1>1. CASE LookVillage(w)
  <2>1. wpc[w] \notin Working BY <1>1 DEF LookVillage, Working
  <2>2. CASE Take(w, "village") BY <2>1, <2>2, OwedTake DEF Lanes
  <2> QED BY <1>1, <1>p, <2>2 DEF LookVillage
<1>2. CASE LookPlayer(w)
  <2>1. wpc[w] \notin Working BY <1>2 DEF LookPlayer, Working
  <2>2. CASE Take(w, "player") BY <2>1, <2>2, OwedTake DEF Lanes
  <2> QED BY <1>2, <1>p, <2>2 DEF LookPlayer
<1>3. CASE Select(w)
  BY <1>3, <1>p, OwedTake DEF Select, Working
<1>4. CASE CheckStop(w)
  <2>1. /\ wres' = [wres EXCEPT ![w] = NoResult]
        /\ UNCHANGED <<pending, inFlight, recent, attempt, queue>>
        /\ UNCHANGED wjob \/ wjob' = [wjob EXCEPT ![w] = NoJob]
    BY <1>4 DEF CheckStop, worldVars, actorVars
  <2>2. wres'[w].carry = {} /\ \A v \in Workers \ {w} : wres'[v] = wres[v]
    BY <1>t, <2>1 DEF TypeOK, NoResult, Outcome
  <2> QED BY <1>t, <2>1, <2>2, OwedWorkerFrame
<1>5. CASE Preflight(w) BY <1>5, <1>f, <1>p DEF Preflight
<1>6. CASE SkipNoop(w) BY <1>6, <1>f DEF SkipNoop
<1>7. CASE Render(w)
  <2>1. PICK dropped \in SUBSET wjob[w].warrants, shown \in SUBSET Sources :
            wres' = [wres EXCEPT ![w] = Outcome("unknown", dropped, shown, FALSE)]
    BY <1>7 DEF Render
  <2>2. /\ wres'[w].carry \subseteq wjob'[w].warrants
        /\ \A v \in Workers \ {w} : wres'[v] = wres[v]
    BY <1>t, <1>7, <2>1 DEF Render, TypeOK, Outcome
  <2> QED BY <1>t, <1>7, <2>2, OwedWorkerFrame DEF Render, worldVars, actorVars
<1>8. CASE Respond(w) BY <1>8, <1>p DEF Respond
<1>9. CASE LLMFails(w) BY <1>9, <1>c, <1>f DEF LLMFails
<1>10. CASE Cancelled(w) BY <1>10, <1>c, <1>f DEF Cancelled
<1>11. CASE EndTurn(w)
  <2>1. PICK status \in {"success", "done", "budget"}, unfinished \in BOOLEAN :
            wres' = [wres EXCEPT ![w] = Outcome(status, @.carry, @.shown, unfinished)]
    BY <1>11 DEF EndTurn
  <2>2. /\ wres'[w].carry \subseteq wjob'[w].warrants
        /\ \A v \in Workers \ {w} : wres'[v] = wres[v]
    BY <1>t, <1>c, <1>11, <2>1 DEF EndTurn, TypeOK, Outcome
  <2> QED BY <1>t, <1>11, <2>2, OwedWorkerFrame DEF EndTurn, worldVars, actorVars
<1>12. CASE Complete(w) BY <1>12, OwedComplete
<1>13. CASE CompleteLost(w)
  <2>1. wres'[w].carry = {} /\ \A v \in Workers \ {w} : wres'[v] = wres[v]
    BY <1>t, <1>13 DEF CompleteLost, Release, TypeOK, NoResult, Outcome
  <2> QED BY <1>t, <1>13, <2>1, OwedWorkerFrame DEF CompleteLost, Release, worldVars, actorVars
<1> QED BY <1>1, <1>2, <1>3, <1>4, <1>5, <1>6, <1>7, <1>8, <1>9, <1>10, <1>11, <1>12, <1>13
        DEF WorkerStep

LEMMA OwedInit == Init => OwedInv
BY DEF Init, OwedInv, StimulusOwedOnce, Keys, Busy, NoJob, NoResult, Outcome, Lanes

LEMMA OwedNext == PoolInv /\ OwedInv /\ [Next]_vars => OwedInv'
<1> SUFFICES ASSUME PoolInv, OwedInv, [Next]_vars PROVE OwedInv'
  OBVIOUS
<1>t. TypeOK BY DEF PoolInv
<1>1. ASSUME NEW a \in Actors, Environment(a) PROVE OwedInv'
  BY <1>t, <1>1, OwedEnvironment
<1>2. ASSUME NEW a \in Actors, Evaluate(a) PROVE OwedInv'
  BY <1>2, OwedEvaluate
<1>3. CASE StartScan \/ Publish \/ Stop \/ UNCHANGED vars
  <2>1. UNCHANGED <<pending, recent, inFlight, attempt, queue, wjob, wres>>
    BY <1>3 DEF StartScan, Publish, Stop, vars, actorVars, workerVars
  <2> QED BY <1>t, <2>1, OwedShrink
<1>4. CASE Restart
  BY <1>4 DEF Restart, OwedInv, StimulusOwedOnce, Keys, Busy, NoJob, NoResult, Outcome, Lanes
<1>5. ASSUME NEW w \in Workers, WorkerStep(w) PROVE OwedInv'
  BY <1>5, OwedWorker
<1> QED BY <1>1, <1>2, <1>3, <1>4, <1>5 DEF Next

\* A stimulus is in one place of an actor's memory, on one warrant: stamping,
\* the carry-forward and the discharge of a completion never double it.
THEOREM StimulusIsOwedOnce == Spec => []StimulusOwedOnce
<1>1. Init => PoolInv /\ OwedInv BY PoolInit, OwedInit
<1>2. PoolInv /\ OwedInv /\ [Next]_vars => PoolInv' /\ OwedInv' BY PoolNext, OwedNext
<1>3. PoolInv /\ OwedInv => StimulusOwedOnce BY DEF OwedInv
<1> QED BY <1>1, <1>2, <1>3, PTL DEF Spec

----------------------------------------------------------------------------
(* Completions: what an attempt consumed is owed again or remembered. *)

\* A worker that has come to complete has a status, and one that found the snapshot
\* lagging carries its whole batch.
ResultInv ==
    \A w \in Workers : wpc[w] = "complete" =>
        /\ wres[w].status # "unknown"
        /\ wres[w].status = "lagging" => wres[w].carry = wjob[w].warrants

LEMMA ResultFinish ==
    ASSUME TypeOK, ResultInv, NEW w \in Workers, NEW status \in Statuses \ {"unknown"},
           NEW carry, status = "lagging" => carry = wjob[w].warrants, Finish(w, status, carry)
    PROVE  ResultInv'
<1>1. /\ wres' = [wres EXCEPT ![w] = Outcome(status, carry, wres[w].shown, FALSE)]
      /\ wpc' = [wpc EXCEPT ![w] = "complete"] /\ UNCHANGED wjob
  BY DEF Finish, Goto
<1>2. wres'[w].status = status /\ wres'[w].carry = carry
  BY <1>1 DEF TypeOK, Outcome
<1>3. \A v \in Workers \ {w} : wres'[v] = wres[v] /\ wpc'[v] = wpc[v]
  BY <1>1 DEF TypeOK
<1> QED BY <1>1, <1>2, <1>3 DEF ResultInv

\* A worker that goes anywhere else.
LEMMA ResultMoves ==
    ASSUME TypeOK, ResultInv, NEW w \in Workers, NEW pc, pc # "complete", Goto(w, pc),
           \A v \in Workers \ {w} : wres'[v] = wres[v] /\ wjob'[v] = wjob[v]
    PROVE  ResultInv'
<1>1. wpc'[w] = pc /\ \A v \in Workers \ {w} : wpc'[v] = wpc[v]
  BY DEF Goto, TypeOK
<1> QED BY <1>1 DEF ResultInv

LEMMA ResultPassOver ==
    ASSUME TypeOK, ResultInv, NEW w \in Workers, NEW pc, pc # "complete", PassOver(w, pc)
    PROVE  ResultInv'
BY ResultMoves DEF PassOver

LEMMA ResultTake ==
    ASSUME TypeOK, ResultInv, NEW w \in Workers, NEW l \in Lanes, Take(w, l)
    PROVE  ResultInv'
<1>1. \A v \in Workers \ {w} : wres'[v] = wres[v] /\ wjob'[v] = wjob[v]
  BY DEF Take, TypeOK
<1> QED BY <1>1, ResultMoves DEF Take

LEMMA ResultWorker ==
    ASSUME TypeOK, SnapshotShowsAttempt', ResultInv, NEW w \in Workers, WorkerStep(w)
    PROVE  ResultInv'
<1>1. CASE LookVillage(w) \/ LookPlayer(w) \/ Select(w)
  BY <1>1, ResultTake, ResultPassOver DEF LookVillage, LookPlayer, Select, Lanes
<1>2. CASE CheckStop(w)
  <2>1. \A v \in Workers \ {w} : wres'[v] = wres[v] /\ wjob'[v] = wjob[v]
    BY <1>2 DEF CheckStop, TypeOK
  <2> QED BY <1>2, <2>1, ResultMoves DEF CheckStop
<1>3. CASE Preflight(w)
  BY <1>3, ResultFinish, ResultPassOver DEF Preflight, Statuses
<1>4. CASE SkipNoop(w)
  BY <1>4, ResultFinish DEF SkipNoop, Statuses
<1>5. CASE Render(w)
  <2>1. \A v \in Workers \ {w} : wres'[v] = wres[v] /\ wjob'[v] = wjob[v]
    BY <1>5 DEF Render, TypeOK
  <2> QED BY <1>5, <2>1, ResultMoves DEF Render
<1>6. CASE Respond(w)
  BY <1>6, ResultPassOver DEF Respond
<1>7. CASE LLMFails(w) \/ Cancelled(w)
  BY <1>7, ResultFinish DEF LLMFails, Cancelled, Statuses
<1>8. CASE EndTurn(w)
  <2>1. PICK status \in {"success", "done", "budget"}, unfinished \in BOOLEAN :
            wres' = [wres EXCEPT ![w] = Outcome(status, @.carry, @.shown, unfinished)]
    BY <1>8 DEF EndTurn
  <2>2. wres'[w].status = status /\ \A v \in Workers \ {w} : wres'[v] = wres[v]
    BY <2>1 DEF TypeOK, Outcome
  <2>3. UNCHANGED wjob /\ \A v \in Workers \ {w} : wpc'[v] = wpc[v]
    BY <1>8 DEF EndTurn, Goto, TypeOK
  <2> QED BY <2>2, <2>3 DEF ResultInv
<1>9. CASE Complete(w) \/ CompleteLost(w)
  <2>1. Release(w)
    BY <1>9 DEF Complete, CompleteLost
  <2>2. \A v \in Workers \ {w} : wres'[v] = wres[v] /\ wjob'[v] = wjob[v]
    BY <2>1 DEF Release, TypeOK
  <2> QED BY <2>1, <2>2, ResultMoves DEF Release
<1> QED BY <1>1, <1>2, <1>3, <1>4, <1>5, <1>6, <1>7, <1>8, <1>9 DEF WorkerStep

LEMMA ResultNext == PoolInv /\ ResultInv /\ [Next]_vars => ResultInv'
<1> SUFFICES ASSUME PoolInv, ResultInv, [Next]_vars PROVE ResultInv'
  OBVIOUS
<1>1. TypeOK /\ SnapshotShowsAttempt'
  BY PoolNext DEF PoolInv
<1>2. ASSUME NEW a \in Actors, Environment(a) \/ Evaluate(a) PROVE UNCHANGED workerVars
  BY <1>2 DEF Environment, Stamp, ChangeHolds, Forget, Evaluate, Shelve, Pace, AwaitRoom, Admit,
              Emit, DeferCycle, PruneCycle
<1>3. CASE StartScan \/ Publish \/ Stop \/ UNCHANGED vars
  BY <1>3 DEF StartScan, Publish, Stop, vars, workerVars, ResultInv
<1>4. CASE Restart
  BY <1>4 DEF Restart, ResultInv
<1>5. ASSUME NEW w \in Workers, WorkerStep(w) PROVE ResultInv'
  BY <1>1, <1>5, ResultWorker
<1> QED BY <1>2, <1>3, <1>4, <1>5 DEF Next, workerVars, ResultInv

\* A pile the cap cut down, after the discharge, is still at the cap, unless all that
\* was carried is in it.
LEMMA CarriedKept ==
    ASSUME NEW a \in Actors, NEW res \in Result, NEW pile \in Reopened(a, res)
    PROVE  Keys(res.carry) \subseteq Keys(pile) \/ Cardinality(pile) = WarrantCap
<1>1. PICK kept \in Capped(pending[a], res.carry) :
          pile = {x \in kept : x.src \notin Discharged(res)}
  BY DEF Reopened
<1>2. \A x \in res.carry : x.src \notin Discharged(res)
  BY DEF Discharged, Keys, Result, Warrant
<1>3. CASE res.carry \subseteq kept
  BY <1>1, <1>2, <1>3 DEF Keys
<1>4. CASE ~(res.carry \subseteq kept)
  <2>1. kept \subseteq res.carry /\ Cardinality(kept) = WarrantCap
    BY <1>1, <1>4 DEF Capped
  <2>2. pile = kept
    BY <1>1, <1>2, <2>1
  <2> QED BY <2>1, <2>2
<1> QED BY <1>3, <1>4

\* Every pile that exists is finite: a cap compares sizes.
PilesFinite ==
    /\ \A a \in Actors : IsFiniteSet(pending[a])
    /\ \A l \in Lanes : \A i \in DOMAIN queue[l] : IsFiniteSet(queue[l][i].warrants)
    /\ \A w \in Workers : IsFiniteSet(wjob[w].warrants)

LEMMA CappedFinite ==
    ASSUME NEW old, NEW new, IsFiniteSet(old), IsFiniteSet(new), NEW kept \in Capped(old, new)
    PROVE  IsFiniteSet(kept)
<1>1. IsFiniteSet(old \cup new)
  BY FS_Union
<1> QED BY <1>1, CappedSubset, FS_Subset

\* Nothing is taken from a lane: only the piles shrink, and a worker may drop its job.
LEMMA FiniteShrink ==
    ASSUME TypeOK, PilesFinite, UNCHANGED queue,
           \A a \in Actors : pending'[a] \subseteq pending[a],
           UNCHANGED wjob \/ \E w \in Workers : wjob' = [wjob EXCEPT ![w] = NoJob]
    PROVE  PilesFinite'
<1>1. \A a \in Actors : IsFiniteSet(pending'[a])
  BY FS_Subset DEF PilesFinite
<1>2. \A v \in Workers : wjob'[v] = wjob[v] \/ wjob'[v] = NoJob
  BY DEF TypeOK
<1>3. IsFiniteSet(NoJob.warrants)
  BY FS_EmptySet DEF NoJob
<1> QED BY <1>1, <1>2, <1>3 DEF PilesFinite

LEMMA FiniteTake ==
    ASSUME TypeOK, PilesFinite, NEW w \in Workers, NEW l \in Lanes, Take(w, l)
    PROVE  PilesFinite'
<1>1. /\ queue[l] # <<>> /\ queue[l] \in Seq(Job)
      /\ wjob' = [wjob EXCEPT ![w] = Head(queue[l])]
      /\ queue' = [queue EXCEPT ![l] = Tail(@)]
      /\ UNCHANGED pending
  BY DEF Take, worldVars, actorVars, TypeOK
<1>2. 1 \in DOMAIN queue[l] /\ Head(queue[l]) = queue[l][1]
  BY <1>1
<1>3. \A v \in Workers : wjob'[v] = wjob[v] \/ wjob'[v] = queue[l][1]
  BY <1>1, <1>2 DEF TypeOK
<1>4. ASSUME NEW m \in Lanes, NEW i \in DOMAIN queue'[m]
      PROVE  \E j \in DOMAIN queue[m] : queue'[m][i] = queue[m][j]
  <2>1. CASE m = l
    <3>1. i + 1 \in DOMAIN queue[l] /\ Tail(queue[l])[i] = queue[l][i + 1]
      BY <1>1, <2>1 DEF TypeOK
    <3> QED BY <1>1, <2>1, <3>1 DEF TypeOK
  <2>2. CASE m # l BY <1>1, <2>2 DEF TypeOK
  <2> QED BY <2>1, <2>2
<1> QED BY <1>1, <1>2, <1>3, <1>4 DEF PilesFinite

LEMMA FiniteEmit ==
    ASSUME PoolInv, PilesFinite, NEW a \in Actors, Emit(a)
    PROVE  PilesFinite'
<1>t. TypeOK BY DEF PoolInv
<1>1. PICK x \in Attempts, l \in Lanes :
          queue' = [queue EXCEPT ![l] = Append(@,
                      [actor |-> a, attempt |-> x, warrants |-> pending[a]])]
  BY AdmissionEmit DEF PoolInv
<1>2. pending' = [pending EXCEPT ![a] = {}] /\ UNCHANGED wjob
  BY DEF Emit, workerVars
<1> DEFINE job == [actor |-> a, attempt |-> x, warrants |-> pending[a]]
<1>3. IsFiniteSet(job.warrants)
  BY DEF PilesFinite
<1>4. \A i \in DOMAIN Append(queue[l], job) :
         \/ Append(queue[l], job)[i] = job
         \/ i \in DOMAIN queue[l] /\ Append(queue[l], job)[i] = queue[l][i]
  <2>1. queue[l] \in Seq(Job) BY <1>t DEF TypeOK
  <2> HIDE DEF job
  <2> QED BY <2>1
<1>5. \A m \in Lanes : \A i \in DOMAIN queue'[m] :
         \/ queue'[m][i] = job
         \/ i \in DOMAIN queue[m] /\ queue'[m][i] = queue[m][i]
  BY <1>t, <1>1, <1>4 DEF TypeOK
<1> HIDE DEF job
<1>6. \A m \in Lanes : \A i \in DOMAIN queue'[m] : IsFiniteSet(queue'[m][i].warrants)
  BY <1>3, <1>5 DEF PilesFinite
<1>7. \A b \in Actors : IsFiniteSet(pending'[b])
  BY <1>t, <1>2, FS_EmptySet DEF PilesFinite, TypeOK
<1> QED BY <1>2, <1>6, <1>7 DEF PilesFinite

LEMMA ReopenedFinite ==
    ASSUME NEW a \in Actors, NEW res, IsFiniteSet(pending[a]), IsFiniteSet(res.carry),
           NEW pile \in Reopened(a, res)
    PROVE  IsFiniteSet(pile)
<1>1. PICK kept \in Capped(pending[a], res.carry) :
          pile = {x \in kept : x.src \notin Discharged(res)}
  BY DEF Reopened
<1>2. IsFiniteSet(kept)
  BY CappedFinite
<1> QED BY <1>1, <1>2, FS_Subset

LEMMA FiniteComplete ==
    ASSUME TypeOK, OwedInv, PilesFinite, NEW w \in Workers, Complete(w)
    PROVE  PilesFinite'
<1>1. UNCHANGED queue /\ wjob' = [wjob EXCEPT ![w] = NoJob]
  BY DEF Complete, Release
<1>2. CASE UNCHANGED pending
  BY <1>1, <1>2, FiniteShrink
<1>3. CASE attempt[wjob[w].actor] = wjob[w].attempt /\ Settle(wjob[w].actor, wres[w])
  <2> DEFINE a == wjob[w].actor
  <2>1. CASE a \in Actors
    <3>1. PICK pile \in Reopened(a, wres[w]) : \E full :
              /\ pending' = [pending EXCEPT ![a] = full]
              /\ full = pile \/ full \in Capped(pile, {Unfinished})
      BY <1>3 DEF Settle
    <3>2. PICK full : /\ pending' = [pending EXCEPT ![a] = full]
                      /\ full = pile \/ full \in Capped(pile, {Unfinished})
      BY <3>1
    <3>3. IsFiniteSet(wres[w].carry)
      BY FS_Subset DEF PilesFinite, OwedInv
    <3>4. IsFiniteSet(pile)
      BY <2>1, <3>3, ReopenedFinite DEF PilesFinite
    <3>5. IsFiniteSet(full)
      BY <3>2, <3>4, CappedFinite, FS_Singleton
    <3>6. \A b \in Actors : IsFiniteSet(pending'[b])
      BY <3>2, <3>5 DEF PilesFinite, TypeOK
    <3>7. \A v \in Workers : wjob'[v] = wjob[v] \/ wjob'[v] = NoJob
      BY <1>1 DEF TypeOK
    <3>8. IsFiniteSet(NoJob.warrants)
      BY FS_EmptySet DEF NoJob
    <3> QED BY <1>1, <3>6, <3>7, <3>8 DEF PilesFinite
  <2>2. CASE a \notin Actors
    <3>1. UNCHANGED pending
      BY <1>3, <2>2 DEF Settle, TypeOK
    <3> QED BY <1>1, <3>1, FiniteShrink
  <2> QED BY <2>1, <2>2
<1> QED BY <1>2, <1>3 DEF Complete

LEMMA FiniteEmpty ==
    ASSUME pending = [a \in Actors |-> {}], queue = [l \in Lanes |-> <<>>],
           wjob = [w \in Workers |-> NoJob]
    PROVE  PilesFinite
<1>1. IsFiniteSet({}) BY FS_EmptySet
<1>2. \A w \in Workers : wjob[w].warrants = {} BY DEF NoJob
<1>3. \A l \in Lanes : \A i \in DOMAIN queue[l] : FALSE
  OBVIOUS
<1> QED BY <1>1, <1>2, <1>3 DEF PilesFinite

LEMMA FiniteInit == Init => PilesFinite
BY FiniteEmpty DEF Init

LEMMA FiniteRestart == Restart => PilesFinite'
<1> SUFFICES ASSUME Restart PROVE PilesFinite'
  OBVIOUS
<1>1. IsFiniteSet({}) BY FS_EmptySet
<1>2. \A w \in Workers : wjob'[w].warrants = {} BY DEF NoJob, Restart
<1>3. \A l \in Lanes : \A i \in DOMAIN queue'[l] : FALSE
  BY DEF Restart
<1>4. \A a \in Actors : pending'[a] = {} BY DEF Restart
<1> QED BY <1>1, <1>2, <1>3, <1>4 DEF PilesFinite

LEMMA FiniteNext == PoolInv /\ OwedInv /\ PilesFinite /\ [Next]_vars => PilesFinite'
<1> SUFFICES ASSUME PoolInv, OwedInv, PilesFinite, [Next]_vars PROVE PilesFinite'
  OBVIOUS
<1>t. TypeOK BY DEF PoolInv
<1>1. ASSUME NEW a \in Actors, Environment(a) PROVE PilesFinite'
  <2>1. UNCHANGED <<queue, wjob>>
    BY <1>1 DEF Environment, Stamp, ChangeHolds, Forget, workerVars
  <2>2. CASE UNCHANGED pending
    BY <1>t, <2>1, <2>2, FiniteShrink
  <2>3. CASE \E w \in Warrants : Stamp(a, w)
    <3>1. PICK w \in Warrants : Stamp(a, w)
      BY <2>3
    <3>2. PICK pile \in Capped(pending[a], {w}) : pending' = [pending EXCEPT ![a] = pile]
      BY <3>1 DEF Stamp
    <3>3. IsFiniteSet(pile)
      BY CappedFinite, FS_Singleton DEF PilesFinite
    <3> QED BY <1>t, <2>1, <3>2, <3>3 DEF PilesFinite, TypeOK
  <2> QED BY <1>1, <2>2, <2>3 DEF Environment, ChangeHolds, Forget, actorVars
<1>2. ASSUME NEW a \in Actors, Evaluate(a) PROVE PilesFinite'
  <2>1. CASE Shelve(a) \/ Pace(a) \/ AwaitRoom(a) \/ Admit(a)
    <3>1. /\ UNCHANGED <<queue, wjob>>
          /\ \/ UNCHANGED pending
             \/ \E kept \in SUBSET pending[a] : pending' = [pending EXCEPT ![a] = kept]
      BY <2>1 DEF Shelve, Pace, AwaitRoom, Admit, DeferCycle, PruneCycle, actorVars, workerVars
    <3>2. \A b \in Actors : pending'[b] \subseteq pending[b]
      BY <1>t, <3>1 DEF TypeOK
    <3> QED BY <1>t, <3>1, <3>2, FiniteShrink
  <2> QED BY <1>2, <2>1, FiniteEmit DEF Evaluate
<1>3. CASE StartScan \/ Publish \/ Stop \/ UNCHANGED vars
  <2>1. UNCHANGED <<pending, queue, wjob>>
    BY <1>3 DEF StartScan, Publish, Stop, vars, actorVars, workerVars
  <2> QED BY <1>t, <2>1, FiniteShrink
<1>4. CASE Restart
  BY <1>4, FiniteRestart
<1>5. ASSUME NEW w \in Workers, WorkerStep(w) PROVE PilesFinite'
  <2>1. CASE LookVillage(w) \/ LookPlayer(w) \/ Select(w)
    <3>1. CASE \E l \in Lanes : Take(w, l)
      BY <1>t, <3>1, FiniteTake
    <3>2. CASE \E pc : PassOver(w, pc)
      <4>1. UNCHANGED <<pending, queue, wjob>>
        BY <3>2 DEF PassOver, worldVars, actorVars
      <4> QED BY <1>t, <4>1, FiniteShrink
    <3> QED BY <2>1, <3>1, <3>2 DEF LookVillage, LookPlayer, Select, Lanes
  <2>2. CASE CheckStop(w) \/ CompleteLost(w)
    <3>1. /\ UNCHANGED <<pending, queue>>
          /\ UNCHANGED wjob \/ wjob' = [wjob EXCEPT ![w] = NoJob]
      BY <2>2 DEF CheckStop, CompleteLost, Release, worldVars, actorVars
    <3> QED BY <1>t, <3>1, FiniteShrink
  <2>3. CASE Complete(w)
    BY <1>t, <2>3, FiniteComplete
  <2>4. CASE \/ Preflight(w) \/ SkipNoop(w) \/ Render(w) \/ Respond(w)
             \/ LLMFails(w) \/ Cancelled(w) \/ EndTurn(w)
    <3>1. UNCHANGED <<pending, queue, wjob>>
      BY <2>4 DEF Preflight, SkipNoop, Render, Respond, LLMFails, Cancelled, EndTurn,
                  Finish, PassOver, worldVars, actorVars
    <3> QED BY <1>t, <3>1, FiniteShrink
  <2> QED BY <1>5, <2>1, <2>2, <2>3, <2>4 DEF WorkerStep
<1> QED BY <1>1, <1>2, <1>3, <1>4, <1>5 DEF Next

\* What a completion leaves pending has every carried key, or is at the cap.
LEMMA SettleCarries ==
    ASSUME TypeOK, NEW a \in Actors, NEW res \in Result, Settle(a, res),
           IsFiniteSet(pending[a]), IsFiniteSet(res.carry)
    PROVE  Keys(res.carry) \subseteq Keys(pending'[a]) \/ Cardinality(pending'[a]) = WarrantCap
<1>1. PICK pile \in Reopened(a, res) : \E full :
          /\ pending' = [pending EXCEPT ![a] = full]
          /\ full = pile \/ full \in Capped(pile, {Unfinished})
  BY DEF Settle
<1>2. PICK full : /\ pending'[a] = full
                  /\ full = pile \/ full \in Capped(pile, {Unfinished})
  BY <1>1 DEF TypeOK
<1>3. CASE full = pile
  BY <1>2, <1>3, CarriedKept
<1>4. CASE full \in Capped(pile, {Unfinished})
  <2>1. CASE Cardinality(pile \cup {Unfinished}) <= WarrantCap
    <3>1. full = pile \cup {Unfinished}
      BY <1>4, <2>1 DEF Capped
    <3>2. CASE Keys(res.carry) \subseteq Keys(pile)
      BY <1>2, <3>1, <3>2 DEF Keys
    <3>3. CASE Cardinality(pile) = WarrantCap
      <4>1. IsFiniteSet(pile)
        BY ReopenedFinite
      <4>2. Unfinished \in pile
        <5>1. Unfinished \notin pile => Cardinality(pile \cup {Unfinished}) = Cardinality(pile) + 1
          BY <4>1, FS_AddElement
        <5> QED BY <2>1, <3>3, <5>1
      <4>3. full = pile
        BY <3>1, <4>2
      <4> QED BY <1>2, <3>3, <4>3
    <3> QED BY <3>2, <3>3, CarriedKept
  <2>2. CASE ~(Cardinality(pile \cup {Unfinished}) <= WarrantCap)
    BY <1>2, <1>4, <2>2 DEF Capped
  <2> QED BY <2>1, <2>2
<1> QED BY <1>2, <1>3, <1>4

\* A completion that addressed its batch remembers what it does not carry.
LEMMA SettleRemembers ==
    ASSUME TypeOK, NEW a \in Actors, NEW res, Settle(a, res), Addresses(res.status)
    PROVE  inFlight[a] \subseteq Keys(res.carry) \cup recent'[a]
<1>1. recent'[a] = recent[a] \cup Consumed(a, res)
  BY DEF Settle, TypeOK
<1> QED BY <1>1 DEF Consumed

\* Only the completion of its own job ends an attempt while the pool runs.
LEMMA AttemptOfOthers ==
    ASSUME TypeOK, NEW a \in Actors, attempt[a] # NoAttempt, attempt'[a] = NoAttempt,
           ~stopping, [Next]_vars
    PROVE  \E v \in Workers : Complete(v) /\ wjob[v].actor = a /\ Settle(a, wres[v])
<1>1. ASSUME NEW b \in Actors, Environment(b) PROVE FALSE
  BY <1>1 DEF Environment, Stamp, ChangeHolds, Forget, actorVars
<1>2. ASSUME NEW b \in Actors, Evaluate(b) PROVE FALSE
  <2>1. CASE Emit(b)
    <3>1. PICK x \in FreshAttempts : attempt' = [attempt EXCEPT ![b] = x]
      BY <2>1 DEF Emit
    <3>2. x # NoAttempt
      BY DEF FreshAttempts
    <3> QED BY <3>1, <3>2 DEF TypeOK
  <2> QED BY <1>2, <2>1 DEF Evaluate, Shelve, Pace, AwaitRoom, Admit, DeferCycle, PruneCycle,
                            actorVars
<1>3. CASE StartScan \/ Publish \/ Stop \/ Restart \/ UNCHANGED vars
  BY <1>3 DEF StartScan, Publish, Stop, Restart, vars, actorVars
<1>4. ASSUME NEW v \in Workers, WorkerStep(v)
      PROVE  Complete(v) /\ wjob[v].actor = a /\ Settle(a, wres[v])
  <2>1. CASE LookVillage(v) \/ LookPlayer(v) \/ Select(v)
    BY <2>1 DEF LookVillage, LookPlayer, Select, Take, PassOver, worldVars, actorVars
  <2>2. CASE CheckStop(v) \/ CompleteLost(v)
    BY <2>2 DEF CheckStop, CompleteLost, worldVars, actorVars
  <2>3. CASE \/ Preflight(v) \/ SkipNoop(v) \/ Render(v) \/ Respond(v)
             \/ LLMFails(v) \/ Cancelled(v) \/ EndTurn(v)
    BY <2>3 DEF Preflight, SkipNoop, Render, Respond, LLMFails, Cancelled, EndTurn,
                Finish, PassOver, worldVars, actorVars
  <2>4. CASE Complete(v)
    <3>1. Settle(wjob[v].actor, wres[v]) \/ UNCHANGED attempt
      BY <2>4 DEF Complete
    <3>2. Settle(wjob[v].actor, wres[v])
      BY <3>1
    <3>3. attempt' = [attempt EXCEPT ![wjob[v].actor] = NoAttempt]
      BY <3>2 DEF Settle
    <3>4. wjob[v].actor = a
      BY <3>3 DEF TypeOK
    <3> QED BY <2>4, <3>2, <3>4
  <2> QED BY <1>4, <2>1, <2>2, <2>3, <2>4 DEF WorkerStep
<1> QED BY <1>1, <1>2, <1>3, <1>4 DEF Next

\* The step of CompletionAccounts.
LEMMA CompletionStep ==
    ASSUME PoolInv, OwedInv, ResultInv, PilesFinite, [Next]_vars,
           NEW w \in Workers, Busy(w), attempt[wjob[w].actor] # NoAttempt,
           attempt'[wjob[w].actor] = NoAttempt, ~stopping
    PROVE  LET a == wjob[w].actor IN
           \/ inFlight[a] \subseteq Keys(pending'[a]) \cup recent'[a]
           \/ Cardinality(pending'[a]) >= WarrantCap
           \/ wres[w].status \in Unanswered
<1> DEFINE a == wjob[w].actor
<1>t. TypeOK BY DEF PoolInv
<1>1. a \in Actors
  BY <1>t DEF Busy, TypeOK, Job, NoJob
<1>2. PICK v \in Workers : Complete(v) /\ wjob[v].actor = a /\ Settle(a, wres[v])
  BY <1>t, <1>1, AttemptOfOthers
<1>3. v = w
  BY <1>2 DEF PoolInv, JobsInv, JobsCurrent
<1>4. wpc[w] = "complete" /\ Settle(a, wres[w])
  BY <1>2, <1>3 DEF Complete
<1>5. IsFiniteSet(pending[a]) /\ IsFiniteSet(wres[w].carry) /\ wres[w] \in Result
  BY <1>t, <1>1, FS_Subset DEF PilesFinite, OwedInv, TypeOK
<1>6. Keys(wres[w].carry) \subseteq Keys(pending'[a]) \/ Cardinality(pending'[a]) = WarrantCap
  BY <1>t, <1>1, <1>4, <1>5, SettleCarries
<1>7. CASE Addresses(wres[w].status)
  <2>1. inFlight[a] \subseteq Keys(wres[w].carry) \cup recent'[a]
    BY <1>t, <1>1, <1>4, <1>7, SettleRemembers
  <2> QED BY <1>6, <2>1
<1>8. CASE wres[w].status = "lagging"
  <2>1. Keys(wres[w].carry) = inFlight[a]
    BY <1>4, <1>8 DEF ResultInv, OwedInv, Batched
  <2> QED BY <1>6, <2>1
<1>9. CASE wres[w].status \in {"failed_before", "shutdown"}
  BY <1>9 DEF Unanswered
<1>10. wres[w].status \notin {"unknown", "stale"}
  BY <1>4 DEF ResultInv, PoolInv, SnapshotShowsAttempt
<1>11. wres[w].status \in Statuses
  BY <1>5 DEF Result
<1> QED BY <1>7, <1>8, <1>9, <1>10, <1>11 DEF Addresses, Statuses

\* When a completion lands, what its attempt consumed is owed again or remembered,
\* save at the cap or when the model never answered.
THEOREM CompletionsAccount == Spec => CompletionAccounts
<1> DEFINE Inv == PoolInv /\ OwedInv /\ ResultInv /\ PilesFinite
<1>1. Init => Inv
  <2>1. Init => ResultInv
    BY DEF Init, ResultInv
  <2> QED BY <2>1, PoolInit, OwedInit, FiniteInit
<1>2. Inv /\ [Next]_vars => Inv'
  BY PoolNext, OwedNext, ResultNext, FiniteNext
<1>3. Inv /\ [Next]_vars =>
         \A w \in Workers :
            LET a == wjob[w].actor IN
            Busy(w) /\ attempt[a] # NoAttempt /\ attempt'[a] = NoAttempt /\ ~stopping =>
               \/ inFlight[a] \subseteq Keys(pending'[a]) \cup recent'[a]
               \/ Cardinality(pending'[a]) >= WarrantCap
               \/ wres[w].status \in Unanswered
  BY CompletionStep
<1> HIDE DEF Inv
<1> QED BY <1>1, <1>2, <1>3, PTL DEF Spec, CompletionAccounts

=============================================================================
