------------------------------ MODULE TurnProofs ------------------------------
(***************************************************************************)
(* Proofs about Turn, for any sets of tools and any budgets.               *)
(*                                                                         *)
(* WalkInv counts the calls of an answer while they are walked: those      *)
(* answered, those left and those beyond the cap are all of them.          *)
(* OnceInv ties the guards to the queue: what was tried may be queued or   *)
(* have taken effect, not both, and what was not tried is neither.  Until  *)
(* the worker is cancelled the queue holds the one command it waits for    *)
(* (QueueInv); afterwards commands it gave up on may stay in it.           *)
(***************************************************************************)
EXTENDS Turn, SequenceTheorems, TLAPS

USE TurnAssumption

----------------------------------------------------------------------------
(* The invariant *)

TurnType == [phase : Phases, status : Statuses,
             round : 0..maxTotalRounds, acts : 0..IterationBudget,
             left : 0..MaxToolCalls, spill : 0..MaxSpill,
             asked : 0..(MaxToolCalls + MaxSpill), tail : 0..(MaxToolCalls + MaxSpill),
             thinking : BOOLEAN, nudged : BOOLEAN, tried : SUBSET Commits,
             tool : Commits \cup {NoTool}, answer : Outcomes \cup {NoOutcome},
             retried : BOOLEAN, skipped : BOOLEAN]

Cmd == [tool : Commits \cup {"complete"}, awaited : BOOLEAN]

Batches == {"none", "open", "answered", "doubled"}

WorldOK ==
    /\ {present, inFlight, intent, stopped} \subseteq BOOLEAN
    /\ stimuli \in 0..MaxStimuli /\ cmds \in Seq(Cmd)
    /\ ran \in [Commits -> Nat] /\ unheard \in Nat /\ batch \in Batches

\* The turn has not come to an end.
Running == {"preflight", "asking", "calling", "sent"}

\* An answer's calls, while they are walked and after.
WalkOf(u, b) ==
    /\ u \in TurnType
    /\ u.phase = "preflight" => u.tail = 0 /\ u.asked = 0
    /\ u.phase \in {"asking", "ended", "report"} => u.tail = u.asked
    /\ u.phase \in {"calling", "sent"} => u.tail + u.left + u.spill = u.asked /\ b = "open"
    /\ u.phase = "sent" => u.left > 0 /\ u.tool \in Commits
    /\ u.phase \in Running => u.acts < IterationBudget
    /\ u.phase = "asking" /\ u.tail > 0 => b = "open"

WalkInv == WalkOf(turn, batch)

\* Until the worker is cancelled it waits for what it sends, and hears of it.
QueueInv ==
    ~stopped =>
       /\ turn.phase # "sent" => turn.answer = NoOutcome
       /\ turn.phase = "sent" /\ turn.answer = NoOutcome =>
             cmds = <<[tool |-> turn.tool, awaited |-> TRUE]>>
       /\ turn.phase = "reported" => cmds = <<[tool |-> "complete", awaited |-> TRUE]>>
       /\ turn.phase # "reported" /\ ~(turn.phase = "sent" /\ turn.answer = NoOutcome) => cmds = <<>>
       /\ unheard = 0

Queued(t) == \E i \in DOMAIN cmds : cmds[i].tool = t

\* What is tried once is queued or has taken effect, or it was not tried.
OnceInv ==
    \A t \in OnceTried :
       /\ ran[t] <= 1 /\ (Queued(t) => ran[t] = 0)
       /\ \A i, j \in DOMAIN cmds : cmds[i].tool = t /\ cmds[j].tool = t => i = j
       /\ turn.phase \in Running /\ t \notin turn.tried => ran[t] = 0 /\ ~Queued(t)

\* The effect of what is done once is remembered, from the answer on.
DoneInv ==
    ~stopped =>
       \A t \in OnceDone :
          /\ ran[t] <= 1
          /\ turn.phase \in Running /\ ran[t] = 1 =>
                \/ t \in turn.tried
                \/ turn.phase = "sent" /\ turn.tool = t /\ turn.answer \in Effects
          /\ turn.phase = "sent" /\ turn.tool = t /\ turn.answer = NoOutcome => ran[t] = 0

GuardInv == QueueInv /\ OnceInv /\ DoneInv

TurnInv == WorldOK /\ WalkInv /\ GuardInv

----------------------------------------------------------------------------
(* The steps of the turn, taken as steps of its record *)

LEMMA Bounds ==
    /\ IterationBudget \in Nat \ {0} /\ MaxToolCalls \in Nat \ {0}
    /\ MaxObservationRounds \in Nat /\ MaxSpill \in Nat /\ MaxStimuli \in Nat
    /\ maxTotalRounds \in Nat \ {0}
BY DEF maxTotalRounds

\* A count of calls is within bounds from none on.
LEMMA Counts ==
    /\ 0 \in 0..(MaxToolCalls + MaxSpill) /\ 0 \in 0..MaxToolCalls /\ 0 \in 0..MaxSpill
    /\ \A n \in 1..MaxToolCalls, k \in 0..MaxSpill :
          n + k \in 0..(MaxToolCalls + MaxSpill) /\ n \in 0..MaxToolCalls /\ 0 + n + k = n + k
BY Bounds

LEMMA NoTurnWalks == \A b : WalkOf(NoTurn, b)
BY Bounds DEF WalkOf, NoTurn, TurnType, Phases, Statuses, Running, maxTotalRounds

LEMMA EndedWithWalks ==
    ASSUME WalkInv, turn.phase \in {"preflight", "asking"}, NEW s \in Statuses, EndedWith(s), NEW b
    PROVE  WalkOf(turn', b)
BY Bounds DEF WalkInv, WalkOf, EndedWith, TurnType, Phases, Running

LEMMA ReplyWalks ==
    ASSUME WalkInv, Asks, ReplyProse \/ ReplyCalls
    PROVE  WalkInv'
<1>1. turn.round + 1 \in 0..maxTotalRounds /\ turn.phase = "asking"
  BY Bounds DEF WalkInv, WalkOf, TurnType, Asks, maxTotalRounds
<1>2. CASE ReplyProse
  <2>1. CASE turn' = [turn EXCEPT !.round = @ + 1, !.nudged = TRUE, !.asked = 0, !.tail = 0]
    <3>1. turn \in TurnType /\ turn.acts < IterationBudget
      BY <1>1 DEF WalkInv, WalkOf, Running
    <3>2. turn' \in TurnType
      BY Counts, <1>1, <2>1, <3>1 DEF TurnType
    <3>3. turn'.phase = "asking" /\ turn'.tail = 0 /\ turn'.asked = 0 /\ turn'.acts = turn.acts
      BY <1>1, <2>1, <3>1 DEF TurnType
    <3> QED BY <3>1, <3>2, <3>3 DEF WalkInv, WalkOf
  <2>2. CASE EndedWith("success")
    BY <1>1, <2>2, EndedWithWalks DEF Statuses, WalkInv
  <2> QED BY <1>2, <2>1, <2>2 DEF ReplyProse
<1>3. CASE ReplyCalls
  <2> PICK n \in 1..MaxToolCalls, spill \in 0..MaxSpill :
         turn' = [turn EXCEPT !.phase = "calling", !.round = @ + 1, !.left = n, !.spill = spill,
                              !.asked = n + spill, !.tail = 0, !.thinking = spill = 0]
    BY <1>3 DEF ReplyCalls
  <2>1. /\ batch' = "open" /\ n + spill \in 0..(MaxToolCalls + MaxSpill)
        /\ n \in 0..MaxToolCalls /\ (spill = 0) \in BOOLEAN /\ 0 + n + spill = n + spill
    BY <1>3, Counts DEF ReplyCalls
  <2>2. turn \in TurnType /\ turn.acts < IterationBudget /\ "calling" \in Phases
    BY <1>1 DEF WalkInv, WalkOf, Running, Phases
  <2>3. turn' \in TurnType
    BY Counts, <1>1, <2>1, <2>2 DEF TurnType
  <2>4. /\ turn'.phase = "calling" /\ turn'.tail = 0 /\ turn'.left = n /\ turn'.spill = spill
        /\ turn'.asked = n + spill /\ turn'.acts = turn.acts
    BY <2>2 DEF TurnType
  <2> QED BY <2>1, <2>2, <2>3, <2>4 DEF WalkInv, WalkOf
<1> QED BY <1>2, <1>3

LEMMA RepliedWalks ==
    ASSUME WalkInv, turn.phase \in {"calling", "sent"}, turn.left > 0, UNCHANGED batch,
           NEW t, NEW busy \in BOOLEAN, NEW kept \in SUBSET Commits,
           turn' = Replied(t, busy, kept)
    PROVE  WalkInv'
<1>1. turn.left - 1 \in 0..MaxToolCalls /\ turn.tail + 1 \in 0..(MaxToolCalls + MaxSpill)
  BY Bounds DEF WalkInv, WalkOf, TurnType
<1>2. (turn.thinking /\ ~busy) \in BOOLEAN /\ turn.tried \cup kept \in SUBSET Commits
  BY Bounds DEF WalkInv, WalkOf, TurnType
<1>3. turn \in TurnType /\ "calling" \in Phases
  BY DEF WalkInv, WalkOf, Phases
<1>4. turn' \in TurnType
  BY Bounds, <1>1, <1>2, <1>3 DEF Replied, TurnType
<1>5. /\ turn'.phase = "calling" /\ turn'.tail = turn.tail + 1 /\ turn'.left = turn.left - 1
      /\ turn'.spill = turn.spill /\ turn'.asked = turn.asked /\ turn'.acts = turn.acts
  BY <1>3 DEF Replied, TurnType
<1>6. turn.tail + 1 + (turn.left - 1) + turn.spill = turn.tail + turn.left + turn.spill
  BY <1>3 DEF TurnType
<1> QED BY <1>3, <1>4, <1>5, <1>6 DEF WalkInv, WalkOf, Running

LEMMA EndedWalks ==
    ASSUME WalkInv, turn.phase \in {"calling", "sent"}, NEW s \in Statuses, NEW skipped \in BOOLEAN,
           turn' = Ended(s, skipped), UNCHANGED batch
    PROVE  WalkInv'
<1>1. turn.tail + turn.left + turn.spill \in 0..(MaxToolCalls + MaxSpill)
  BY Bounds DEF WalkInv, WalkOf, TurnType
<1>2. (skipped /\ ~turn.retried) \in BOOLEAN
  OBVIOUS
<1>3. turn \in TurnType /\ "ended" \in Phases
  BY DEF WalkInv, WalkOf, Phases
<1>4. turn' \in TurnType
  BY Counts, <1>1, <1>2, <1>3 DEF Ended, TurnType
<1>5. turn'.phase = "ended" /\ turn'.tail = turn.tail + turn.left + turn.spill /\ turn'.asked = turn.asked
  BY <1>3 DEF Ended, TurnType
<1> QED BY <1>3, <1>4, <1>5 DEF WalkInv, WalkOf, Running

LEMMA CommitWalks ==
    ASSUME WalkInv, turn.phase = "calling", turn.left > 0, UNCHANGED batch, NEW t \in Commits,
           turn' = [turn EXCEPT !.phase = "sent", !.tool = t, !.thinking = FALSE,
                                !.tried = @ \cup ({t} \cap OnceTried)]
    PROVE  WalkInv'
<1>1. turn.tried \cup ({t} \cap OnceTried) \in SUBSET Commits
  BY Bounds DEF WalkInv, WalkOf, TurnType
<1> QED BY Bounds, <1>1 DEF WalkInv, WalkOf, TurnType, Phases, Running

LEMMA AnswerWalks ==
    ASSUME WalkInv, NEW o \in Outcomes, turn' = [turn EXCEPT !.answer = o], UNCHANGED batch
    PROVE  WalkInv'
BY Bounds DEF WalkInv, WalkOf, TurnType

LEMMA BatchWalks == ASSUME WalkInv, EndBatch PROVE WalkInv'
<1>1. /\ turn.phase = "calling" /\ turn.left = 0 /\ UNCHANGED batch
      /\ turn.tail + turn.spill \in 0..(MaxToolCalls + MaxSpill)
  BY Bounds DEF WalkInv, WalkOf, TurnType, EndBatch
<1>2. Spent \in 0..IterationBudget
  BY Bounds, <1>1 DEF WalkInv, WalkOf, TurnType, Running, Spent
<1> DEFINE answered == [turn EXCEPT !.tail = @ + turn.spill, !.spill = 0, !.acts = Spent]
<1>3. turn \in TurnType /\ turn.tail + turn.left + turn.spill = turn.asked /\ batch = "open"
  BY <1>1 DEF WalkInv, WalkOf
<1>7. answered \in TurnType
  BY Counts, <1>1, <1>2, <1>3 DEF TurnType
<1>8. answered.tail = answered.asked /\ answered.acts = Spent
  BY <1>1, <1>2, <1>3 DEF TurnType
<1>4. turn' = IF Spent >= IterationBudget \/ turn.round = maxTotalRounds
              THEN [answered EXCEPT !.phase = "ended", !.status = "budgetForced"]
              ELSE [answered EXCEPT !.phase = "asking"]
  BY DEF EndBatch
<1> HIDE DEF answered
<1>5. CASE turn' = [answered EXCEPT !.phase = "ended", !.status = "budgetForced"]
  BY Bounds, <1>3, <1>7, <1>8, <1>5 DEF WalkInv, WalkOf, TurnType, Phases, Statuses, Running
<1>6. CASE turn' = [answered EXCEPT !.phase = "asking"] /\ ~(Spent >= IterationBudget)
  BY Bounds, <1>1, <1>2, <1>3, <1>7, <1>8, <1>6 DEF WalkInv, WalkOf, TurnType, Phases, Running
<1> QED BY <1>4, <1>5, <1>6
LEMMA FreshWalks ==
    ASSUME WalkInv, turn.phase = "preflight", turn' = [turn EXCEPT !.phase = "asking"]
    PROVE  WalkInv'
BY DEF WalkInv, WalkOf, TurnType, Phases, Running

LEMMA PersistWalks ==
    ASSUME WalkInv, turn.phase = "ended", turn' = [turn EXCEPT !.phase = "report"]
    PROVE  WalkInv'
BY DEF WalkInv, WalkOf, TurnType, Phases, Running

LEMMA ReportWalks ==
    ASSUME WalkInv, turn' = [turn EXCEPT !.phase = "reported"]
    PROVE  WalkInv'
BY DEF WalkInv, WalkOf, TurnType, Phases, Running

----------------------------------------------------------------------------
(* The queue *)

LEMMA TailFacts ==
    ASSUME NEW S, NEW q \in Seq(S), q # <<>>
    PROVE  /\ Head(q) \in S /\ Head(q) = q[1] /\ 1 \in DOMAIN q /\ Tail(q) \in Seq(S)
           /\ \A i \in DOMAIN Tail(q) :
                 i + 1 \in DOMAIN q /\ i \in Nat \ {0} /\ Tail(q)[i] = q[i + 1]
OBVIOUS

LEMMA AppendFacts ==
    ASSUME NEW S, NEW q \in Seq(S), NEW c \in S
    PROVE  /\ Append(q, c) \in Seq(S) /\ DOMAIN Append(q, c) = DOMAIN q \cup {Len(q) + 1}
           /\ Len(q) + 1 \notin DOMAIN q /\ Append(q, c)[Len(q) + 1] = c
           /\ \A i \in DOMAIN q : Append(q, c)[i] = q[i]
OBVIOUS

LEMMA OneCommand ==
    ASSUME NEW c PROVE <<c>> # <<>> /\ Head(<<c>>) = c /\ Tail(<<c>>) = <<>> /\ Append(<<>>, c) = <<c>>
OBVIOUS

LEMMA TakenOff ==
    ASSUME WorldOK, cmds # <<>>, cmds' = Tail(cmds), NEW h, h = Head(cmds).tool
    PROVE  /\ cmds' \in Seq(Cmd) /\ Head(cmds) \in Cmd /\ Queued(h)
           /\ \A t : Queued(t)' => Queued(t)
           /\ \A t : (\A i, j \in DOMAIN cmds : cmds[i].tool = t /\ cmds[j].tool = t => i = j)
                     => (\A i, j \in DOMAIN cmds' : cmds'[i].tool = t /\ cmds'[j].tool = t => i = j)
           /\ (\A i, j \in DOMAIN cmds : cmds[i].tool = h /\ cmds[j].tool = h => i = j)
              => ~Queued(h)'
<1>1. /\ Head(cmds) \in Cmd /\ Head(cmds) = cmds[1] /\ 1 \in DOMAIN cmds /\ cmds' \in Seq(Cmd)
      /\ \A i \in DOMAIN cmds' :
            i + 1 \in DOMAIN cmds /\ i \in Nat \ {0} /\ cmds'[i] = cmds[i + 1]
  BY TailFacts DEF WorldOK
<1>2. \A t : Queued(t)' => Queued(t)
  BY <1>1 DEF Queued
<1>3. ASSUME NEW t, \A i, j \in DOMAIN cmds : cmds[i].tool = t /\ cmds[j].tool = t => i = j
      PROVE  \A i, j \in DOMAIN cmds' : cmds'[i].tool = t /\ cmds'[j].tool = t => i = j
  <2> SUFFICES ASSUME NEW i \in DOMAIN cmds', NEW j \in DOMAIN cmds',
                      cmds'[i].tool = t, cmds'[j].tool = t
               PROVE  i = j
    OBVIOUS
  <2>1. i + 1 = j + 1 /\ i \in Nat /\ j \in Nat
    BY <1>1, <1>3
  <2> QED BY <2>1
<1>4. ASSUME \A i, j \in DOMAIN cmds : cmds[i].tool = h /\ cmds[j].tool = h => i = j,
             Queued(h)'
      PROVE  FALSE
  <2>1. PICK i \in DOMAIN cmds' : cmds'[i].tool = h
    BY <1>4 DEF Queued
  <2>2. i + 1 = 1 /\ i \in Nat \ {0}
    BY <1>1, <1>4, <2>1
  <2> QED BY <2>2
<1> QED BY <1>1, <1>2, <1>3, <1>4 DEF Queued
----------------------------------------------------------------------------
(* The guards *)

\* The worker goes on with its turn, nothing being sent or awaited.
GoesOn ==
    /\ turn.phase \notin {"sent", "reported"} /\ turn'.phase \notin {"sent", "reported"}
    /\ turn'.answer \in {turn.answer, NoOutcome}
    /\ turn'.phase \in Running => turn.phase \in Running /\ turn.tried \subseteq turn'.tried
    /\ UNCHANGED <<cmds, ran, unheard, stopped>>

LEMMA GoingOn == ASSUME GuardInv, GoesOn PROVE GuardInv'
<1>1. QueueInv'
  BY DEF GuardInv, QueueInv, GoesOn
<1>2. OnceInv'
  BY DEF GuardInv, OnceInv, GoesOn, Queued
<1>3. DoneInv'
  BY DEF GuardInv, DoneInv, GoesOn
<1> QED BY <1>1, <1>2, <1>3 DEF GuardInv

LEMMA NoTurnFields ==
    NoTurn.phase = "idle" /\ NoTurn.answer = NoOutcome /\ NoTurn.tried = {} /\ "idle" \notin Running
BY DEF NoTurn, Running

\* The steps of the worker that send and await nothing keep the guards.
LEMMA QuietGuards ==
    ASSUME TurnInv,
           \/ DropJob \/ PreflightLag \/ PreflightFresh
           \/ Ask \/ CallInvalid \/ CallObservation \/ CallRefused \/ CallDone \/ CallUnsent
           \/ EndBatch \/ PersistTickToolResults \/ PersistFails
    PROVE  GuardInv'
<1>0. turn \in TurnType /\ GuardInv
  BY DEF TurnInv, WalkInv, WalkOf
<1>1. ASSUME DropJob PROVE GoesOn
  BY <1>1, NoTurnFields DEF DropJob, GoesOn
<1>2. ASSUME NEW s, EndedWith(s)
      PROVE  turn'.phase = "ended" /\ turn'.answer = turn.answer
  BY <1>0, <1>2 DEF EndedWith, TurnType
<1>3. ASSUME PreflightLag \/ PreflightFresh PROVE GoesOn
  <2>1. turn'.answer = turn.answer /\ turn'.tried = turn.tried /\ turn'.phase \in {"ended", "asking"}
    BY <1>0, <1>3 DEF PreflightLag, PreflightFresh, EndedWith, TurnType
  <2> QED BY <1>3, <2>1 DEF PreflightLag, PreflightFresh, GoesOn, Running
<1>4. ASSUME Ask PROVE GoesOn
  <2>1. turn.phase = "asking" /\ UNCHANGED <<cmds, ran, unheard, stopped>>
    BY <1>4 DEF Ask, Asks, AskCancelled, AskFails, ReplyProse, ReplyEmpty, ReplyCalls
  <2>2. CASE \E s : EndedWith(s)
    BY <1>2, <2>1, <2>2 DEF GoesOn, Running
  <2>3. CASE turn' = [turn EXCEPT !.round = @ + 1, !.nudged = TRUE, !.asked = 0, !.tail = 0]
    <3>1. turn'.answer = turn.answer /\ turn'.tried = turn.tried /\ turn'.phase = "asking"
      BY <1>0, <2>1, <2>3 DEF TurnType
    <3> QED BY <2>1, <3>1 DEF GoesOn, Running
  <2>4. CASE ReplyCalls
    <3>1. turn'.answer = turn.answer /\ turn'.tried = turn.tried /\ turn'.phase = "calling"
      BY <1>0, <2>4 DEF ReplyCalls, TurnType
    <3> QED BY <2>1, <3>1 DEF GoesOn, Running
  <2> QED BY <1>4, <2>2, <2>3, <2>4 DEF Ask, AskCancelled, AskFails, ReplyProse, ReplyEmpty
<1>5. ASSUME NEW t, NEW busy, NEW kept, turn' = Replied(t, busy, kept)
      PROVE  turn'.phase = "calling" /\ turn'.answer = NoOutcome /\ turn.tried \subseteq turn'.tried
  BY <1>0, <1>5 DEF Replied, TurnType
<1>6. ASSUME CallInvalid \/ CallObservation \/ CallRefused \/ CallUnsent PROVE GoesOn
  <2>1. turn.phase = "calling" /\ UNCHANGED <<cmds, ran, unheard, stopped>>
    BY <1>6 DEF CallInvalid, CallObservation, CallRefused, CallUnsent, Calls
  <2>2. \E t, busy, kept : turn' = Replied(t, busy, kept)
    BY <1>6 DEF CallInvalid, CallObservation, CallRefused, CallUnsent
  <2> QED BY <1>5, <2>1, <2>2 DEF GoesOn, Running
<1>7. ASSUME CallDone PROVE GoesOn
  <2>1. turn'.phase = "ended" /\ turn'.answer = NoOutcome
    BY <1>0, <1>7 DEF CallDone, Ended, TurnType
  <2> QED BY <1>7, <2>1 DEF CallDone, Calls, GoesOn, Running
<1>8. ASSUME EndBatch PROVE GoesOn
  <2>1. turn'.answer = turn.answer /\ turn'.tried = turn.tried /\ turn'.phase \in {"ended", "asking"}
    BY <1>0, <1>8 DEF EndBatch, TurnType
  <2> QED BY <1>8, <2>1 DEF EndBatch, GoesOn, Running
<1>9. ASSUME PersistTickToolResults \/ PersistFails PROVE GoesOn
  <2>1. turn'.answer = turn.answer /\ turn'.phase = "report"
    BY <1>0, <1>9 DEF PersistTickToolResults, PersistFails, TurnType
  <2> QED BY <1>9, <2>1 DEF PersistTickToolResults, PersistFails, GoesOn, Running
<1> QED BY <1>0, <1>1, <1>3, <1>4, <1>6, <1>7, <1>8, <1>9, GoingOn

LEMMA DispatchGuards == ASSUME TurnInv, Dispatch PROVE GuardInv'
<1>1. cmds = <<>> /\ unheard' = 0 /\ \A t \in Commits : ran'[t] = 0
  BY DEF TurnInv, GuardInv, QueueInv, Dispatch
<1>2. turn'.phase = "preflight" /\ turn'.answer = NoOutcome /\ cmds' = cmds
  BY DEF Dispatch, NoTurn
<1>3. \A t : ~Queued(t)'
  BY <1>1, <1>2 DEF Queued
<1>4. QueueInv'
  BY <1>1, <1>2 DEF QueueInv
<1>5. OnceInv'
  BY <1>1, <1>2, <1>3 DEF OnceInv
<1>6. DoneInv'
  BY <1>1, <1>2 DEF DoneInv
<1> QED BY <1>4, <1>5, <1>6 DEF GuardInv

LEMMA CommitGuards == ASSUME TurnInv, CallCommit PROVE GuardInv'
<1> PICK t \in Commits :
      /\ ~Refused(t)
      /\ turn' = [turn EXCEPT !.phase = "sent", !.tool = t, !.thinking = FALSE,
                              !.tried = @ \cup ({t} \cap OnceTried)]
      /\ cmds' = Append(cmds, [tool |-> t, awaited |-> TRUE])
  BY DEF CallCommit
<1>0. turn \in TurnType /\ turn.phase = "calling" /\ UNCHANGED <<ran, unheard, stopped>> /\ t \notin turn.tried
  BY DEF TurnInv, WalkInv, WalkOf, CallCommit, Calls, Refused
<1>1. /\ turn'.phase = "sent" /\ turn'.tool = t /\ turn'.answer = turn.answer
      /\ turn'.tried = turn.tried \cup ({t} \cap OnceTried)
  BY <1>0 DEF TurnType
<1> DEFINE c == [tool |-> t, awaited |-> TRUE]
<1>2. c \in Cmd /\ c.tool = t
  BY DEF Cmd
<1>3. cmds' = Append(cmds, c) /\ cmds \in Seq(Cmd)
  BY DEF TurnInv, WorldOK
<1> HIDE DEF c
<1>4. /\ DOMAIN cmds' = DOMAIN cmds \cup {Len(cmds) + 1} /\ Len(cmds) + 1 \notin DOMAIN cmds
      /\ cmds'[Len(cmds) + 1].tool = t /\ \A i \in DOMAIN cmds : cmds'[i] = cmds[i]
  BY <1>2, <1>3, AppendFacts
<1>5. QueueInv'
  <2>1. ~stopped => cmds = <<>> /\ turn.answer = NoOutcome /\ unheard = 0
    BY <1>0 DEF TurnInv, GuardInv, QueueInv
  <2>2. cmds = <<>> => cmds' = <<[tool |-> t, awaited |-> TRUE]>>
    BY <1>3, OneCommand DEF c
  <2> QED BY <1>0, <1>1, <2>1, <2>2 DEF QueueInv
<1>6. OnceInv'
  <2> SUFFICES ASSUME NEW u \in OnceTried
               PROVE  /\ ran'[u] <= 1 /\ (Queued(u)' => ran'[u] = 0)
                      /\ \A i, j \in DOMAIN cmds' : cmds'[i].tool = u /\ cmds'[j].tool = u => i = j
                      /\ turn'.phase \in Running /\ u \notin turn'.tried => ran'[u] = 0 /\ ~Queued(u)'
    BY DEF OnceInv
  <2>1. /\ ran[u] <= 1 /\ (Queued(u) => ran[u] = 0)
        /\ \A i, j \in DOMAIN cmds : cmds[i].tool = u /\ cmds[j].tool = u => i = j
        /\ u \notin turn.tried => ran[u] = 0 /\ ~Queued(u)
    BY <1>0 DEF TurnInv, GuardInv, OnceInv, Running
  <2>2. CASE u = t
    <3>1. ran'[u] = 0 /\ ~Queued(u) /\ u \in turn'.tried
      BY <1>0, <1>1, <2>1, <2>2
    <3>2. \A i, j \in DOMAIN cmds' : cmds'[i].tool = u /\ cmds'[j].tool = u => i = j
      BY <1>4, <3>1 DEF Queued
    <3> QED BY <2>1, <1>0, <3>1, <3>2
  <2>3. CASE u # t
    <3>1. Queued(u)' => Queued(u)
      BY <1>4, <2>3 DEF Queued
    <3>2. \A i, j \in DOMAIN cmds' : cmds'[i].tool = u /\ cmds'[j].tool = u => i = j
      BY <1>4, <2>1, <2>3
    <3>3. u \notin turn'.tried => u \notin turn.tried
      BY <1>1
    <3> QED BY <1>0, <2>1, <3>1, <3>2, <3>3
  <2> QED BY <2>2, <2>3
<1>7. DoneInv'
  <2> SUFFICES ASSUME ~stopped, NEW u \in OnceDone
               PROVE  /\ ran'[u] <= 1
                      /\ turn'.phase \in Running /\ ran'[u] = 1 =>
                            \/ u \in turn'.tried
                            \/ turn'.phase = "sent" /\ turn'.tool = u /\ turn'.answer \in Effects
                      /\ turn'.phase = "sent" /\ turn'.tool = u /\ turn'.answer = NoOutcome => ran'[u] = 0
    BY <1>0 DEF DoneInv
  <2>1. ran[u] <= 1 /\ ran[u] \in Nat /\ (ran[u] = 1 => u \in turn.tried)
    BY <1>0 DEF TurnInv, GuardInv, DoneInv, WorldOK, Running
  <2> QED BY <1>0, <1>1, <2>1
<1> QED BY <1>5, <1>6, <1>7 DEF GuardInv
LEMMA HearGuards == ASSUME TurnInv, Hear PROVE GuardInv'
<1>0. /\ turn \in TurnType /\ turn.phase = "sent" /\ turn.answer # NoOutcome /\ turn.tool \in Commits
      /\ UNCHANGED <<cmds, ran, unheard, stopped>>
  BY DEF TurnInv, WalkInv, WalkOf, Hear
<1>1. \/ turn'.phase = "ended" /\ turn'.answer = NoOutcome
      \/ /\ turn'.phase = "calling" /\ turn'.answer = NoOutcome
         /\ turn'.tried = turn.tried \cup Learned(turn.tool, turn.answer)
  <2>1. \/ \E skipped : turn' = Ended("success", skipped)
        \/ turn' = Replied(turn.tool, TRUE, Learned(turn.tool, turn.answer))
    BY DEF Hear
  <2> QED BY <1>0, <2>1 DEF Ended, Replied, TurnType
<1>2. QueueInv'
  BY <1>0, <1>1 DEF TurnInv, GuardInv, QueueInv
<1>3. OnceInv'
  BY <1>0, <1>1 DEF TurnInv, GuardInv, OnceInv, Queued, Running
<1>4. DoneInv'
  <2> SUFFICES ASSUME ~stopped, NEW t \in OnceDone
               PROVE  /\ ran'[t] <= 1
                      /\ turn'.phase \in Running /\ ran'[t] = 1 =>
                            \/ t \in turn'.tried
                            \/ turn'.phase = "sent" /\ turn'.tool = t /\ turn'.answer \in Effects
                      /\ turn'.phase = "sent" /\ turn'.tool = t /\ turn'.answer = NoOutcome => ran'[t] = 0
    BY <1>0 DEF DoneInv
  <2>1. /\ ran[t] <= 1
        /\ ran[t] = 1 => t \in turn.tried \/ (turn.tool = t /\ turn.answer \in Effects)
    BY <1>0 DEF TurnInv, GuardInv, DoneInv, Running
  <2>2. turn.answer \in Effects => turn.tool \notin OnceDone \/ turn.tool \in Learned(turn.tool, turn.answer)
    BY DEF Learned
  <2> QED BY <1>0, <1>1, <2>1, <2>2 DEF Running
<1> QED BY <1>2, <1>3, <1>4 DEF GuardInv

LEMMA GaveUp ==
    ASSUME WorldOK, cmds' = [i \in DOMAIN cmds |-> [cmds[i] EXCEPT !.awaited = FALSE]]
    PROVE  /\ cmds' \in Seq(Cmd) /\ DOMAIN cmds' = DOMAIN cmds
           /\ \A i \in DOMAIN cmds : cmds'[i].tool = cmds[i].tool
<1>1. \A i \in DOMAIN cmds : cmds[i] \in Cmd
  BY DEF WorldOK
<1>2. \A i \in DOMAIN cmds : [cmds[i] EXCEPT !.awaited = FALSE] \in Cmd
                             /\ [cmds[i] EXCEPT !.awaited = FALSE].tool = cmds[i].tool
  BY <1>1 DEF Cmd
<1>3. DOMAIN cmds = 1 .. Len(cmds) /\ Len(cmds) \in Nat
  BY DEF WorldOK
<1>4. cmds' \in [1 .. Len(cmds) -> Cmd]
  BY <1>2, <1>3
<1>5. cmds' \in Seq(Cmd)
  BY <1>3, <1>4, SeqDef
<1>6. DOMAIN cmds' = DOMAIN cmds
  OBVIOUS
<1>7. \A i \in DOMAIN cmds : cmds'[i].tool = cmds[i].tool
  BY <1>2
<1> QED BY <1>5, <1>6, <1>7

LEMMA GiveUpGuards == ASSUME TurnInv, GiveUp PROVE GuardInv'
<1>0. /\ turn \in TurnType /\ turn.phase = "sent" /\ stopped' /\ UNCHANGED ran
      /\ turn' = Replied(turn.tool, TRUE, {})
  BY DEF TurnInv, WalkInv, WalkOf, GiveUp
<1>1. turn.tried \subseteq turn'.tried
  BY <1>0 DEF Replied, TurnType
<1>2. DOMAIN cmds' = DOMAIN cmds /\ \A i \in DOMAIN cmds : cmds'[i].tool = cmds[i].tool
  BY GaveUp DEF TurnInv, GiveUp
<1>3. \A t : Queued(t)' => Queued(t)
  BY <1>2 DEF Queued
<1>4. OnceInv'
  BY <1>0, <1>1, <1>2, <1>3 DEF TurnInv, GuardInv, OnceInv, Running
<1> QED BY <1>0, <1>4 DEF GuardInv, QueueInv, DoneInv

LEMMA ReportGuards == ASSUME TurnInv, Report PROVE GuardInv'
<1>0. turn \in TurnType /\ turn.phase = "report" /\ UNCHANGED <<ran, unheard, stopped>>
  BY DEF TurnInv, WalkInv, WalkOf, Report
<1>1. CASE stopped /\ turn' = NoTurn /\ UNCHANGED cmds
  BY <1>0, <1>1, NoTurnFields, GoingOn DEF GoesOn, TurnInv
<1>2. CASE /\ cmds' = Append(cmds, [tool |-> "complete", awaited |-> TRUE])
           /\ turn' = [turn EXCEPT !.phase = "reported"]
  <2> DEFINE c == [tool |-> "complete", awaited |-> TRUE]
  <2>1. c \in Cmd /\ c.tool = "complete"
    BY DEF Cmd
  <2>2. cmds' = Append(cmds, c) /\ cmds \in Seq(Cmd)
    BY <1>2 DEF TurnInv, WorldOK
  <2>3. turn'.phase = "reported" /\ turn'.answer = turn.answer
    BY <1>0, <1>2 DEF TurnType
  <2> HIDE DEF c
  <2>4. /\ DOMAIN cmds' = DOMAIN cmds \cup {Len(cmds) + 1} /\ Len(cmds) + 1 \notin DOMAIN cmds
        /\ cmds'[Len(cmds) + 1].tool = "complete" /\ \A i \in DOMAIN cmds : cmds'[i] = cmds[i]
    BY <2>1, <2>2, AppendFacts
  <2>5. QueueInv'
    <3>1. ~stopped => cmds = <<>> /\ turn.answer = NoOutcome /\ unheard = 0
      BY <1>0 DEF TurnInv, GuardInv, QueueInv
    <3>2. cmds = <<>> => cmds' = <<[tool |-> "complete", awaited |-> TRUE]>>
      BY <2>2, OneCommand DEF c
    <3> QED BY <1>0, <2>3, <3>1, <3>2 DEF QueueInv
  <2>6. OnceInv'
    <3> SUFFICES ASSUME NEW t \in OnceTried
                 PROVE  /\ ran'[t] <= 1 /\ (Queued(t)' => ran'[t] = 0)
                        /\ \A i, j \in DOMAIN cmds' : cmds'[i].tool = t /\ cmds'[j].tool = t => i = j
      BY <2>3 DEF OnceInv, Running
    <3>1. t # "complete"
      OBVIOUS
    <3>2. /\ ran[t] <= 1 /\ (Queued(t) => ran[t] = 0)
          /\ \A i, j \in DOMAIN cmds : cmds[i].tool = t /\ cmds[j].tool = t => i = j
      BY DEF TurnInv, GuardInv, OnceInv
    <3> QED BY <1>0, <2>4, <3>1, <3>2 DEF Queued
  <2>7. DoneInv'
    BY <1>0, <2>3 DEF TurnInv, GuardInv, DoneInv, Running
  <2> QED BY <2>5, <2>6, <2>7 DEF GuardInv
<1> QED BY <1>1, <1>2 DEF Report

LEMMA CompleteGuards == ASSUME TurnInv, CompleteReactorTick PROVE GuardInv'
<1>0. /\ cmds # <<>> /\ Head(cmds).tool = "complete" /\ cmds' = Tail(cmds) /\ turn' = NoTurn
      /\ UNCHANGED <<ran, unheard, stopped>> /\ turn \in TurnType
  BY DEF TurnInv, WalkInv, WalkOf, CompleteReactorTick
<1>1. /\ \A t : Queued(t)' => Queued(t)
      /\ \A t : (\A i, j \in DOMAIN cmds : cmds[i].tool = t /\ cmds[j].tool = t => i = j)
                => (\A i, j \in DOMAIN cmds' : cmds'[i].tool = t /\ cmds'[j].tool = t => i = j)
  BY <1>0, TakenOff DEF TurnInv
<1>2. ~stopped => cmds' = <<>> /\ unheard = 0
  <2> SUFFICES ASSUME ~stopped PROVE cmds' = <<>> /\ unheard = 0
    OBVIOUS
  <2>1. /\ turn.phase = "sent" /\ turn.answer = NoOutcome =>
               cmds = <<[tool |-> turn.tool, awaited |-> TRUE]>> /\ turn.tool \in Commits
        /\ turn.phase = "reported" => cmds = <<[tool |-> "complete", awaited |-> TRUE]>>
        /\ turn.phase # "reported" /\ ~(turn.phase = "sent" /\ turn.answer = NoOutcome) => cmds = <<>>
        /\ unheard = 0
    BY DEF TurnInv, GuardInv, QueueInv, WalkInv, WalkOf
  <2>2. ~(turn.phase = "sent" /\ turn.answer = NoOutcome)
    BY <1>0, <2>1, OneCommand
  <2>3. cmds = <<[tool |-> "complete", awaited |-> TRUE]>>
    BY <1>0, <2>1, <2>2
  <2> QED BY <1>0, <2>1, <2>3, OneCommand
<1>3. QueueInv'
  BY <1>0, <1>2, NoTurnFields DEF QueueInv
<1>4. OnceInv'
  BY <1>0, <1>1, NoTurnFields DEF TurnInv, GuardInv, OnceInv
<1>5. DoneInv'
  BY <1>0, NoTurnFields DEF TurnInv, GuardInv, DoneInv
<1> QED BY <1>3, <1>4, <1>5 DEF GuardInv

LEMMA RunGuards == ASSUME TurnInv, RunTickToolCommand PROVE GuardInv'
<1> DEFINE c == Head(cmds)
<1>0. /\ cmds # <<>> /\ c.tool \in Commits /\ cmds' = Tail(cmds) /\ UNCHANGED stopped
      /\ turn \in TurnType /\ ran \in [Commits -> Nat] /\ WorldOK
  BY DEF TurnInv, WorldOK, WalkInv, WalkOf, RunTickToolCommand
<1> PICK o \in Outcomes :
      /\ ran' = IF o \in Effects THEN [ran EXCEPT ![c.tool] = @ + 1] ELSE ran
      /\ unheard' = IF o \in Effects /\ ~c.awaited THEN unheard + 1 ELSE unheard
      /\ turn' = IF c.awaited THEN [turn EXCEPT !.answer = o] ELSE turn
  BY DEF RunTickToolCommand
<1> PICK h \in Commits : h = c.tool
  BY <1>0
<1>1. /\ Queued(h) /\ \A t : Queued(t)' => Queued(t)
      /\ \A t : (\A i, j \in DOMAIN cmds : cmds[i].tool = t /\ cmds[j].tool = t => i = j)
                => (\A i, j \in DOMAIN cmds' : cmds'[i].tool = t /\ cmds'[j].tool = t => i = j)
      /\ (\A i, j \in DOMAIN cmds : cmds[i].tool = h /\ cmds[j].tool = h => i = j) => ~Queued(h)'
  BY <1>0, TakenOff
<1>2. /\ turn'.phase = turn.phase /\ turn'.tried = turn.tried /\ turn'.tool = turn.tool
      /\ c.awaited => turn'.answer = o
  BY <1>0 DEF TurnType
<1>3. o # NoOutcome
  BY DEF Outcomes, NoOutcome
<1>4. /\ \A t \in Commits : t # h => ran'[t] = ran[t]
      /\ ran'[h] = IF o \in Effects THEN ran[h] + 1 ELSE ran[h]
  BY <1>0
<1>5. ~stopped => /\ turn.phase = "sent" /\ turn.answer = NoOutcome /\ turn.tool = h /\ c.awaited
                  /\ cmds' = <<>> /\ unheard = 0
  <2> SUFFICES ASSUME ~stopped
               PROVE  /\ turn.phase = "sent" /\ turn.answer = NoOutcome /\ turn.tool = h /\ c.awaited
                      /\ cmds' = <<>> /\ unheard = 0
    OBVIOUS
  <2>1. /\ turn.phase = "sent" /\ turn.answer = NoOutcome =>
               cmds = <<[tool |-> turn.tool, awaited |-> TRUE]>>
        /\ turn.phase = "reported" => cmds = <<[tool |-> "complete", awaited |-> TRUE]>>
        /\ turn.phase # "reported" /\ ~(turn.phase = "sent" /\ turn.answer = NoOutcome) => cmds = <<>>
        /\ unheard = 0
    BY DEF TurnInv, GuardInv, QueueInv
  <2>2. turn.phase # "reported"
    <3>1. turn.phase = "reported" => c = [tool |-> "complete", awaited |-> TRUE]
      BY <2>1, OneCommand
    <3> QED BY <1>0, <3>1
  <2>3. turn.phase = "sent" /\ turn.answer = NoOutcome
    BY <1>0, <2>1, <2>2
  <2>4. c = [tool |-> turn.tool, awaited |-> TRUE] /\ cmds' = <<>>
    <3>1. cmds = <<[tool |-> turn.tool, awaited |-> TRUE]>>
      BY <2>1, <2>3
    <3>2. Head(cmds) = [tool |-> turn.tool, awaited |-> TRUE] /\ Tail(cmds) = <<>>
      BY <3>1, OneCommand
    <3> QED BY <1>0, <3>2
  <2> QED BY <2>1, <2>3, <2>4
<1> HIDE DEF c
<1>6. QueueInv'
  BY <1>0, <1>2, <1>3, <1>5 DEF QueueInv
<1>7. OnceInv'
  <2> SUFFICES ASSUME NEW t \in OnceTried
               PROVE  /\ ran'[t] <= 1 /\ (Queued(t)' => ran'[t] = 0)
                      /\ \A i, j \in DOMAIN cmds' : cmds'[i].tool = t /\ cmds'[j].tool = t => i = j
                      /\ turn'.phase \in Running /\ t \notin turn'.tried => ran'[t] = 0 /\ ~Queued(t)'
    BY DEF OnceInv
  <2>1. /\ ran[t] <= 1 /\ (Queued(t) => ran[t] = 0) /\ ran[t] \in Nat
        /\ \A i, j \in DOMAIN cmds : cmds[i].tool = t /\ cmds[j].tool = t => i = j
        /\ turn.phase \in Running /\ t \notin turn.tried => ran[t] = 0 /\ ~Queued(t)
    BY <1>0 DEF TurnInv, GuardInv, OnceInv
  <2>2. CASE t = h
    BY <1>1, <1>2, <1>4, <2>1, <2>2
  <2>3. CASE t # h
    BY <1>1, <1>2, <1>4, <2>1, <2>3
  <2> QED BY <2>2, <2>3
<1>8. DoneInv'
  <2> SUFFICES ASSUME ~stopped, NEW t \in OnceDone
               PROVE  /\ ran'[t] <= 1
                      /\ turn'.phase \in Running /\ ran'[t] = 1 =>
                            \/ t \in turn'.tried
                            \/ turn'.phase = "sent" /\ turn'.tool = t /\ turn'.answer \in Effects
                      /\ turn'.phase = "sent" /\ turn'.tool = t /\ turn'.answer = NoOutcome => ran'[t] = 0
    BY <1>0 DEF DoneInv
  <2>1. /\ ran[t] <= 1
        /\ turn.phase \in Running /\ ran[t] = 1 =>
              \/ t \in turn.tried
              \/ turn.phase = "sent" /\ turn.tool = t /\ turn.answer \in Effects
        /\ turn.phase = "sent" /\ turn.tool = t /\ turn.answer = NoOutcome => ran[t] = 0
    <3>1. DoneInv
      BY DEF TurnInv, GuardInv
    <3> QED BY <3>1 DEF DoneInv
  <2>2. NoOutcome \notin Effects
    BY DEF Effects, NoOutcome
  <2>3. CASE t = h
    BY <1>2, <1>3, <1>4, <1>5, <2>1, <2>3
  <2>4. CASE t # h
    BY <1>2, <1>4, <1>5, <2>1, <2>2, <2>4
  <2> QED BY <2>3, <2>4
<1> QED BY <1>6, <1>7, <1>8 DEF GuardInv

LEMMA OutsideGuards == ASSUME TurnInv, Leave \/ Stop \/ UNCHANGED vars PROVE GuardInv'
<1>1. UNCHANGED <<turn, cmds, ran, unheard>> /\ (stopped' = stopped \/ stopped')
  BY DEF Leave, Stop, vars
<1> QED BY <1>1 DEF TurnInv, GuardInv, QueueInv, OnceInv, DoneInv, Queued
----------------------------------------------------------------------------
(* The walk and the world, step by step *)

LEMMA WalkSteps == TurnInv /\ [Next]_vars => WalkInv'
<1> SUFFICES ASSUME TurnInv, [Next]_vars PROVE WalkInv'
  OBVIOUS
<1>0. WalkInv /\ turn \in TurnType /\ turn.left \in Nat
  BY Bounds DEF TurnInv, WalkInv, WalkOf, TurnType
<1>1. ASSUME turn' = NoTurn PROVE WalkInv'
  BY <1>1, NoTurnWalks DEF WalkInv
<1>2. CASE Dispatch
  <2>1. turn' = [NoTurn EXCEPT !.phase = "preflight", !.retried = intent] /\ intent \in BOOLEAN
    BY <1>2 DEF Dispatch, TurnInv, WorldOK
  <2>2. NoTurn \in TurnType /\ NoTurn.tail = 0 /\ NoTurn.asked = 0 /\ NoTurn.acts = 0
    BY NoTurnWalks DEF WalkOf, NoTurn
  <2>3. turn' \in TurnType
    BY <2>1, <2>2 DEF TurnType, Phases
  <2>4. turn'.phase = "preflight" /\ turn'.tail = 0 /\ turn'.asked = 0 /\ turn'.acts = 0
    BY <2>1, <2>2 DEF TurnType
  <2> QED BY <2>3, <2>4, Bounds DEF WalkInv, WalkOf
<1>3. CASE Preflight
  <2>1. CASE PreflightLag
    BY <1>0, <2>1, EndedWithWalks DEF PreflightLag, Statuses, WalkInv
  <2>2. CASE PreflightFresh
    <3>1. CASE turn' = [turn EXCEPT !.phase = "asking"]
      BY <1>0, <2>2, <3>1, FreshWalks DEF PreflightFresh
    <3>2. CASE EndedWith("absent") \/ EndedWith("skipped")
      BY <1>0, <2>2, <3>2, EndedWithWalks DEF PreflightFresh, Statuses, WalkInv
    <3> QED BY <2>2, <3>1, <3>2 DEF PreflightFresh
  <2>3. CASE DropJob
    BY <1>1, <2>3 DEF DropJob
  <2> QED BY <1>3, <2>1, <2>2, <2>3 DEF Preflight
<1>4. CASE Ask
  <2>1. CASE ReplyProse \/ ReplyCalls
    BY <1>0, <2>1, ReplyWalks DEF ReplyProse, ReplyCalls
  <2>2. CASE AskCancelled \/ AskFails \/ ReplyEmpty
    <3>1. turn.phase = "asking" /\ \E s \in Statuses : EndedWith(s)
      BY <2>2 DEF AskCancelled, AskFails, ReplyEmpty, Asks, FailureStatus, Statuses
    <3> QED BY <1>0, <3>1, EndedWithWalks DEF WalkInv
  <2> QED BY <1>4, <2>1, <2>2 DEF Ask
<1>5. CASE CallInvalid \/ CallObservation \/ CallRefused \/ CallUnsent
  <2>1. turn.phase = "calling" /\ turn.left > 0 /\ UNCHANGED batch
    BY <1>5 DEF CallInvalid, CallObservation, CallRefused, CallUnsent, Calls
  <2>2. \E t : turn' = Replied(t, TRUE, {}) \/ turn' = Replied(t, FALSE, {})
                \/ turn' = Replied(t, TRUE, {t} \cap OnceTried)
    BY <1>5 DEF CallInvalid, CallObservation, CallRefused, CallUnsent
  <2>3. \A t : {} \in SUBSET Commits /\ {t} \cap OnceTried \in SUBSET Commits
    OBVIOUS
  <2> QED BY <1>0, <2>1, <2>2, <2>3, RepliedWalks
<1>6. CASE CallDone
  BY <1>0, <1>6, EndedWalks DEF CallDone, Calls, Statuses
<1>7. CASE CallCommit
  BY <1>0, <1>7, CommitWalks DEF CallCommit, Calls
<1>8. CASE Hear
  <2>1. turn.phase = "sent" /\ turn.left > 0 /\ turn.tool \in Commits /\ UNCHANGED batch
    BY <1>0, <1>8 DEF WalkInv, WalkOf, Hear
  <2>2. \/ \E skipped \in BOOLEAN : turn' = Ended("success", skipped)
        \/ turn' = Replied(turn.tool, TRUE, Learned(turn.tool, turn.answer))
    BY <1>8 DEF Hear
  <2>3. Learned(turn.tool, turn.answer) \in SUBSET Commits
    BY <2>1 DEF Learned
  <2>4. "success" \in Statuses
    BY DEF Statuses
  <2> QED BY <1>0, <2>1, <2>2, <2>3, <2>4, RepliedWalks, EndedWalks
<1>9. CASE GiveUp
  <2>1. /\ turn.phase = "sent" /\ turn.left > 0 /\ UNCHANGED batch
        /\ turn' = Replied(turn.tool, TRUE, {})
    BY <1>0, <1>9 DEF WalkInv, WalkOf, GiveUp
  <2> QED BY <1>0, <2>1, RepliedWalks
<1>10. CASE EndBatch
  BY <1>0, <1>10, BatchWalks
<1>11. CASE PersistTickToolResults \/ PersistFails
  BY <1>0, <1>11, PersistWalks DEF PersistTickToolResults, PersistFails
<1>12. CASE Report
  BY <1>0, <1>1, <1>12, ReportWalks DEF Report
<1>13. CASE CompleteReactorTick
  BY <1>1, <1>13 DEF CompleteReactorTick
<1>14. CASE RunTickToolCommand
  <2>1. UNCHANGED batch /\ (turn' = turn \/ \E o \in Outcomes : turn' = [turn EXCEPT !.answer = o])
    BY <1>14 DEF RunTickToolCommand
  <2>2. CASE turn' = turn
    BY <1>0, <2>1, <2>2 DEF WalkInv
  <2> QED BY <1>0, <2>1, <2>2, AnswerWalks
<1>15. CASE Leave \/ Stop \/ UNCHANGED vars
  BY <1>0, <1>15 DEF Leave, Stop, vars, WalkInv
<1> QED BY <1>2, <1>3, <1>4, <1>5, <1>6, <1>7, <1>8, <1>9, <1>10, <1>11, <1>12, <1>13, <1>14, <1>15
        DEF Next, WorkerStep, Call, World

LEMMA WorldSteps == TurnInv /\ [Next]_vars => WorldOK'
<1> SUFFICES ASSUME TurnInv, [Next]_vars PROVE WorldOK'
  OBVIOUS
<1>0. /\ present \in BOOLEAN /\ inFlight \in BOOLEAN /\ intent \in BOOLEAN /\ stopped \in BOOLEAN
      /\ stimuli \in 0..MaxStimuli /\ MaxStimuli \in Nat /\ cmds \in Seq(Cmd)
      /\ ran \in [Commits -> Nat] /\ unheard \in Nat /\ batch \in Batches
  BY DEF TurnInv, WorldOK
<1>1. present' \in BOOLEAN /\ inFlight' \in BOOLEAN /\ stopped' \in BOOLEAN
  BY <1>0 DEF Next, WorkerStep, Preflight, Ask, Call, World, vars, Dispatch, DropJob, PreflightLag,
              PreflightFresh, Asks, AskCancelled, AskFails, ReplyProse, ReplyEmpty, ReplyCalls,
              Calls, CallInvalid, CallObservation, CallRefused, CallDone, CallUnsent, CallCommit,
              RunTickToolCommand, Hear, GiveUp, EndBatch, PersistTickToolResults, PersistFails,
              Report, CompleteReactorTick, Leave, Stop
<1>2. intent' \in BOOLEAN
  <2>1. CASE CompleteReactorTick
    BY <1>0, <2>1 DEF CompleteReactorTick
  <2>2. CASE ~CompleteReactorTick
    BY <1>0, <2>2 DEF Next, WorkerStep, Preflight, Ask, Call, World, vars, Dispatch, DropJob, PreflightLag,
              PreflightFresh, Asks, AskCancelled, AskFails, ReplyProse, ReplyEmpty, ReplyCalls,
              Calls, CallInvalid, CallObservation, CallRefused, CallDone, CallUnsent, CallCommit,
              RunTickToolCommand, Hear, GiveUp, EndBatch, PersistTickToolResults, PersistFails,
              Report, Leave, Stop
  <2> QED BY <2>1, <2>2
<1>3. stimuli' \in 0..MaxStimuli
  <2>1. CASE Dispatch
    BY <1>0, <2>1 DEF Dispatch
  <2>2. CASE ~Dispatch
    BY <1>0, <2>2 DEF Next, WorkerStep, Preflight, Ask, Call, World, vars, DropJob, PreflightLag,
              PreflightFresh, Asks, AskCancelled, AskFails, ReplyProse, ReplyEmpty, ReplyCalls,
              Calls, CallInvalid, CallObservation, CallRefused, CallDone, CallUnsent, CallCommit,
              RunTickToolCommand, Hear, GiveUp, EndBatch, PersistTickToolResults, PersistFails,
              Report, CompleteReactorTick, Leave, Stop
  <2> QED BY <2>1, <2>2
<1>4. ran' \in [Commits -> Nat] /\ unheard' \in Nat
  <2>1. CASE RunTickToolCommand
    BY <1>0, <2>1 DEF RunTickToolCommand
  <2>2. CASE Dispatch
    BY <1>0, <2>2 DEF Dispatch
  <2>3. CASE GiveUp
    BY <1>0, <2>3 DEF GiveUp
  <2>4. CASE ~(RunTickToolCommand \/ Dispatch \/ GiveUp)
    BY <1>0, <2>4 DEF Next, WorkerStep, Preflight, Ask, Call, World, vars, DropJob, PreflightLag,
              PreflightFresh, Asks, AskCancelled, AskFails, ReplyProse, ReplyEmpty, ReplyCalls,
              Calls, CallInvalid, CallObservation, CallRefused, CallDone, CallUnsent, CallCommit,
              Hear, EndBatch, PersistTickToolResults, PersistFails,
              Report, CompleteReactorTick, Leave, Stop
  <2> QED BY <2>1, <2>2, <2>3, <2>4
<1>5. batch' \in Batches
  BY <1>0 DEF Next, WorkerStep, Preflight, Ask, Call, World, vars, Dispatch, DropJob, PreflightLag,
              PreflightFresh, Asks, AskCancelled, AskFails, ReplyProse, ReplyEmpty, ReplyCalls,
              Calls, CallInvalid, CallObservation, CallRefused, CallDone, CallUnsent, CallCommit,
              RunTickToolCommand, Hear, GiveUp, EndBatch, PersistTickToolResults, PersistFails,
              Report, CompleteReactorTick, Leave, Stop, Posted, Batches
<1>6. cmds' \in Seq(Cmd)
  <2>1. CASE GiveUp
    BY <2>1, GaveUp DEF GiveUp, TurnInv
  <2>2. CASE RunTickToolCommand \/ CompleteReactorTick
    <3>1. cmds # <<>> /\ cmds' = Tail(cmds)
      BY <2>2 DEF RunTickToolCommand, CompleteReactorTick
    <3> QED BY <1>0, <3>1, TailFacts
  <2>3. CASE Report
    <3>1. [tool |-> "complete", awaited |-> TRUE] \in Cmd
      BY DEF Cmd
    <3>2. cmds' = cmds \/ cmds' = Append(cmds, [tool |-> "complete", awaited |-> TRUE])
      BY <2>3 DEF Report
    <3>3. Append(cmds, [tool |-> "complete", awaited |-> TRUE]) \in Seq(Cmd)
      BY <1>0, <3>1
    <3> QED BY <1>0, <3>2, <3>3
  <2>4. CASE CallCommit
    <3>1. \A t \in Commits : [tool |-> t, awaited |-> TRUE] \in Cmd
      BY DEF Cmd
    <3> QED BY <1>0, <2>4, <3>1, AppendFacts DEF CallCommit
  <2>5. CASE ~(GiveUp \/ RunTickToolCommand \/ CompleteReactorTick \/ Report \/ CallCommit)
    BY <1>0, <2>5 DEF Next, WorkerStep, Preflight, Ask, Call, World, vars, Dispatch, DropJob, PreflightLag,
              PreflightFresh, Asks, AskCancelled, AskFails, ReplyProse, ReplyEmpty, ReplyCalls,
              Calls, CallInvalid, CallObservation, CallRefused, CallDone, CallUnsent,
              Hear, EndBatch, PersistTickToolResults, PersistFails, Leave, Stop
  <2> QED BY <2>1, <2>2, <2>3, <2>4, <2>5
<1> QED BY <1>1, <1>2, <1>3, <1>4, <1>5, <1>6 DEF WorldOK

LEMMA GuardSteps == TurnInv /\ [Next]_vars => GuardInv'
<1> SUFFICES ASSUME TurnInv, [Next]_vars PROVE GuardInv'
  OBVIOUS
<1>1. CASE Dispatch
  BY <1>1, DispatchGuards
<1>2. CASE \/ DropJob \/ PreflightLag \/ PreflightFresh
           \/ Ask \/ CallInvalid \/ CallObservation \/ CallRefused \/ CallDone \/ CallUnsent
           \/ EndBatch \/ PersistTickToolResults \/ PersistFails
  BY <1>2, QuietGuards
<1>3. CASE CallCommit \/ Hear \/ GiveUp \/ Report
  BY <1>3, CommitGuards, HearGuards, GiveUpGuards, ReportGuards
<1>4. CASE World
  BY <1>4, RunGuards, CompleteGuards DEF World
<1>5. CASE Leave \/ Stop \/ UNCHANGED vars
  BY <1>5, OutsideGuards
<1> QED BY <1>1, <1>2, <1>3, <1>4, <1>5 DEF Next, WorkerStep, Preflight, Call

LEMMA TurnInitial == Init => TurnInv
<1> SUFFICES ASSUME Init PROVE TurnInv
  OBVIOUS
<1>1. WorldOK
  <2>1. <<>> \in Seq(Cmd) /\ [t \in Commits |-> 0] \in [Commits -> Nat] /\ MaxStimuli \in 0..MaxStimuli
    BY Bounds
  <2> QED BY <2>1 DEF Init, WorldOK, Batches
<1>2. WalkInv
  BY NoTurnWalks DEF Init, WalkInv
<1>3. cmds = <<>> /\ turn = NoTurn /\ \A t \in Commits : ran[t] = 0
  BY DEF Init
<1>4. GuardInv
  BY <1>3, NoTurnFields DEF Init, GuardInv, QueueInv, OnceInv, DoneInv, Queued
<1> QED BY <1>1, <1>2, <1>4 DEF TurnInv

LEMMA TurnAlways == Spec => []TurnInv
<1>1. TurnInv /\ [Next]_vars => TurnInv'
  BY WalkSteps, WorldSteps, GuardSteps DEF TurnInv
<1> QED BY <1>1, TurnInitial, PTL DEF Spec

\* Every call of an answer is answered once, those beyond the cap and behind the end
\* of the turn included, and what is posted answers the batch that is open.
THEOREM TranscriptIsSound == Spec => []TranscriptSound
<1>1. TurnInv => TurnTypeOK
  <2> SUFFICES ASSUME TurnInv PROVE TurnTypeOK
    OBVIOUS
  <2>1. turn \in TurnType /\ WorldOK
    BY DEF TurnInv, WalkInv, WalkOf
  <2>2. \A i \in DOMAIN cmds : cmds[i].tool \in Commits \cup {"complete"} /\ cmds[i].awaited \in BOOLEAN
    <3>1. \A i \in DOMAIN cmds : cmds[i] \in Cmd
      BY <2>1 DEF WorldOK
    <3> QED BY <3>1 DEF Cmd
  <2> QED BY <2>1, <2>2 DEF TurnTypeOK, TurnType, WorldOK, Batches
<1>2. TurnInv => CallsAnswered /\ RoundsPaired
  BY DEF TurnInv, WalkInv, WalkOf, CallsAnswered, RoundsPaired
<1> QED BY <1>1, <1>2, TurnAlways, PTL DEF TranscriptSound

\* What a guard of the turn protects takes effect once in it, even if the worker gave
\* up on a command that still runs.
THEOREM EffectsComeOnce == Spec => []OnePerTurn
<1>1. TurnInv => OnePerTurn
  BY DEF TurnInv, GuardInv, OnceInv, DoneInv, OnePerTurn
<1> QED BY <1>1, TurnAlways, PTL

\* The model is not asked again before it was told what its commits did.
THEOREM EffectsAreTold == Spec => []NothingUnsaid
<1>1. TurnInv => NothingUnsaid
  BY DEF TurnInv, GuardInv, QueueInv, NothingUnsaid
<1> QED BY <1>1, TurnAlways, PTL
=============================================================================
