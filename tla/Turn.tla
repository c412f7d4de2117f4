-------------------------------- MODULE Turn --------------------------------
(***************************************************************************)
(* One villager's turn, as the tick harness runs it: the preflight against *)
(* the published snapshot, the rounds of model calls, the tool calls of    *)
(* each answer with the guards that keep a weak model from repeating       *)
(* itself, the commands sent to the world goroutine, the end of the turn   *)
(* and the report of it (src/engine/sim/handlers/harness.go, worker.go,    *)
(* src/engine/sim/tick_tool_command.go, reactor_commands.go), against the  *)
(* conversation history that memory-api keeps for the villager's agent     *)
(* (src/engine/sim/llm/memapi/client.go).                                  *)
(*                                                                         *)
(* The Reactor module decides when a turn starts and what its warrants     *)
(* become; here a turn is started by a stimulus or by an unfinished        *)
(* intent, and the inside of it is modelled.  What a tool does to the      *)
(* world is left to the other modules: a commit has an outcome and a count *)
(* of the times it took effect in the turn.                                *)
(*                                                                         *)
(* Left out: the text of prompts and replies, the re-rendering of the      *)
(* prompt after a commit, telemetry.  An attempt is ended by its own       *)
(* completion only (reactor_commands.go:343), so the answer "stale" of     *)
(* RunTickToolCommand cannot come while the turn runs; a visitor who left  *)
(* makes it fail with "actor not found".  The harness is built without a   *)
(* dispatch timeout by cmd/engine.                                         *)
(***************************************************************************)
EXTENDS Naturals, Sequences

CONSTANTS
    Observations,  \* tools that only look: recall, and the like
    Commits,       \* tools that change the world
    Ending,        \* commits that end the turn when they succeed
    OnceDone,      \* commits refused after a success: pay_with_item, sell, gather, craft
    OnceTried,     \* commits refused after a first try: accept_pay, solicit_work, deliver_order, move_to
    Eaten,         \* commits refused after a try that eased nothing: consume
    IterationBudget,
    MaxObservationRounds,
    MaxToolCalls,  \* MaxToolCallsPerResponse
    MaxSpill,      \* bound: calls of one answer beyond MaxToolCalls
    MaxStimuli     \* bound: stimuli from outside the turn

ASSUME TurnAssumption ==
    /\ Observations \cap Commits = {} /\ {"complete", "none"} \cap Commits = {}
    /\ Ending \subseteq Commits /\ OnceDone \subseteq Commits
    /\ OnceTried \subseteq Commits /\ Eaten \subseteq Commits
    /\ {IterationBudget, MaxToolCalls} \subseteq Nat \ {0}
    /\ {MaxObservationRounds, MaxSpill, MaxStimuli} \subseteq Nat

VARIABLES
    present,   \* the villager is in World.Actors
    inFlight,  \* actor.TickInFlight
    stimuli,   \* stimuli still to come
    intent,    \* an unfinished_intent warrant is pending
    turn,      \* the turn the worker runs
    cmds,      \* World.cmds, the commands of this turn in it
    ran,       \* how often each commit took effect in this turn
    unheard,   \* effects of this turn the model was not told of
    batch,     \* memory-api: the newest tool_use batch of the agent's history
    stopped    \* the worker's context is cancelled

vars == <<present, inFlight, stimuli, intent, turn, cmds, ran, unheard, batch, stopped>>

maxTotalRounds == IterationBudget + MaxObservationRounds
Phases == {"idle", "preflight", "asking", "calling", "sent", "ended", "report", "reported"}
Statuses == {"none", "success", "done", "budgetForced", "skipped", "lagged", "absent",
             "failedBefore", "failedAfter", "shutdown"}
\* What a command may answer: which tools can find the world unchanged is not kept
\* apart, any may.
Outcomes == {"ok", "nothing", "rejected", "alreadySo", "unchanged", "notFound"}
NoTool == "none"
NoOutcome == "none"

NoTurn == [phase |-> "idle", status |-> "none", round |-> 0, acts |-> 0, left |-> 0, spill |-> 0,
           asked |-> 0, tail |-> 0, thinking |-> FALSE, nudged |-> FALSE, tried |-> {},
           tool |-> NoTool, answer |-> NoOutcome, retried |-> FALSE, skipped |-> FALSE]

Effects == {"ok", "nothing"}        \* outcomes of a command that changed the world
EndedWith(s) == turn' = [turn EXCEPT !.phase = "ended", !.status = s]

\* ---------------------------------------------------------------- the start
\* The evaluator starts an attempt: the batch holds the unfinished intent, if
\* there is one, beside whatever else came.
Dispatch ==
    /\ present /\ ~inFlight /\ turn.phase = "idle" /\ ~stopped
    /\ \/ stimuli > 0 /\ stimuli' = stimuli - 1
       \/ intent /\ UNCHANGED stimuli
    /\ inFlight' = TRUE /\ intent' = FALSE
    /\ turn' = [NoTurn EXCEPT !.phase = "preflight", !.retried = intent]
    /\ ran' = [t \in Commits |-> 0] /\ unheard' = 0
    /\ UNCHANGED <<present, cmds, batch, stopped>>

\* The worker drops a job it took after the pool was stopped.
DropJob ==
    /\ turn.phase = "preflight" /\ stopped
    /\ turn' = NoTurn
    /\ UNCHANGED <<present, inFlight, stimuli, intent, cmds, ran, unheard, batch, stopped>>

\* The snapshot the turn reads did not catch up with its dispatch in time.
PreflightLag ==
    /\ turn.phase = "preflight"
    /\ EndedWith(IF stopped THEN "shutdown" ELSE "lagged")
    /\ UNCHANGED <<present, inFlight, stimuli, intent, cmds, ran, unheard, batch, stopped>>

\* A fresh snapshot: the villager is gone, has nothing to act on, or is asked.
PreflightFresh ==
    /\ turn.phase = "preflight"
    /\ \/ ~present /\ EndedWith("absent")
       \/ present /\ ~turn.retried /\ EndedWith("skipped")
       \/ present /\ turn' = [turn EXCEPT !.phase = "asking"]
    /\ UNCHANGED <<present, inFlight, stimuli, intent, cmds, ran, unheard, batch, stopped>>

\* ------------------------------------------------------------ a model call
\* What Complete posts: the trailing tool results, or the last user message.
Posted == IF turn.tail = 0 THEN batch ELSE IF batch = "open" THEN "answered" ELSE "doubled"
FailureStatus == IF turn.round = 0 THEN "failedBefore" ELSE "failedAfter"

Asks ==
    /\ turn.phase = "asking" /\ turn.round < maxTotalRounds
    /\ UNCHANGED <<present, inFlight, stimuli, intent, cmds, ran, unheard, stopped>>

\* The context is cancelled before the call or during it.
AskCancelled ==
    /\ Asks /\ stopped
    /\ EndedWith("shutdown")
    /\ UNCHANGED batch

\* The call failed: before memory-api took the turn, or after; its answer, if
\* it had tool calls, is in the history all the same.
AskFails ==
    /\ Asks /\ ~stopped
    /\ EndedWith(FailureStatus)
    /\ batch' \in {batch, Posted, "open"}

\* Prose is heard by no one: the model is asked once more to speak it.
ReplyProse ==
    /\ Asks /\ ~stopped
    /\ batch' = Posted
    /\ IF ~turn.nudged /\ turn.round + 1 < maxTotalRounds
       THEN turn' = [turn EXCEPT !.round = @ + 1, !.nudged = TRUE, !.asked = 0, !.tail = 0]
       ELSE EndedWith("success")

\* An empty answer ends the turn.
ReplyEmpty ==
    /\ Asks /\ ~stopped
    /\ batch' = Posted
    /\ EndedWith("success")

\* An answer with tool calls; those beyond the cap are not run.
ReplyCalls ==
    /\ Asks /\ ~stopped
    /\ batch' = "open"
    /\ \E n \in 1..MaxToolCalls, spill \in 0..MaxSpill :
          /\ spill > 0 => n = MaxToolCalls
          /\ turn' = [turn EXCEPT !.phase = "calling", !.round = @ + 1, !.left = n, !.spill = spill,
                                  !.asked = n + spill, !.tail = 0, !.thinking = spill = 0]

\* ------------------------------------------------------------- a tool call
\* Whether the guards of the turn refuse the call.
Refused(t) == t \in turn.tried

\* One call is answered with a tool message and the walk goes on.
Replied(t, busy, kept) ==
    [turn EXCEPT !.phase = "calling", !.left = @ - 1, !.tail = @ + 1, !.tool = NoTool,
                 !.answer = NoOutcome, !.thinking = @ /\ ~busy, !.tried = @ \cup kept]

\* Mutant: the calls beyond the cap get no tool message.
MutEnded(status, skipped) ==
    [turn EXCEPT !.phase = "ended", !.status = status, !.left = 0, !.spill = 0, !.tool = NoTool,
                 !.answer = NoOutcome, !.tail = @ + turn.left,
                 !.skipped = skipped /\ ~turn.retried]

\* Mutant: the retry of an intent leaves an intent again.
MutChained(status, skipped) ==
    [turn EXCEPT !.phase = "ended", !.status = status, !.left = 0, !.spill = 0, !.tool = NoTool,
                 !.answer = NoOutcome, !.tail = @ + turn.left + turn.spill, !.skipped = skipped]

\* A call that ends the turn: the rest of the batch is answered unrun, and the
\* commits in it are remembered as an intent, unless this turn was its retry.
Ended(status, skipped) ==
    [turn EXCEPT !.phase = "ended", !.status = status, !.left = 0, !.spill = 0, !.tool = NoTool,
                 !.answer = NoOutcome, !.tail = @ + turn.left + turn.spill,
                 !.skipped = skipped /\ ~turn.retried]

Calls ==
    /\ turn.phase = "calling" /\ turn.left > 0
    /\ UNCHANGED <<present, inFlight, stimuli, intent, ran, unheard, batch, stopped>>

\* An unknown tool or malformed arguments.
CallInvalid ==
    /\ Calls /\ turn' = Replied("bogus", TRUE, {})
    /\ UNCHANGED cmds

CallObservation ==
    /\ Calls
    /\ \E t \in Observations : turn' = Replied(t, FALSE, {})
    /\ UNCHANGED cmds

\* The model already did, or tried, this in the turn.
CallRefused ==
    /\ Calls
    /\ \E t \in Commits : Refused(t) /\ turn' = Replied(t, TRUE, {})
    /\ UNCHANGED cmds

CallDone ==
    /\ Calls
    /\ \E skipped \in BOOLEAN : (skipped => turn.left > 1) /\ turn' = Ended("done", skipped)
    /\ UNCHANGED cmds

\* The handler rejects the arguments, or the context is cancelled before the
\* world took the command.
CallUnsent ==
    /\ Calls
    /\ \E t \in Commits : ~Refused(t) /\ turn' = Replied(t, TRUE, {t} \cap OnceTried)
    /\ UNCHANGED cmds

\* The command is in the world's queue and the worker waits for the answer.
CallCommit ==
    /\ Calls
    /\ \E t \in Commits :
          /\ ~Refused(t)
          /\ turn' = [turn EXCEPT !.phase = "sent", !.tool = t, !.thinking = FALSE,
                                  !.tried = @ \cup ({t} \cap OnceTried)]
          /\ cmds' = Append(cmds, [tool |-> t, awaited |-> TRUE])

\* The world goroutine runs the command, if its actor is there.
RunTickToolCommand ==
    /\ cmds # <<>> /\ Head(cmds).tool \in Commits
    /\ LET c == Head(cmds) IN
       \E o \in Outcomes :
          /\ (o = "notFound") = ~present
          /\ o = "nothing" => c.tool \in Eaten
          /\ ran' = IF o \in Effects THEN [ran EXCEPT ![c.tool] = @ + 1] ELSE ran
          /\ unheard' = IF o \in Effects /\ ~c.awaited THEN unheard + 1 ELSE unheard
          /\ turn' = IF c.awaited THEN [turn EXCEPT !.answer = o] ELSE turn
    /\ cmds' = Tail(cmds)
    /\ UNCHANGED <<present, inFlight, stimuli, intent, batch, stopped>>

\* Mutant: only the guard of consume learns from the answer.
MutLearned(t, o) == IF o = "nothing" THEN {t} ELSE {}

\* What the guards remember of a commit that was answered.
Learned(t, o) ==
    IF (o \in Effects \cup {"alreadySo", "unchanged"} /\ t \in OnceDone) \/ o = "nothing" THEN {t} ELSE {}

\* The worker takes the answer.
Hear ==
    /\ turn.phase = "sent" /\ turn.answer # NoOutcome
    /\ \/ /\ turn.answer = "alreadySo" \/ (turn.answer \in Effects /\ turn.tool \in Ending)
          /\ \E skipped \in BOOLEAN : (skipped => turn.left > 1) /\ turn' = Ended("success", skipped)
       \/ /\ turn.answer \in {"rejected", "notFound", "unchanged"}
             \/ (turn.answer \in Effects /\ turn.tool \notin Ending)
          /\ turn' = Replied(turn.tool, TRUE, Learned(turn.tool, turn.answer))
    /\ UNCHANGED <<present, inFlight, stimuli, intent, cmds, ran, unheard, batch, stopped>>

\* Mutant: the dispatch has a timeout of its own.
MutGiveUp ==
    /\ turn.phase = "sent"
    /\ turn' = Replied(turn.tool, TRUE, {})
    /\ cmds' = [i \in DOMAIN cmds |-> [cmds[i] EXCEPT !.awaited = FALSE]]
    /\ unheard' = IF turn.answer \in Effects THEN unheard + 1 ELSE unheard
    /\ UNCHANGED <<present, inFlight, stimuli, intent, ran, batch, stopped>>

\* SendContext gives up when the context is cancelled, also when the answer is
\* there; the command stays in the queue.
GiveUp ==
    /\ turn.phase = "sent" /\ stopped
    /\ turn' = Replied(turn.tool, TRUE, {})
    /\ cmds' = [i \in DOMAIN cmds |-> [cmds[i] EXCEPT !.awaited = FALSE]]
    /\ unheard' = IF turn.answer \in Effects THEN unheard + 1 ELSE unheard
    /\ UNCHANGED <<present, inFlight, stimuli, intent, ran, batch, stopped>>

\* The batch is through: the calls beyond the cap are answered, and a round
\* that was more than looking counts against the budget.
Spent == IF turn.thinking THEN turn.acts ELSE turn.acts + 1

EndBatch ==
    /\ turn.phase = "calling" /\ turn.left = 0
    /\ LET answered == [turn EXCEPT !.tail = @ + turn.spill, !.spill = 0, !.acts = Spent] IN
       turn' = IF Spent >= IterationBudget \/ turn.round = maxTotalRounds
               THEN [answered EXCEPT !.phase = "ended", !.status = "budgetForced"]
               ELSE [answered EXCEPT !.phase = "asking"]
    /\ UNCHANGED <<present, inFlight, stimuli, intent, cmds, ran, unheard, batch, stopped>>

\* ----------------------------------------------------------------- the end
\* persistTickToolResults: a turn that ended cleanly writes the trailing tool
\* results to the history; the call may fail for good.
Persists == turn.status \in {"done", "success", "budgetForced"} /\ turn.tail > 0 /\ ~stopped

PersistTickToolResults ==
    /\ turn.phase = "ended"
    /\ turn' = [turn EXCEPT !.phase = "report"]
    /\ batch' = IF Persists THEN Posted ELSE batch
    /\ UNCHANGED <<present, inFlight, stimuli, intent, cmds, ran, unheard, stopped>>

PersistFails ==
    /\ turn.phase = "ended" /\ Persists
    /\ turn' = [turn EXCEPT !.phase = "report"]
    /\ UNCHANGED <<present, inFlight, stimuli, intent, cmds, ran, unheard, batch, stopped>>

\* The worker sends CompleteReactorTick; cancelled, it may fail to.
Report ==
    /\ turn.phase = "report"
    /\ \/ cmds' = Append(cmds, [tool |-> "complete", awaited |-> TRUE])
          /\ turn' = [turn EXCEPT !.phase = "reported"]
       \/ stopped /\ turn' = NoTurn /\ UNCHANGED cmds
    /\ UNCHANGED <<present, inFlight, stimuli, intent, ran, unheard, batch, stopped>>

\* The statuses that mean the turn took its inputs in.
Addresses == turn.status \in {"success", "done", "budgetForced", "failedAfter", "skipped"}

CompleteReactorTick ==
    /\ cmds # <<>> /\ Head(cmds).tool = "complete"
    /\ cmds' = Tail(cmds)
    /\ IF present
       THEN /\ inFlight' = FALSE
            /\ intent' = (intent \/ (turn.skipped /\ Addresses)
                                 \/ (turn.retried /\ turn.status = "lagged"))
       ELSE UNCHANGED <<inFlight, intent>>
    /\ turn' = NoTurn
    /\ UNCHANGED <<present, stimuli, ran, unheard, batch, stopped>>

\* A visitor leaves the village in the middle of its turn.
Leave ==
    /\ present
    /\ present' = FALSE /\ inFlight' = FALSE /\ intent' = FALSE
    /\ UNCHANGED <<stimuli, turn, cmds, ran, unheard, batch, stopped>>

\* TickWorkerPool.Stop cancels the workers' context.
Stop ==
    /\ ~stopped /\ stopped' = TRUE
    /\ UNCHANGED <<present, inFlight, stimuli, intent, turn, cmds, ran, unheard, batch>>

Init ==
    /\ present = TRUE /\ inFlight = FALSE /\ stimuli = MaxStimuli /\ intent = FALSE
    /\ turn = NoTurn /\ cmds = <<>> /\ ran = [t \in Commits |-> 0] /\ unheard = 0
    /\ batch = "none" /\ stopped = FALSE

Preflight == PreflightLag \/ PreflightFresh \/ DropJob
Ask == AskCancelled \/ AskFails \/ ReplyProse \/ ReplyEmpty \/ ReplyCalls
Call == CallInvalid \/ CallObservation \/ CallRefused \/ CallDone \/ CallUnsent \/ CallCommit
World == RunTickToolCommand \/ CompleteReactorTick
WorkerStep == Preflight \/ Ask \/ Call \/ Hear \/ GiveUp \/ EndBatch
              \/ PersistTickToolResults \/ PersistFails \/ Report

Next == Dispatch \/ WorkerStep \/ World \/ Leave \/ Stop

Spec == Init /\ [][Next]_vars

\* The evaluator, the world goroutine and the worker go on; a model call
\* returns (memapi.NewClient sets a timeout); the snapshot is now and then
\* fresh in time.
FairSpec ==
    /\ Spec
    /\ WF_vars(Dispatch) /\ WF_vars(WorkerStep) /\ WF_vars(World) /\ SF_vars(PreflightFresh)

\* --------------------------------------------------------------- properties
\* Type correctness; in particular a turn never outruns its rounds.
TurnTypeOK ==
    /\ {present, inFlight, intent, stopped} \subseteq BOOLEAN
    /\ stimuli \in 0..MaxStimuli
    /\ turn.phase \in Phases /\ turn.status \in Statuses
    /\ turn.round \in 0..maxTotalRounds /\ turn.acts \in 0..IterationBudget
    /\ turn.left \in 0..MaxToolCalls /\ turn.spill \in 0..MaxSpill
    /\ turn.asked \in 0..(MaxToolCalls + MaxSpill) /\ turn.tail \in 0..(MaxToolCalls + MaxSpill)
    /\ {turn.thinking, turn.nudged, turn.retried, turn.skipped} \subseteq BOOLEAN
    /\ turn.tried \subseteq Commits
    /\ turn.tool \in Commits \cup {NoTool} /\ turn.answer \in Outcomes \cup {NoOutcome}
    /\ \A i \in DOMAIN cmds : cmds[i].tool \in Commits \cup {"complete"} /\ cmds[i].awaited \in BOOLEAN
    /\ ran \in [Commits -> Nat] /\ unheard \in Nat
    /\ batch \in {"none", "open", "answered", "doubled"}

\* Every call of an answer, the ones beyond the cap and the ones behind the end
\* of the turn included, has exactly one tool message when the model is asked
\* again or the turn is over: providers refuse a transcript without it.
CallsAnswered == turn.phase \in {"asking", "ended", "report"} => turn.tail = turn.asked

\* What a guard protects takes effect once in a turn: an answer to an offer and
\* the like always, an offer and the like as long as the worker is not
\* cancelled between two of them.
OnePerTurn ==
    \A t \in Commits :
        /\ t \in OnceTried => ran[t] <= 1
        /\ t \in OnceDone /\ ~stopped => ran[t] <= 1

\* The model is never asked again while something it did in the turn took
\* effect without its being told.
NothingUnsaid == turn.phase = "asking" /\ ~stopped => unheard = 0

\* A model call that posts tool results finds the batch they answer open in the
\* history: within its rounds a turn answers each batch, and only once.
RoundsPaired == turn.phase = "asking" /\ turn.tail > 0 => batch = "open"

\* The transcript pairs, in the next call and in the history, over well-typed state.
TranscriptSound == TurnTypeOK /\ CallsAnswered /\ RoundsPaired

\* A turn's first call finds no tool_use batch without results in the history
\* (what persistTickToolResults is there for).
NoOrphanToolUse == turn.phase = "asking" /\ turn.round = 0 => batch # "open"

\* The results of a batch are written to the history once: what is persisted
\* at the end of a turn is the batch no call delivered.
DeliveredOnce == batch # "doubled"

\* Without new stimuli the villager comes to rest: every turn ends, and a model
\* that always queues calls behind its last one is not asked for ever.
TurnsQuiet == <>[](turn.phase = "idle")
=============================================================================
