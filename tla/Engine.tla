------------------------------- MODULE Engine -------------------------------
(***************************************************************************)
(* The life and the end of one engine process: run in                      *)
(* src/engine/sim/cmd/engine/main.go, with the goroutines whose order at   *)
(* the stop is load-bearing -- the world's command loop, the tick pool's   *)
(* workers, the periodic checkpointer, the action-log writer and the daily *)
(* push -- and with what survives the process: the last checkpoint, and    *)
(* the cursor of the push.                                                 *)
(*                                                                         *)
(* The world is a count of the mutations it has seen and, of those, the    *)
(* ones a tick worker asked for.  A command is its kind.  A checkpoint is  *)
(* one transaction: it commits the snapshot it was given, or nothing; two  *)
(* that are in flight together are serialized by advisory locks            *)
(* (repo/pg/*.go), in either order.                                        *)
(*                                                                         *)
(* Left out: the HTTP handlers' and the court runner's own use of the      *)
(* database, an action-log insert that fails (its row is lost, and only    *)
(* logged), and a push cursor that does not parse.                         *)
(***************************************************************************)
EXTENDS Naturals, Sequences

CONSTANTS
    Workers,
    MaxCmds,       \* capacity of World.cmds
    LogBuffer,     \* actionLogBufferSize
    MaxWork,       \* bound: mutating commands ever sent
    MaxDay,        \* bound: days
    NoDay

ASSUME EngineAssumption ==
    /\ {MaxCmds, LogBuffer} \subseteq Nat \ {0} /\ {MaxWork, MaxDay} \subseteq Nat
    /\ MaxDay > 0 /\ NoDay \notin Nat

VARIABLES
    force, graceful,   \* a stop of this kind is pending in its channel
    main,              \* where run stands
    gateOK,            \* the gate of a graceful stop was passed
    final,             \* the last checkpoint: none, ok, failed
    mainSnap,          \* the snapshot run's last checkpoint was given
    ck, ckSnap,        \* RunCheckpointer: idle, ask, wait, save, ended; its snapshot
    cmds,              \* World.cmds
    sent,              \* mutating commands sent so far
    world,             \* all: mutations, ticks: those from workers
    loop,              \* World.Run: on, cancelled, done
    worker,            \* each worker: busy, waiting, gone
    logQueue,          \* rows buffered for the writer
    writer,            \* ActionLogRepo.Run: on, cancelled, done
    push,              \* Dispatcher: idle, posting the day after the cursor, stamping it, done
    today,
    saved,             \* in Postgres: the world as checkpointed
    cursor, anchor,    \* in Postgres: the push cursor; the day it was first set to
    posted,            \* days whose posts all succeeded
    crashed

stopVars == <<force, graceful>>
mainVars == <<main, gateOK, final, mainSnap>>
ckVars == <<ck, ckSnap>>
loopVars == <<cmds, sent, world, loop>>
logVars == <<logQueue, writer>>
pushVars == <<push, today, cursor, anchor, posted>>
vars == <<stopVars, mainVars, ckVars, loopVars, worker, logVars, pushVars, saved, crashed>>

Kinds == {"tick", "other", "snapMain", "snapPeriodic", "void"}
Worlds == [all : Nat, ticks : Nat]
NoWork == [all |-> 0, ticks |-> 0]
Days == 0 .. MaxDay
Stages == {"gate", "gateAsk", "gateWait", "gateSave", "http", "ckWait", "poolWait",
           "finalAsk", "finalWait", "finalSave", "worldWait", "lastWaits",
           "exited", "failed"}

TypeOK ==
    /\ {force, graceful, gateOK, crashed} \subseteq BOOLEAN
    /\ main \in Stages /\ final \in {"none", "ok", "failed"}
    /\ ck \in {"idle", "ask", "wait", "save", "ended"}
    /\ {mainSnap, ckSnap, world, saved} \subseteq Worlds
    /\ cmds \in Seq(Kinds) /\ Len(cmds) <= MaxCmds
    /\ sent \in 0 .. MaxWork
    /\ loop \in {"on", "cancelled", "done"}
    /\ worker \in [Workers -> {"busy", "waiting", "gone"}]
    /\ logQueue \in 0 .. LogBuffer /\ writer \in {"on", "cancelled", "done"}
    /\ push \in {"idle", "posting", "stamping", "done"}
    /\ today \in Days
    /\ {cursor, anchor} \subseteq Days \cup {NoDay} /\ posted \subseteq Days

\* The first process has loaded the world and started its goroutines.
Init ==
    /\ force = FALSE /\ graceful = FALSE
    /\ main = "gate" /\ gateOK = FALSE /\ final = "none"
    /\ ck = "idle" /\ cmds = <<>> /\ loop = "on"
    /\ worker = [w \in Workers |-> "busy"]
    /\ logQueue = 0 /\ writer = "on" /\ push = "idle"
    /\ world = NoWork
    /\ saved = world /\ mainSnap = world /\ ckSnap = world
    /\ sent = 0
    /\ today = 1
    /\ cursor = NoDay /\ anchor = NoDay /\ posted = {}
    /\ crashed = FALSE

Ended == main \in {"exited", "failed"}

(***************************************************************************)
(* The world's command loop and those who send to it.                      *)
(***************************************************************************)

Room == Len(cmds) < MaxCmds

\* The caller gives up on the snapshot it asked for: the command stays queued.
Abandoned(kind) == [i \in DOMAIN cmds |-> IF cmds[i] = kind THEN "void" ELSE cmds[i]]

\* A worker's turn sends a command; its context may be cancelled already.
SendTick(w) ==
    /\ ~Ended /\ worker[w] = "busy" /\ Room /\ sent < MaxWork
    /\ cmds' = Append(cmds, "tick") /\ sent' = sent + 1
    /\ worker' = [worker EXCEPT ![w] = "waiting"]
    /\ UNCHANGED <<stopVars, mainVars, ckVars, world, loop, logVars, pushVars, saved, crashed>>

\* Tickers, cascades and HTTP handlers: nothing stops them before the world's end.
SendOther ==
    /\ ~Ended /\ loop # "done" /\ Room /\ sent < MaxWork
    /\ cmds' = Append(cmds, "other") /\ sent' = sent + 1
    /\ UNCHANGED <<stopVars, mainVars, ckVars, world, loop, worker, logVars, pushVars, saved,
                   crashed>>

\* World.Run takes the next command.  A mutation appends its audit row, which a full
\* buffer drops; a snapshot is handed to whoever waits for it.
Execute ==
    /\ ~Ended /\ loop # "done" /\ cmds # <<>>
    /\ cmds' = Tail(cmds)
    /\ LET kind == Head(cmds)
           mutates == kind \in {"tick", "other"}
       IN /\ world' = [all |-> IF mutates THEN world.all + 1 ELSE world.all,
                       ticks |-> IF kind = "tick" THEN world.ticks + 1 ELSE world.ticks]
          /\ logQueue' = IF mutates /\ logQueue < LogBuffer THEN logQueue + 1 ELSE logQueue
          /\ IF kind = "tick"
             THEN \/ \E w \in Workers :
                        worker[w] = "waiting" /\ worker' = [worker EXCEPT ![w] = "busy"]
                  \/ (\A w \in Workers : worker[w] # "waiting") /\ UNCHANGED worker
             ELSE UNCHANGED worker
          /\ IF kind = "snapMain"
             THEN /\ mainSnap' = world
                  /\ main' = IF main = "gateWait" THEN "gateSave" ELSE "finalSave"
             ELSE UNCHANGED <<mainSnap, main>>
          /\ IF kind = "snapPeriodic"
             THEN ckSnap' = world /\ ck' = "save"
             ELSE UNCHANGED ckVars
    /\ UNCHANGED <<stopVars, gateOK, final, sent, loop, writer, pushVars, saved, crashed>>

LoopEnds ==
    /\ ~Ended /\ loop = "cancelled"
    /\ loop' = "done"
    /\ UNCHANGED <<stopVars, mainVars, ckVars, cmds, sent, world, worker, logVars, pushVars,
                   saved, crashed>>

\* The pool's context is cancelled: a worker leaves, whether or not the command it
\* sent has run.
WorkerExits(w) ==
    /\ ~Ended /\ worker[w] # "gone"
    /\ main = "poolWait"
    /\ worker' = [worker EXCEPT ![w] = "gone"]
    /\ UNCHANGED <<stopVars, mainVars, ckVars, loopVars, logVars, pushVars, saved, crashed>>

(***************************************************************************)
(* RunCheckpointer.                                                        *)
(***************************************************************************)

CkCancelled == main \notin {"gate", "gateAsk", "gateWait", "gateSave", "http"}

CkDue ==
    /\ ~Ended /\ ck = "idle" /\ ~CkCancelled
    /\ ck' = "ask"
    /\ UNCHANGED <<stopVars, mainVars, ckSnap, loopVars, worker, logVars, pushVars, saved, crashed>>

CkAsk ==
    /\ ~Ended /\ ck = "ask" /\ Room
    /\ cmds' = Append(cmds, "snapPeriodic") /\ ck' = "wait"
    /\ UNCHANGED <<stopVars, mainVars, ckSnap, sent, world, loop, worker, logVars, pushVars,
                   saved, crashed>>

\* The transaction commits, or fails and rolls back.
CkSave ==
    /\ ~Ended /\ ck = "save"
    /\ ck' = "idle" /\ ckSnap' = NoWork
    /\ saved' \in {ckSnap, saved}
    /\ UNCHANGED <<stopVars, mainVars, loopVars, worker, logVars, pushVars, crashed>>

\* Cancelled while it waits, or between two checkpoints.
CkStops ==
    /\ ~Ended /\ CkCancelled /\ ck # "ended"
    /\ ck' = IF ck = "idle" THEN "ended" ELSE "idle"
    /\ cmds' = Abandoned("snapPeriodic") /\ ckSnap' = NoWork
    /\ UNCHANGED <<stopVars, mainVars, sent, world, loop, worker, logVars, pushVars, saved,
                   crashed>>

(***************************************************************************)
(* The action-log writer and the daily push.                               *)
(***************************************************************************)

WriteRow ==
    /\ ~Ended /\ writer # "done" /\ logQueue > 0
    /\ logQueue' = logQueue - 1
    /\ UNCHANGED <<stopVars, mainVars, ckVars, loopVars, worker, writer, pushVars, saved, crashed>>

\* drainRemaining has found the buffer empty.
WriterEnds ==
    /\ ~Ended /\ writer = "cancelled" /\ logQueue = 0
    /\ writer' = "done"
    /\ UNCHANGED <<stopVars, mainVars, ckVars, loopVars, worker, logQueue, pushVars, saved,
                   crashed>>

Midnight ==
    /\ today < MaxDay
    /\ today' = today + 1
    /\ UNCHANGED <<stopVars, mainVars, ckVars, loopVars, worker, logVars,
                   push, cursor, anchor, posted, saved, crashed>>

\* dispatchOnce: set the first cursor, or start on the day after it.  Its catch-up loop,
\* a day at a time up to yesterday, is this action again after each StampDay.
Dispatch ==
    /\ ~Ended /\ push = "idle" /\ loop = "on"
    /\ IF cursor = NoDay
       THEN cursor' = today - 1 /\ anchor' = today - 1 /\ UNCHANGED push
       ELSE cursor < today - 1 /\ push' = "posting" /\ UNCHANGED <<cursor, anchor>>
    /\ UNCHANGED <<stopVars, mainVars, ckVars, loopVars, worker, logVars, today, posted,
                   saved, crashed>>

\* Mutant: an agent whose post failed does not hold the day back.
MutPostDay ==
    /\ ~Ended /\ push = "posting" /\ push' = "stamping"
    /\ posted' \in {posted, posted \cup {cursor + 1}}
    /\ UNCHANGED <<stopVars, mainVars, ckVars, loopVars, worker, logVars,
                   today, cursor, anchor, saved, crashed>>

\* pushDay: every agent's post succeeded, or the day is left for the next pass.
PostDay ==
    /\ ~Ended /\ push = "posting"
    /\ \/ push' = "stamping" /\ posted' = posted \cup {cursor + 1}
       \/ push' = "idle" /\ UNCHANGED posted
    /\ UNCHANGED <<stopVars, mainVars, ckVars, loopVars, worker, logVars,
                   today, cursor, anchor, saved, crashed>>

\* SetLastPushedDay, which may fail.
StampDay ==
    /\ ~Ended /\ push = "stamping" /\ push' = "idle"
    /\ cursor' \in {cursor, cursor + 1}
    /\ UNCHANGED <<stopVars, mainVars, ckVars, loopVars, worker, logVars,
                   today, anchor, posted, saved, crashed>>

PushEnds ==
    /\ ~Ended /\ push = "idle" /\ loop # "on"
    /\ push' = "done"
    /\ UNCHANGED <<stopVars, mainVars, ckVars, loopVars, worker, logVars,
                   today, cursor, anchor, posted, saved, crashed>>

(***************************************************************************)
(* The stop: signals, run's stop gate, and the teardown.                   *)
(***************************************************************************)

\* main's signal goroutine: a non-blocking send into a channel of capacity one.  Nobody
\* reads the channels once the gate is left, and a signal changes nothing then.
Listening == main \in {"gate", "gateAsk", "gateWait", "gateSave"}

SignalForce ==
    /\ Listening /\ ~force
    /\ force' = TRUE
    /\ UNCHANGED <<graceful, mainVars, ckVars, loopVars, worker, logVars, pushVars, saved, crashed>>

SignalGraceful ==
    /\ Listening /\ ~graceful
    /\ graceful' = TRUE
    /\ UNCHANGED <<force, mainVars, ckVars, loopVars, worker, logVars, pushVars, saved, crashed>>

\* Mutant: a pending graceful request is served before a force.
MutGate ==
    /\ main = "gate"
    /\ IF graceful
       THEN main' = "gateAsk" /\ graceful' = FALSE /\ UNCHANGED force
       ELSE force /\ main' = "http" /\ force' = FALSE /\ UNCHANGED graceful
    /\ UNCHANGED <<gateOK, final, mainSnap, ckVars, loopVars, worker, logVars, pushVars,
                   saved, crashed>>

\* The gate's loop: a pending force preempts a pending graceful request.  (Of two that
\* arrive while run already waits, either may be taken: the same as their order.)
Gate ==
    /\ main = "gate"
    /\ IF force
       THEN main' = "http" /\ force' = FALSE /\ UNCHANGED graceful
       ELSE graceful /\ main' = "gateAsk" /\ graceful' = FALSE /\ UNCHANGED force
    /\ UNCHANGED <<gateOK, final, mainSnap, ckVars, loopVars, worker, logVars, pushVars,
                   saved, crashed>>

\* CheckpointNow of the gate and of the teardown: send the snapshot command ...
Ask ==
    /\ main \in {"gateAsk", "finalAsk"} /\ Room
    /\ cmds' = Append(cmds, "snapMain")
    /\ main' = IF main = "gateAsk" THEN "gateWait" ELSE "finalWait"
    /\ UNCHANGED <<stopVars, gateOK, final, mainSnap, ckVars, sent, world, loop, worker, logVars,
                   pushVars, saved, crashed>>

\* ... and write the snapshot (Execute answers in between): durable, and said to be.
Save ==
    /\ main \in {"gateSave", "finalSave"}
    /\ saved' = mainSnap
    /\ IF main = "gateSave" THEN main' = "http" /\ gateOK' = TRUE /\ UNCHANGED final
                            ELSE main' = "worldWait" /\ final' = "ok" /\ UNCHANGED gateOK
    /\ UNCHANGED <<stopVars, mainSnap, ckVars, loopVars, worker, logVars, pushVars, crashed>>

\* An error, or finalCheckpointTimeout at any point; a commit whose answer is lost may
\* stand.  The gate goes on serving, the teardown goes on without.
NotSaved ==
    /\ \/ main \in {"gateAsk", "gateWait", "gateSave"} /\ main' = "gate" /\ UNCHANGED final
       \/ /\ main \in {"finalAsk", "finalWait", "finalSave"}
          /\ main' = "worldWait" /\ final' = "failed"
    /\ cmds' = Abandoned("snapMain")
    /\ saved' \in {saved} \cup (IF main \in {"gateSave", "finalSave"} THEN {mainSnap} ELSE {})
    /\ UNCHANGED <<stopVars, gateOK, mainSnap, ckVars, sent, world, loop, worker, logVars, pushVars,
                   crashed>>

\* httpServer.Shutdown, or its timeout; then the checkpointer is cancelled, waited for,
\* and the pool stopped (tickPool.Stop) and waited for.
HTTPShutdown ==
    /\ main = "http"
    /\ main' = "ckWait"
    /\ UNCHANGED <<stopVars, gateOK, final, mainSnap, ckVars, loopVars, worker, logVars, pushVars,
                   saved, crashed>>

CheckpointerDone ==
    /\ main = "ckWait" /\ ck = "ended"
    /\ main' = "poolWait"
    /\ UNCHANGED <<stopVars, gateOK, final, mainSnap, ckVars, loopVars, worker, logVars, pushVars,
                   saved, crashed>>

\* Mutant: the last checkpoint does not wait for the workers.
MutPoolDone ==
    /\ main = "poolWait"
    /\ main' = "finalAsk"
    /\ UNCHANGED <<stopVars, gateOK, final, mainSnap, ckVars, loopVars, worker, logVars, pushVars,
                   saved, crashed>>

PoolDone ==
    /\ main = "poolWait" /\ \A w \in Workers : worker[w] = "gone"
    /\ main' = "finalAsk"
    /\ UNCHANGED <<stopVars, gateOK, final, mainSnap, ckVars, loopVars, worker, logVars, pushVars,
                   saved, crashed>>

\* cancelWorld.
CancelWorld ==
    /\ main = "worldWait" /\ loop = "on"
    /\ loop' = "cancelled"
    /\ UNCHANGED <<stopVars, mainVars, ckVars, cmds, sent, world, worker, logVars, pushVars,
                   saved, crashed>>

\* World.Run has returned: the writer is told to drain; or worldStopTimeout is up.
WorldDone ==
    /\ main = "worldWait" /\ loop # "on"
    /\ \/ loop = "done" /\ main' = "lastWaits" /\ writer' = "cancelled"
       \/ loop # "done" /\ main' = "failed" /\ UNCHANGED writer
    /\ UNCHANGED <<stopVars, gateOK, final, mainSnap, ckVars, loopVars, worker, logQueue, pushVars,
                   saved, crashed>>

\* Both waits at the end of run: the writer has drained, the push has returned.
LastWaits ==
    /\ main = "lastWaits" /\ writer = "done" /\ push = "done"
    /\ main' = "exited"
    /\ UNCHANGED <<stopVars, gateOK, final, mainSnap, ckVars, loopVars, worker, logVars, pushVars,
                   saved, crashed>>

\* The process dies and another loads the last checkpoint (bound: once).
Crash ==
    /\ ~Ended /\ ~crashed /\ crashed' = TRUE
    /\ force' = FALSE /\ graceful' = FALSE
    /\ main' = "gate" /\ gateOK' = FALSE /\ final' = "none"
    /\ ck' = "idle" /\ cmds' = <<>> /\ loop' = "on"
    /\ worker' = [w \in Workers |-> "busy"]
    /\ logQueue' = 0 /\ writer' = "on" /\ push' = "idle"
    /\ world' = saved /\ mainSnap' = saved /\ ckSnap' = NoWork
    /\ UNCHANGED <<sent, today, cursor, anchor, posted, saved>>

Stop ==
    \/ Gate \/ Ask \/ Save \/ NotSaved \/ HTTPShutdown \/ CheckpointerDone \/ PoolDone
    \/ CancelWorld \/ WorldDone \/ LastWaits

Next ==
    \/ \E w \in Workers : SendTick(w) \/ WorkerExits(w)
    \/ SendOther \/ Execute \/ LoopEnds
    \/ CkDue \/ CkAsk \/ CkSave \/ CkStops
    \/ WriteRow \/ WriterEnds
    \/ Midnight \/ Dispatch \/ PostDay \/ StampDay \/ PushEnds
    \/ SignalForce \/ SignalGraceful \/ Stop \/ Crash

Spec == Init /\ [][Next]_vars

\* The goroutines run, the pool's context ends each worker's call, every database and
\* HTTP call has a deadline.  Nobody owes a signal, a command or a new day.
FairSpec ==
    /\ Spec
    /\ WF_vars(Execute) /\ WF_vars(LoopEnds)
    /\ \A w \in Workers : WF_vars(WorkerExits(w))
    /\ WF_vars(CkAsk) /\ WF_vars(CkSave) /\ WF_vars(CkStops)
    /\ WF_vars(WriteRow) /\ WF_vars(WriterEnds)
    /\ WF_vars(PostDay) /\ WF_vars(StampDay) /\ WF_vars(PushEnds)
    /\ WF_vars(Stop)

-----------------------------------------------------------------------------

\* The checkpoint the shutdown summary calls final is the one that stands -- no
\* periodic write lands after it -- and it holds every tick the pool committed on its
\* way out (run's shutdown order, points 1 to 3).
FinalStands == final = "ok" => saved = mainSnap /\ world.ticks = saved.ticks

\* run returns only when nothing it started can still touch the database, and no audit
\* row is left behind in the writer's buffer (points 4 and the two waits after it).
QuietExit ==
    main = "exited" =>
        /\ ck = "ended" /\ loop = "done" /\ writer = "done" /\ push = "done"
        /\ \A w \in Workers : worker[w] = "gone"
        /\ logQueue = 0

\* Both, over well-typed state.
OrderlyStop == TypeOK /\ FinalStands /\ QuietExit

\* The push skips no day and repeats at most one: every day after the first the cursor
\* was set to, up to the cursor, was posted whole, and beyond the cursor at most the next
\* day was, so a crash or a lost stamp has that day posted again and no other ("a
\* mid-window failure resumes rather than repeats", dispatcher.go:145-146).
PushNoGap ==
    IF cursor = NoDay
    THEN posted = {}
    ELSE posted \in {(anchor + 1) .. cursor, (anchor + 1) .. (cursor + 1)}

\* A forced stop ends the process whatever the database and the queues are doing.
StopEnds == (main = "gate" /\ force) ~> (Ended \/ crashed)

\* What stop.go says of a graceful stop that passed its gate and then loses the final
\* write: the checkpoint on disk is the gate's, seconds old.
GateKeeps ==
    gateOK /\ main \in {"http", "ckWait", "poolWait", "finalAsk", "finalWait"} =>
        saved.all >= mainSnap.all
=============================================================================
