# Verification of the Salem engine

The engine (`src/engine/sim`, Go) runs a village of LLM-driven characters. One goroutine,
the world, owns all state; everything else reaches it by sending commands. This directory
holds TLA+ models of its core, the TLC runs that check small instances of them, and TLAPS
proofs for every value of the constants.

| Module | What it is |
|---|---|
| `Reactor` | how an NPC's stimuli become a thought (tick attempt), the tick worker pool, and how a thought lands |
| `Turn` | the inside of a thought: rounds of model calls and tools, and the history the provider keeps |
| `Orders` | paid-for goods handed over later, the checkpoint, the write-through rows, crash and restart |
| `PayLedger` | haggling: offers, counters, answers, quotes, expiry and reaping; implements `Haggles` |
| `Haggles` | what haggling promises of coins and goods |
| `Labor` | work for pay: hire, walk, work, wage, checkpoint and restart |
| `Huddles` | who talks with whom: membership, scenes, whose turn it is, how talks end |
| `Walks` | one tile a tick: detours, jams, visitors' slots, the door's policy |
| `Hub` | the websocket fan-out: registration, two pumps per client, eviction, shutdown |
| `Sockets` | what the world may rely on from the hub; `Hub` implements it |
| `Connections` | the constants `Hub`, `Sockets` and `Presence` share |
| `Presence` | whether a player is there: heartbeat, candle, beds; built on `Sockets` |
| `Engine` | one process: command loop, checkpointer, stop, log writer, daily push, crash |
| `MC…` | constants of the instances TLC checks (one `.cfg` per question) |
| `…Proofs` | theorems and proofs about the module each extends; `ServerProofs` about `Hub`, `Presence` and `Engine` |

To run: `tlc -workers 2 -config MCReactor_live.cfg MCReactor`, and `tlapm ReactorProofs.tla`.
`PROJECT.json` lists the components, hazards, runs, theorems, a source line range for every
definition, and for every property one plausible bug of the code that it catches.

## 1. Inventory

State, operations and interactions of each part, what is hard about it, and what makes it
correct. A part marked * has no module.

**World goroutine and commands** (`world.go`, `command.go`, `snapshot.go`; the queue and the
loop in `Engine`). `World.Run` receives one command, runs its `Fn`, reconciles quotes,
republishes an immutable snapshot and replies. Hard: readers see the last published snapshot,
not the state; a caller that gives up leaves its command in the queue. Every other module takes
one command as one atomic action.

**Reactor** (`reactor*.go`). State per actor: the open warrant cycle, the attempt in flight,
the source keys it consumed, the recently consumed ones. Operations: stamp a warrant, evaluate
the due actors, emit an attempt, complete it, end of life. Hard: it checks admission and
enqueues later, the completion comes back asynchronously, consumed stimuli move between three
places, and clocks gate everything. Correct when a stimulus is owed at most once and lost only
where the code says so, and when an actor marked in flight will be unmarked.

**Tick worker pool** (`handlers/pool.go`, `worker.go`, `subscriber.go`; in `Reactor`). State:
two bounded channels (player, village), the workers' places, the stop flag. Hard: stop against
enqueue, look-ahead and fairness of the lanes, drain. Correct when the enqueue's panic is
unreachable and the stop terminates.

**Turn harness and tools** (`handlers/harness.go`, `tick_tool_command.go`; `Turn`), **LLM and
memory clients** (`llm/`). State of a turn: round, budgets, the calls of the last answer, what
the history holds. Hard: a call the model made must be answered whatever became of it; a
command whose caller gave up still runs. Correct when the transcript pairs, a guarded act
happens once a turn, and the model is told what it did.

**Pay ledger** (`pay_ledger.go`, `pay_with_item_commands.go`, `pay_ledger_sweep.go`). State:
entries with terms, state, parent, depth and times. Operations: offer, auto-match, answer,
accept, decline, counter, withdraw, sweep. Hard: long protocols in which an entry may expire,
be reaped or be replaced between two steps, and funds and stock checked at one step are used
at another. Correct when one haggle ends in at most one sale and no one is overdrawn.
**Scene quotes** (`scene_quote*.go`; in `PayLedger`): post, take, expire, reconcile with stock.
Correct when a quote is covered and a quote and an offer for one purchase are not both taken.

**Order book** (`order*.go`, `repo/pg/orders.go`; `Orders`). State: ready orders, and their
rows. Operations: mint at an accept, deliver with the balance, expire with refund or forfeit,
the write-through of a delivery. **Checkpoint and restart** (`checkpoint.go`,
`repo/pg/save_world.go`, `load_world.go`; in `Orders`, `Labor`, `Engine`): a snapshot built on
the world goroutine is saved elsewhere, later. Hard: a save works from an old snapshot beside
newer writes; a crash keeps one and loses the other. Correct when each coin is in a purse, a
good, an order still owed or a forfeited deposit, in memory and in what a crash would restore;
the code falls short of that by the deliveries that are durable before their goods (section 4).

**Labor ledger** (`labor_*.go`; `Labor`). State: contracts; per worker its state and LaborID.
Operations: solicit, offer, accept, decline, the walk behind the owner, the start, the sweep's
settlement. Hard: that a worker is busy is recorded three times and saved in parts; rest,
owners who go, and lapsed clocks come in between. Correct when a worker has one live job, a
wage is paid once, and every accepted job ends.

**Huddles, scenes and turn taking** (`huddle*.go`, `colocated_huddle.go`, `turn_state.go`,
`scene*.go`; `Huddles`). State: member lists, the members' pointers, an index, scenes,
await-reply edges. Six ways in and eight ways out. Correct when the records agree, nobody waits
for one he does not talk with, and talks of sleepers end.

**Movement** (`commands_move.go`, `locomotion_ticker.go`, `pathfind.go`; `Walks`, and in `Labor`
and `Huddles` what an arrival does). State: positions, MoveIntents with two watchdog counters.
Hard: everyone is everyone's obstacle, and the destination is resolved anew each tick. Correct
when nobody is held up for good, visitors do not stack, and a door is crossed by right.

**Event hub** (`httpapi/hub.go`, `client.go`, `events_handler.go`; `Hub`). State: the client
set, refcounts per login, four kinds of channels. Hard: pumps, hub and handler meet only in
buffered channels. Correct when a send channel is closed at most once and only after its client
was taken out, and when a closed client loses its goroutines. **Player presence**
(`pc_presence.go`, `pc_idle_audience.go`, `pc_sleep.go`; `Presence`): who is there, judged from
stamps made from an earlier read of the hub. Correct when a connected player is never judged
absent and a character bedded for absence wakes with its player.

**Process start and stop** (`cmd/engine`), **daily push** (`simpush`), **action log** (its
writer); `Engine`. Hard: the order of the stop under timeouts, three askers of checkpoints, a
cursor moved after its posts. Correct when the checkpoint called final is final, nothing runs
on after the exit, a forced stop ends, and no day is skipped.

**Rest, needs and dwell** (a player's bed in `Presence`, rest as it meets contracts and talks in
`Labor` and `Huddles`; needs* are counters of one actor). **Source activities and production***:
clock-driven state of one actor; `Orders` sees units made. **Visitors** come and go in `Huddles`
and `Turn`; court, story, weather* not. **HTTP API**: the websocket handler in `Hub` and
`Presence`; the others send one command. **Gifts and direct payments***, **prices and rumours***,
**perception***, **room layout***, **repositories*** (but for the orders' SQL), **game client***,
**migrations***: see section 12.

## 2. Plan and order

Done, the most important first: `Reactor`, `Orders`, `PayLedger` (a lost thought, a lost coin
and a double sale are what the engine must not do); then `Labor`, `Huddles`, `Turn`, the chain
`Hub` → `Sockets` → `Presence` (the abstract specification lets the presence of players be
checked and proved without the hub's channels), `Engine`, `Walks`.

Left, in this order: an abstract stimulus (owed, claimed, answered) that `Reactor` implements; gifts and quotes of
several lines in `PayLedger`; quantities in `Orders`; source activities with what a
superseded walk undoes. Every safety property of every passing run is proved.

## 3. Reactor

*Correspondence.* `pending`, `attempt`, `inFlight`, `recent` are an actor's `Warrants`,
`TickAttemptID`, `inFlightSourceKeys` and `recentlyConsumedSourceKeys`. `Stamp` is
`tryStampWarrant`; `StartScan` with `Shelve`, `Pace`, `AwaitRoom`, `Admit` and `Emit` is one
`EvaluateReactors` command, cut where workers can see its effects; `Publish` is the snapshot
after it. `LookVillage`, `LookPlayer`, `Select`, `CheckStop` are the worker's loop;
`Preflight` to `EndTurn` are a turn with its outcome left to the LLM; `Complete` is
`CompleteReactorTick` with its whole warrant policy. `Stop` and `Restart` are the pool's and the
process's.

*Abstractions.* Clocks and dice are left to chance: where the code compares times, both answers
are possible. A warrant is its source, Force flag, lane and class; the cap drops any older one.
The scan's clearing of an actor whose own huddle is concluded (`reactor.go:1219-1223`) is left
out: no actor's pointer names a concluded huddle (RosterSound, section 7).

*Runs.*

| Run | Instance | Shows |
|---|---|---|
| `piles` | 1 actor, 1 worker, 5 warrants over 2 sources, cap 2 (135 580 states) | StimulusOwedOnce: a stimulus is never in two of pile, in flight and recently consumed; CompletionAccounts: a completion loses none except at the cap or when no model answered |
| `live` | 2 actors, 1 worker, channels of 1 (25 226) | JobsSound: well typed, every job is its actor's current attempt, an actor marked in flight has one; HandOverSafe: the enqueue's panic is unreachable, a worker past its look at the snapshot saw a published attempt; AttemptEnds, VillageServed while players keep coming, PoolDrains |

*Bounds.* One actor suffices for the piles, which are per actor; two warrants share a source so
that deduplication and merging happen, and the cap of 2 is reached. Two actors and channels of
one make every race of check, enqueue, stop and completion possible; the configuration
`MCReactor_pool` has two workers (72 148 states) and agrees, and the proofs hold for any number.
The attempt ids are recycled, so runs are unbounded in length.

*Fairness.* Weak for a worker's steps (a goroutine runs; an LLM call ends by its client timeout)
and for the scan once begun; strong for `Complete`, because senders on a Go channel are served
in turn although other commands keep coming. Nothing is assumed of stimuli or of the LLM's
answers. A completion whose context is cancelled after it was queued may land after its worker
left; that happens only after the stop, where nothing is kept, and is left out.

*Proofs* (`ReactorProofs`). `JobsAreSound` and `HandOverIsSafe` with their parts, and
`StimulusIsOwedOnce`. The four facts about jobs need each other: `PoolInv` is the type invariant,
that each job is current and there is one per actor (also of the job about to be enqueued), that
the lane which answered `CanAdmit` still has room (workers only take), that a marked actor has a
job, and that a worker past its look at the snapshot saw a published attempt. `OwedInv` adds that
a job's batch is what its actor has in flight, nothing is in flight without an attempt, and what
is carried is part of the batch. `CompletionsAccount` needs two facts more: a worker about to
complete has a status, and one that met a lagging snapshot carries its whole batch (`ResultInv`),
and piles and batches are finite (`PilesFinite`), so that a pile the cap cut is at the cap. It
says nothing of an attempt that ended without an answer: there the first finding below applies.

*By hand.* Two configurations end in a violation, by what the code does: `MCReactor_carry`, a
first model call that fails or is cancelled drops the consumed stimuli (`harness.go:694`), where
a comment says they are carried forward (`reactor_commands.go:415-417`); `MCReactor_force`, a
shelved actor's Force warrant is evicted at the cap (`reactor.go:1009`), where a comment says it
"MUST survive shelving" (`reactor_commands.go:704-705`).

## 4. Orders

*Correspondence.* `actors` holds coins, goods got, deposits lost, the seller's stock and till,
saved together as the aggregates of a checkpoint are; `orders` is `World.Orders`; `disk` the
database; `shot` the snapshot under way. `Commission`, `Book`, `TakeHome`, `Lodge`, `EatHere`
are the ways `commitPayTransfer` ends an accepted offer; `Deliver` and `DeliverLate` are
`DeliverOrder`; `Sweep` is `EvaluateOrderSweep`; `BuildSnapshot`, `Commit`, `SaveFails` a
checkpoint (`Upsert` and `ExpireAbsent` are its SQL); `Crash` and `Restart` what a new process
finds, including the expiry and the id floor of `FinalizeLoad`.

*Abstractions.* One seller, one price and deposit, quantity one, consumer is buyer. The seller's
own use of stock is left out. A save is one transaction. The sinks of orders, settlements and
the action log are installed, as `main.go:250-265` installs them; each write may fail. `handed`
(the orders whose goods are among the counters) is a history no action reads; `LogOffers` says
whether log rows of offers are followed, which only `MCOrders_reused` needs.

*Runs.*

| Run | Instance | Shows |
|---|---|---|
| `orders_sink` | 1 buyer, 2 ids, 1 unit, 1 crash (620 633) | LossesKnown: in memory and in what a crash would restore, all a buyer spent is in its goods, an order owed or a deposit lost, but for what it paid for deliveries that were durable before their goods, and before a crash memory misses nothing; NothingForFree; CoveredStays: a walk-in never gets a unit a ready order counts on; FreshIds; OrdersEnd |
| `orders_stranded` | 1 buyer, 1 id, 1 crash | a violation, and the finding below: DurablyWhole, the same without the exception |

*Finding.* `save_world.go:19-20`: "transient state may be lossy on crash, persistent state must
stay consistent". `finalizeOrderTerminal` writes a delivery through at once (`order.go:376`),
while the goods and the balance it moved wait for the next checkpoint. A crash in between leaves
the row `delivered`, which `LoadAll` skips, beside balances from before the delivery: the buyer
has paid and has neither goods nor order. The comment at `order.go:356-361` names exactly this
and spares expiries from it, and `order_commands.go:698-700` counts on goods, coins and record
being lost together. LossesKnown and its proof say that this is all that can be lost.

*Bounds.* The books interact through one shelf and one id counter, so two ids (one order covered,
one not; or before and after a crash) and one crash show each interleaving of a delivery, a
snapshot, its save and a restart. `Purse` allows two purchases. A second buyer adds no
interleaving: the properties are per buyer, and the safety half was also run with two (932 545
states).

*Fairness* (`orders_sink`). Time passes, the sweep re-arms itself, the checkpointer's ticker
fires, a failed save is retried and not all fail (strong fairness of `Commit`), a dead engine is
restarted. The code justifies the first three; the last two are what operating it means.

*Proofs* (`OrdersProofs`). `Balance` of a buyer is coins + price of goods got + deposits lost +
what its ready orders hold. Each running step keeps the balance in memory; a write-through takes
from the database's what its row held and raises nothing: `CapInv` (at most the purse) gives
NothingForFree. LossesKnown says where the difference is. `HandInv` says that memory, the rows
and the save in flight agree on which orders were handed over, up to a row undone by an overtaken
save and a row ahead of its goods; `LossInv` says that each of the three is whole once the
stranded orders are counted, the save in flight against the counters of memory, because a save
that lands makes them durable. CoveredStays follows from each sale's own test of `Short`, once
the books are known to be functions over ids (`BooksInv`). Types and FreshIds are proved beside
them.

*By hand.* `MCOrders_undone`: a save from an older snapshot makes a delivered row ready again
(`repo/pg/orders.go:129`, against line 43: "Terminal rows … stay in pg as history").
`MCOrders_reused`: after a crash an id still in the action log is given to another offer
(`world.go:2286`, against 2260).

## 5. PayLedger

*Correspondence.* An id's `terms`, `status`, `age`, `parent`, `depth` are a `PayLedgerEntry`;
`age` is the time since `CreatedAt` while pending and since `ResolvedAt` afterwards. `quotes` are
the active `SceneQuote`s of one seller by target and quantity, since a newer one of the same
terms supersedes. `AutoMatch`, `PayWithItem`, `InResponseTo` and `PayQuote` are the ways through
the command `PayWithItem`; `AcceptPay`, `DeclinePay`, `CounterPay`, `WithdrawPay`,
`SceneQuoteCreate`, `EvaluatePayLedgerSweep` and `QuoteSweep` are the commands of those names
(a counter at or under the offered coins is an accept, as in the code). Every change of stock
ends in `Reconciled`, which the world runs after each command. `haggle` and `settled` are history
variables: the offer a chain began with, and how an entry settled.

*What it implements.* `Haggles` is the promise in five variables: the haggles begun, the offer that
stands in each open one, those sold, coins and shelf. A haggle is begun by an offer, which its
buyer may replace; it ends, or is sold at the offer that stands; only a sale moves coins, and only
coins and goods that are there. Under the mapping a haggle stands at the newest entry of its chain
while that entry is pending or countered, so counters, time and ageing are stutters, an answer
replaces the offer, and the sweep, a decline, a withdrawal, a lot or a match ends haggles. A second
answer to one counter, or an answer after the chain was sold, would be no step of `Haggles`.

*Abstractions.* One seller and one good; the endings without a sale are one state, `closed`;
gates on presence, breaks and goods to barter are left to chance (so an accept may always fail);
gifts, bundles, reservations and commissions are left out; goods change hands at the settlement
(`Orders` models when they do not).

*Run.* `ledger`: a buyer with 2 coins, a seller with 1 unit, coin and barter offers, 3 ids,
retention below the answer window (340 792 states). LedgerSound: well typed, no overdraft, every
active quote covered after each command, chains bounded and sold at most once; LedgerKeepsPromise:
it implements `Haggles`; OneWayToBuy: one open offer per buyer, a match leaves no mirror of it, a lot replaces
the offers it answers; CountersKept: a counter is not reaped while it can be answered.

*Bounds.* Three ids hold a haggle of two rounds beside another offer or quote; `MaxDepth` 1 makes
the depth limit bite; ages up to 3 separate the offer's life (1), the retention as set (1) and
the window (2), so the clamp of the retention is exercised. A purse of two coins allows two sales
and not three. With two buyers the same configuration also holds (1 471 605 states, several
minutes); what two buyers add, the race for one purse or shelf, one buyer with two entries has
too, and the proofs hold for any number. No liveness is checked here.

*Proofs* (`PayLedgerProofs`). Every property of the run is proved for all buyers, terms, limits
and times. `EntrySteps` reduces the actions to nine kinds of step on the entries. One sale per
haggle is far from inductive: reaping removes the very answer that forbids answering a counter
again. `ChainInv` says that of a chain only the newest entry may be anything but reaped or
countered, and that an older counter still in the ledger is guarded by a present answer that
ended no earlier, so the sweep cannot take the answer and leave the counter; `RoundsInv` bounds
the chain's length along the same induction, and `HoldingsInv` carries purse and stock. With it
LedgerImplementsHaggles goes kind by kind of step: an entry that can settle or be answered is the
newest of its chain (PendingStands, AnswerableStands), so each open haggle stands at one entry,
and a step that mints nothing and sells nothing can only end haggles (OnlyEnds).

*By hand.* `MCPayLedger_mirror`: a quote taken by its id leaves the buyer's own offer on the same
terms open, which the comment on `withdrawCrossingOffers` warns of; only the auto-match withdraws
it. Read beside the model: two identical offers in one batch of calls pass "One offer per
(seller, item, disposition) per tick" when the pool is being stopped.

## 6. Labor

*Correspondence.* `ledger` is `World.LaborLedger`, `due` the entries whose present deadline is
past, `body` a worker's State, LaborID and open rest window, `home` the employers present at
their workplaces, `disk` the `labor_contract` rows with the actors saved beside them.
`SolicitWork`, `OfferWork`, `AcceptWork` (with `Hire`, `SendTo`, `StartLaborWork`),
`DeclineWork` are the commands; `Arrive`, `OwnerArrives`, `OwnerLeaves`, `Advance` the arrival
subscriber and the walk behind an owner; `GoToRest` and `EndRest` breaks and sleep;
`EvaluateLaborLedgerSweep` settles, fails and expires; `Checkpoint`, `Crash`, `Restart` with
`Usable`, `Kept`, `Floor`, `Resumed` are the save and `rehydrateLaborContractsOnLoad`.

*Abstractions.* What an employer can cover is asked anew at every command; how long a resolved
entry is retained is open; a break and a night's sleep are one rest; rewards in kind and the
length of a job are data. Nobody departs, so a saved contract has its worker and
employer (`labor_settle.go:434-439`).

*Run.* `labor`: one worker, two employers of whom one keeps an owner-only place, 2 ids, 1 crash
(330 396 states, nothing saved after the last crash). LaborSound: one live job per worker, and it is the one its LaborID names, in
memory, and saved; NotOwedTwice: a wage handed over is owed again neither in memory nor after a crash;
EntersBehindOwner: a hired hand enters an owner-only place behind its owner or once at work;
JobsEnd: every accepted job ends.

*Bounds.* The records meet per worker, so one worker; two ids let a second hire come between the
end and the settlement of the first, and before and after the one crash. A purse of one wage
lets the second settlement fail.

*Fairness.* Clocks lapse, the sweep re-arms itself, a crashed engine is restarted. Nobody owes
an offer, an answer, an arrival or a checkpoint.

*Proofs* (`LaborProofs`). `JobsAreSound`, `WagesArePaidOnce`, `OwnersGoFirst`, for any workers,
employers, ids and crashes, over `LaborInv`: the types; the ids in use lie behind the
counter (`FreshInv`, without which a new offer could inherit a paid id); jobs and
bodies agree and no paid wage is owed (`JobInv`); what is saved can be resumed: accepted
contracts, one to a worker, unpaid, and nobody at work without one (`DiskInv`); and while the
engine is down there is only what is saved (`DownInv`).

*By hand.* `MCLabor_dropped` (SavedAgree) ends in a violation: `executeTakeBreak` and
`executeNPCSleep` set the actor's state without looking at its job (`take_break.go:129`), so a
checkpoint may hold a working contract beside a resting worker, and the loader drops it, wage
and all; the comment there says they "are written in the SAME SaveWorld Tx, so they agree by
construction" (`labor_settle.go:330-332`).

## 7. Huddles

*Correspondence.* `talk` holds `World.Huddles`, the actors' CurrentHuddleID, `actorsByHuddle`,
`World.Scenes` with their bounds, and the await-reply edges; `place`, `walk`, `rest`, `here` are
the actors'. `Join`, `Leave`, `Conclude` are the functions all ways in and out share. In:
`SpeakTo`, `Trade`, `KnockAtDoor`, `Greeted` and `Encountered` at an arrival, a player's start
of a talk. Out: `Step` of a walker, `MoveActor`, `SetPosition` with `Drifted`, `Sleep` and
`TakeBreak` with `Evicted`, `Excuse`, `EndTick`, `Depart`, `SilenceSweep`, `LoopSweep`,
`Restart`.

*Abstractions.* Words are data: whether a line passes the gates on it is open. A structure is an
inside and its door; the rest of the village is one earshot. Private rooms, hired hands at the
counter, ghosts of players and what is remembered of a talk are left out.

*Run.* `huddles`: a keeper, a passing visitor, a player, one shop, two ids (166 464 states).
RosterSound: the three records of membership are one, and of actors that exist; TurnsSound: an
actor waits only for one it talks with, and no two for each other; TalksPlaced: one talk to a
roof, scenes name the live talks and no others, members stand where the talk is held;
RestersReleased: a talk whose members all rest ends or gets company.

*Bounds.* Three actors give a pair and one who comes, goes or is left alone; a talk is
begun by two, so three actors never need a third id (a model with three has the same states, and
one with too few stops at the choice of an id). *Fairness.* Only time (FallSilent) and the
silence sweep, which re-arms itself. The module has set operators where the code has loops over
a member list: `Quit` takes several leavers at once and `Conclude` several huddles; that they
agree with one at a time was checked on random states of five actors and two structures.

*Proofs* (`HuddlesProofs`). `OneRosterKept`, `NoDeadlockedTurns` and `TalksInPlace`, for any
actors, structures and ids. Together they are inductive, apart they are not: that a leaver is no
one's addressee any more follows from the member list, that a lone rester's talk is gone from
the scenes from the roster, that a new talk may take an area scene's key from the scenes.
`Sound(t, P, H)` is the conjunction as a predicate of the conversations, of where the actors
stand and of who is there; each operator is shown to keep it once (`QuitSound`, `ConcludeSound`,
`SeatedSound`, `FormedSound`, `JoinSound`, `SpokenSound`, `DriftedSound` …) and each action only
composes them. Two steps are not routine: a free id exists when two actors are in no huddle
(`FreshFree`, by the pigeonhole principle from `IdsAssumption`, which stands for random ids), and the keeper joins before the
arriver, so the second join of a pair finds a huddle (`BothJoin`). *Assumptions*: the null values
are none of the real ones, and structures, huddle ids and places are different things.

## 8. Turn

*Correspondence.* `turn` is the state of `Harness.RunTick` for one attempt, `cmds` its commands
in `World.cmds`, `batch` the newest tool_use batch of the agent's history at memory-api.
`Preflight…`, `Ask…`, `Reply…` are the head of a round; `CallInvalid`, `CallObservation`,
`CallRefused`, `CallDone`, `CallUnsent`, `CallCommit` the dispatch of one call; `Hear` and
`GiveUp` the two ends of a sent command, which `RunTickToolCommand` executes either way;
`EndBatch` the budgets; `PersistTickToolResults` and `Report` the end.

*Abstractions.* Text, validation and the tools' effects; a tool is its class and guard, and any
tool may find the world unchanged, also those that in the code never do.

*Run.* `turn`: budget of 2 actions and 1 observation round, 2 calls and 1 in excess, 2 stimuli
(360 916 states). TranscriptSound: a completion is asked only with every call answered, and a
batch is answered once within its turn; OnePerTurn: a guarded commit takes effect once a turn,
cancelled dispatches included; NothingUnsaid: the model is not asked again with an effect
untold; TurnsQuiet: without new stimuli the villager comes to rest.

*Bounds.* Two actions and a batch of two reach every guard, the cap on calls and the budget in
the same turn; two stimuli give a turn, its successor, and one for an unfinished intent.

*Fairness.* The evaluator, the worker and the world run; the snapshot is republished after every
command, so waiting for a fresh one succeeds if tried again and again (strong fairness of
`PreflightFresh`); a model call ends by its timeout.

*Proofs* (`TurnProofs`). All three safety properties, from `WalkInv` (where the turn stands
against its counts), `QueueInv` (until it is cancelled a worker waits for what it sends),
`OnceInv` (what is tried once is queued or took effect, never both, or was not tried) and
`DoneInv` (the effect of what is done once is remembered from its answer on).

*By hand.* `MCTurn_doubled` (DeliveredOnce): an empty reply after a delivered batch leaves
its results in the slice persisted at the turn's end, so they are written twice
(`harness.go:742-760`, `2674`; comment 2632-2634 has it that a delivered batch is not persisted).
`MCTurn_orphan` (NoOrphanToolUse): when the write at the turn's end fails, or the turn is
cancelled before it, the history keeps calls without results, which `harness.go:2629-2631` and
`llm/client.go:26-33` mean to exclude.

## 9. Hub, Sockets, Presence

*Correspondence.* `Hub`: `Upgrade`, `Enlist`, `TurnAway` are `handleEvents`; `PeerGone`,
`ReadFails`, `Unregister` and `WriteFrame`, `WriterEnds` the pumps; `Handle` an event;
`Admit`, `Dismiss`, `Broadcast`, `HubDown` the cases of `Run`; `connectedLogins` the refcounts.
`Sockets` is the world's view: the clients held and the logins listed, which change together
while the hub is up and stand still after it. `Presence` EXTENDS it: `ReadLogins` and `Heartbeat`
are the two halves of `RunPCPresenceHeartbeat`, `StampConnected` the handler's stamp, `Act`,
`Attend`, `SleepPC`, `WakePC` the player's commands, `WakeExpiredPCSleepers`,
`AutoBedIdleLodgerPCs`, `AutoBedOfflineLodgerPCs` one tick of sleep, `SweepPCIdleAudience` the
candle.

*Abstractions.* A frame is its target; time is counted in heartbeats, the long horizons as
passed or not. A request's context may end at any moment (`TurnAway`). The pass that wakes
sleepers has no case of its own for one found outside its bedroom (`pc_sleep.go:379`); the free
choice of `capped` wakes it too.

*Refinement.* `HubIsSockets`: with `held` the client set, `listed` the logins with a refcount
above zero and `up` the state of `Run`, every step of `Hub` is a step of `Sockets` or a stutter.
So what is checked and proved of `Presence` over `Sockets` holds over the real hub.

| Run | Instance | Shows |
|---|---|---|
| `hub` | two tabs of one login, another login, channels of 1 and 2 (37 716) | HubSound: an open channel for whom the hub sends to, no second close, true refcounts; HubIsSockets; ClosedClientsEnd: a client whose channel was closed or whose peer is gone loses both goroutines, though it be in the register buffer of a hub that has ended |
| `presence` | one player, two tabs, absent after 2 intervals (151 920) | PresenceSound: bedded for absence means still away; ConnectedNeverStale; CandleGoesOut |

*Bounds.* Two tabs make the refcount matter and let one be evicted while the other joins; the
second login separates targeted frames; one-place channels fill. A second player adds nothing:
players meet only in the hub.

*Assumption.* `MaxLate <= StaleAfter`: a heartbeat lands within the staleness window (in the
code every 15 s against 40 s). It is an assumption of the theorem on ConnectedNeverStale, and of the
model's clock; the world goroutine blocked for longer would break it.

*Fairness.* Hub: the pumps and the hub's cases, and strong for `Unregister`, a send that other
senders may delay but that Go's channel queue serves. Presence: only the candle's sweep.

*Proofs* (`ServerProofs`). `HubIsSound` over `RegisterInv` (a client is
in the register channel once, its channel not closed, and not yet in the set) and
`HubImplementsSockets` from it; `PresenceIsSound`, and `ConnectedIsNeverStale` over `AgeInv` (a
held and stamped login was seen within the age of the last heartbeat, and while a heartbeat is
under way it is in its batch or was seen after the reading).

*Not covered.* A client left in the register buffer of a hub that has ended is closed by nobody
(`events_handler.go:100`): while its peer stays it lives until the process ends, which follows.

*By hand.* `MCHub_ghost` (ListedAlive): after `Run` returned, `connectedLogins` still names its
last clients (`hub.go:214-232` against 142-143), so a heartbeat would stamp them present.
Read beside the models: "bounded at a single hour" of `pc_idle_audience.go` does not hold for a
client that reconnects by itself, as each connect is attendance.

## 10. Engine

*Correspondence.* `main` is where `run` stands; `Gate`, `Ask`, `Save`, `NotSaved`,
`HTTPShutdown`, `CheckpointerDone`, `PoolDone`, `CancelWorld`, `WorldDone`, `LastWaits` are its
stages with their timeouts; `SendTick`, `SendOther`, `Execute`, `Abandoned`, `LoopEnds` the
command queue; `Ck…` the periodic checkpointer; `WriteRow`, `WriterEnds` the log writer;
`Midnight`, `Dispatch`, `PostDay`, `StampDay`, `PushEnds` the push; `Crash` the end of the
process at any moment and the reload.

*Abstractions.* The world is two counts: mutations, and those of tick workers. A checkpoint is
one transaction.

*Run.* `engine`: one worker, queue of 1, log buffer of 1, 2 mutations, 2 days, one crash
(800 472 states, about three minutes). OrderlyStop: a final checkpoint is the one that stands
and holds all that the pool committed, and at the exit nothing runs and the log is drained;
PushNoGap: the days posted are all those after the first up to the cursor, and at most the next
one, so a crash before the stamp repeats that day alone and skips none; StopEnds: a forced stop ends
whatever fails or hangs.

*Bounds.* Two mutations suffice for one saved and one not, of the worker or another; two days
for one posted and one in progress; a queue of one is often full, so every asker waits for room.

*Fairness.* Every goroutine's own steps; each call to the database or by HTTP has a deadline, so
a wait ends. Nobody owes a signal, a command or a day.

*Proofs* (`ServerProofs`). `PushSkipsNoDay` (`PushInv`) and `StopIsOrderly`, over `StagesInv`
(who is gone at each stage of `run`), `SnapInv` (one snapshot command of each asker, and it is
waited for) and `LastInv` (no worker's command is behind the last snapshot, and none comes
after it).

*By hand.* `MCEngine_gate` (GateKeeps): the periodic checkpointer may be in flight across the
gate and commit its older snapshot after it, so the disk holds less than the gate wrote until
the final write; `stop.go:100-105` says that after a lost final write a good checkpoint,
"seconds old", is on disk, and `main.go` that the two never overlap.

## 11. Walks

*Correspondence.* `intent` is `Actor.MoveIntent` with its two watchdog counters; `PathTarget` is
`resolvePathTarget`, asked at the order and again every tick; `VisitorSlot`, `Arrived`,
`HeldAtRest` are the functions of the ring round a pin; `StartTick` and `AdvanceNext` are one
`EvaluateLocomotion` command, a mover at a time; `Advance`, `Detours`, `WalkThrough`, `Measured`
are `advanceActorLocomotion` and `advanceActorViaReroute`: straight on, round by one of a few
detours, through the sole approach of a door at once, through any other after the stuck window,
or through after a window without progress. `MoveActor`, `StopMove`, `SetActorPosition`,
`SetPolicy` are the commands between ticks.

*Abstractions.* One building, a grid that holds still; the path search is any cheapest path that
meets no tile twice (the code's queue picks one), and the building is not removed. Hard blocks, unreachable targets once begun,
object visits (the same as structure visits), the slow gait of fowl and herds, and the events are
left out; what arrivals do is in `Huddles` and `Labor`.

*Run.* `walks`: three actors on seven tiles: a door, its pin, a paved way south and a dearer way
round, windows of 2 and 3 ticks (5 and 8 in the code), three commands (458 324 states). WalksSound:
no two visitors come to rest on one tile; EntersByRight: nobody walks through the door against
the policy of that moment, however it stood when he set out and whomever he is pushed through;
VillageSettles: when commands cease, everyone comes to rest.

*Bounds.* Three commands jam a walker between two others, or move one away again; the place is
the smallest found in which the detour watchdog is needed (without it two walkers who prefer
the paved way oscillate for ever), and every branch of the two advance functions is taken. The
windows matter only by being finite and different.

*Fairness.* Only the ticker, which re-arms itself after every scan.

*Proofs* (`WalksProofs`). `VisitorsKeepApart` and `DoorIsKept`, for any crowd, grid and
thresholds. WalksSound is inductive: who comes to rest where he was sent has no resting neighbour
on his tile at that moment (`VisitorSlot` and `HeldAtRest` look at the same ring), and neither
moves on without ceasing to rest. A path is a way that meets no tile twice, so a path over the
door ends there when the door has one approach; then to step on it is to have it as goal, and
that was asked of the policy in the same tick. *Assumption* (PlaceAssumption): slots lie around
the pin, and the door tile has one walkable neighbour, because it lies within its building's
footprint at the end of the corridor `buildWalkGrid` cuts to it. With a second approach a path to
elsewhere could lead over the door.

*Read beside the model.* A position destination on a door tile is not asked for the door's
policy (EntersByRight excepts it). A visit ordered by one who stands on the door tile ends
there, inside, though `pickVisitorSlot` has a visitor stand outside.

## 12. What stays with the model checker, and what is not modelled

Liveness (AttemptEnds, VillageServed, PoolDrains, OrdersEnd, JobsEnd, RestersReleased,
TurnsQuiet, ClosedClientsEnd, CandleGoesOut, StopEnds, VillageSettles) is out of the proof
system's reach, as is anything about ENABLED or about values computed by recursion.
Every safety and action property of the passing runs is proved. The assumptions of the proofs are the
named ASSUMEs of the modules (types of the constants, distinct null values, positive bounds),
which TLC evaluates in every run, and those stated at their theorems (`MaxLate <= StaleAfter`) and lemmas. The hand configurations have no part in the table
of runs; each stops at its counterexample, except `MCReactor_pool`.

Not modelled, and why:

- *Perception, prompts, room layout, prices and rumours, needs, dwell, weather, story, court.*
  Pure functions of a snapshot, or counters and memory of one actor: no protocol between actors,
  and golden or table tests reach them well.
- *Source activities and production, camps.* Timed changes of one actor's inventory. One thing
  met while reading: `dismantleCamp` (`camp.go:508-535`) puts those inside the tent outdoors without
  the huddle drift check that other displacements end in.
- *Gifts, direct payments, bundles, group orders.* One command each, without later steps.
- *Visitors' plans, routes, summoning errands, herds.* Sequences of walks; the walk is modelled.
- *Repositories* other than the orders' and contracts' rows: upsert and delete by generation in
  the checkpoint's transaction, which `Orders` and `Engine` take as atomic.
- *HTTP handlers* other than the websocket's: a request is one command.
- *Game client, migrations, deployment*: rendering, schema, hosts.
