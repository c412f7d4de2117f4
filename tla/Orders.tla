------------------------------- MODULE Orders -------------------------------
(***************************************************************************)
(* Paid-for goods that are handed over later, and what a crash leaves of   *)
(* them.                                                                   *)
(*                                                                         *)
(* An accepted offer either hands its goods over at once or mints an order *)
(* that stays ready until the seller delivers it or it lapses and the      *)
(* buyer is refunded.  Coins, goods and orders live in memory; a           *)
(* checkpoint builds a deep copy of them on the world goroutine and saves  *)
(* it off that goroutine, in one transaction.  Two kinds of row reach the  *)
(* database beside the checkpoint, written straight through by the world:  *)
(* a deferred delivery and a meal eaten on the spot.                       *)
(*                                                                         *)
(* Abstractions.  One seller; every item costs Price, its deposit, if any, *)
(* is Deposit, its quantity is one and its consumer is its buyer.  An      *)
(* actor's coins, goods and memories are saved together, so the goods a    *)
(* buyer got and the deposits it lost are counters beside its coins;       *)
(* handed is a history, read by properties only: the orders whose goods    *)
(* are among them.  Age stands for the clock: an order is booked ahead,    *)
(* due, then lapsed.  The sinks of orders, settlements and the action log  *)
(* are installed, as cmd/engine installs them; a write may still fail.     *)
(* A save is atomic: the write-through blocks on the rows it locks, and    *)
(* finds no row when the save that inserts it has not committed.           *)
(***************************************************************************)
EXTENDS Integers, FiniteSets

CONSTANTS
    Buyers,      \* the actors that buy from the seller
    Price,       \* PayLedgerEntry.Amount
    Deposit,     \* PayLedgerEntry.Deposit of a part-paid commission
    Purse,       \* each buyer's coins at the start
    MaxId,       \* bound: ledger ids the seller's offers may take
    MaxStock,    \* bound: units the seller makes ahead
    MaxCrashes,  \* bound: crashes
    LogOffers,   \* bound: whether rows of offers are followed; no action reads them
    NoShot       \* no save is in flight

ASSUME PriceAssumption == /\ Price \in Nat /\ Deposit \in Nat /\ Purse \in Nat
                          /\ 0 < Deposit /\ Deposit < Price
ASSUME BuyersAssumption == IsFiniteSet(Buyers)
ASSUME BoundsAssumption == /\ MaxId \in Nat /\ MaxStock \in Nat /\ MaxCrashes \in Nat
                           /\ LogOffers \in BOOLEAN

Ids == 1 .. MaxId

VARIABLES
    actors,   \* World.Actors: coins, goods and memories of the buyers, the
              \* seller's stock and the coins it has from each buyer
    orders,   \* World.Orders
    open,     \* ids of the offers nobody settled yet
    seq,      \* payLedgerSeq
    age,      \* per id: before ReadyBy, after it, after ExpiresAt
    shot,     \* the CheckpointSnapshot being saved
    disk,     \* the database: actors, pay_ledger rows, ids in the action log's paid
              \* and offered rows
    up,       \* the engine runs
    crashes

vars == <<actors, orders, open, seq, age, shot, disk, up, crashes>>

Order == [buyer : Buyers,
          kind : {"goods", "room"},
          part : BOOLEAN,                               \* 0 < Deposit < Amount
          state : {"ready", "delivered", "expired"}]

\* A meal's row records a sale; no order ever was behind it.
Row == Order \cup [buyer : Buyers, kind : {"meal"}, part : {FALSE}, state : {"delivered"}]

\* A partial function on the ids.
IsBook(book, R) ==
    /\ DOMAIN book \subseteq Ids /\ book = [i \in DOMAIN book |-> book[i]]
    /\ \A i \in DOMAIN book : book[i] \in R

ActorState ==
    [coins : [Buyers -> Int], got : [Buyers -> Nat], lost : [Buyers -> Nat],
     stock : Nat, till : [Buyers -> Int], handed : SUBSET Ids]

Put(book, i, o) == [j \in DOMAIN book \cup {i} |-> IF j = i THEN o ELSE book[j]]
Without(book, I) == [j \in DOMAIN book \ I |-> book[j]]

----------------------------------------------------------------------------
(* What an order is worth *)

Paid(o) == IF o.part THEN Deposit ELSE Price
BalanceDue(o) == Price - Paid(o)

ReadyIn(book) == {i \in DOMAIN book : book[i].state = "ready"}

\* Coins of b held by the orders I.
Escrow(b, book, I) ==
      Deposit * Cardinality({i \in I : book[i].buyer = b /\ book[i].part})
    + Price * Cardinality({i \in I : book[i].buyer = b /\ ~book[i].part})

Outstanding == Cardinality({i \in ReadyIn(orders) : orders[i].kind = "goods"})

\* Mutant: what is promised to ready orders is offered to the next buyer again.
MutShortRaw == actors.stock < 1

Short == actors.stock - Outstanding < 1

----------------------------------------------------------------------------
(* Accepting an offer *)

\* A row of the action log is written by its own goroutine: a crash may lose it.
Logged(log, i) == {log, log \cup {i}}

Offer ==
    /\ up /\ seq < MaxId
    /\ seq' = seq + 1
    /\ open' = open \cup {seq + 1}
    /\ \E log \in IF LogOffers THEN Logged(disk.offered, seq + 1) ELSE {disk.offered} :
          disk' = [disk EXCEPT !.offered = log]
    /\ UNCHANGED <<actors, orders, age, shot, up, crashes>>

\* b pays the seller and gets units, taken of its stock, for the orders done.
Charged(acts, b, charge, units, taken, done) ==
    [coins |-> [acts.coins EXCEPT ![b] = @ - charge],
     till |-> [acts.till EXCEPT ![b] = @ + charge],
     got |-> [acts.got EXCEPT ![b] = @ + units],
     lost |-> acts.lost,
     stock |-> acts.stock - taken,
     handed |-> acts.handed \cup done]

Accept(i, b, charge) ==
    /\ up /\ i \in open /\ actors.coins[b] >= charge
    /\ open' = open \ {i}
    /\ UNCHANGED <<seq, shot, up, crashes>>

Mint(i, o, when) ==
    /\ orders' = Put(orders, i, o)
    /\ age' = [age EXCEPT ![i] = when]
    /\ \E log \in Logged(disk.paid, i) : disk' = [disk EXCEPT !.paid = log]

NewOrder(b, kind, part, state) == [buyer |-> b, kind |-> kind, part |-> part, state |-> state]

\* A good the seller makes and cannot cover: charged now, in part or in full,
\* and owed.
Commission(i, b, part) ==
    LET o == NewOrder(b, "goods", part, "ready")
    IN  /\ Short
        /\ Accept(i, b, Paid(o)) /\ Mint(i, o, "due")
        /\ actors' = Charged(actors, b, Paid(o), 0, 0, {})

\* A room for a later night.
Book(i, b) ==
    /\ Accept(i, b, Price) /\ Mint(i, NewOrder(b, "room", FALSE, "ready"), "ahead")
    /\ actors' = Charged(actors, b, Price, 0, 0, {})

\* Minted and handed over in the same command; no row exists yet, so the next
\* checkpoint is left to write it.
TakeHome(i, b) ==
    /\ ~Short
    /\ Accept(i, b, Price) /\ Mint(i, NewOrder(b, "goods", FALSE, "delivered"), "due")
    /\ actors' = Charged(actors, b, Price, 1, 1, {i})

Lodge(i, b) ==
    /\ Accept(i, b, Price) /\ Mint(i, NewOrder(b, "room", FALSE, "delivered"), "due")
    /\ actors' = Charged(actors, b, Price, 1, 0, {i})

\* The settlement sink writes a row of its own, when the write succeeds.
WriteOrderless(i, row) ==
    \E log \in Logged(disk.paid, i), rows \in {disk.rows, Put(disk.rows, i, row)} :
        disk' = [disk EXCEPT !.paid = log, !.rows = rows]

\* Eaten on the spot: no order.
EatHere(i, b) ==
    /\ ~Short
    /\ Accept(i, b, Price)
    /\ actors' = Charged(actors, b, Price, 1, 1, {})
    /\ WriteOrderless(i, [buyer |-> b, kind |-> "meal", part |-> FALSE, state |-> "delivered"])
    /\ UNCHANGED <<orders, age>>

Forge ==
    /\ up /\ actors.stock < MaxStock
    /\ actors' = [actors EXCEPT !.stock = @ + 1]
    /\ UNCHANGED <<orders, open, seq, age, shot, disk, up, crashes>>

----------------------------------------------------------------------------
(* Ends of an order *)

\* Mutant: a booked room never gets an ExpiresAt.
MutLapsedGoods ==
    {i \in ReadyIn(orders) : age[i] = "lapsed" /\ orders[i].kind = "goods"}

Lapsed == {i \in ReadyIn(orders) : age[i] = "lapsed"}

Closed(book, I, state) ==
    [i \in DOMAIN book |-> IF i \in I THEN [book[i] EXCEPT !.state = state] ELSE book[i]]

Refund(b, book, I) == Escrow(b, book, I)

\* A part-paid commission whose seller holds the goods forfeits its deposit;
\* every other order is refunded what was charged for it.
Expired(acts, book, I) ==
    LET kept == {i \in I : book[i].part /\ acts.stock >= 1}
        back == [b \in Buyers |-> Refund(b, book, I \ kept)]
    IN  [coins |-> [b \in Buyers |-> acts.coins[b] + back[b]],
         till |-> [b \in Buyers |-> acts.till[b] - back[b]],
         got |-> acts.got,
         lost |-> [b \in Buyers |->
                     acts.lost[b] + Cardinality({i \in kept : book[i].buyer = b})],
         stock |-> acts.stock,
     handed |-> acts.handed]

\* An expiry is never written through: the refund is in memory only.
Expire(I) ==
    /\ actors' = Expired(actors, orders, I)
    /\ orders' = Closed(orders, I, "expired")
    /\ UNCHANGED <<open, seq, age, shot, disk, up, crashes>>

Sweep == up /\ Lapsed # {} /\ Expire(Lapsed)

DeliverLate(i) == up /\ i \in Lapsed /\ Expire({i})

\* Mutant: an order is closed in memory only once its row is written.
MutCloseOnceWritten(i, written) ==
    /\ written => i \in DOMAIN disk.rows
    /\ IF written
       THEN /\ disk' = [disk EXCEPT !.rows = Closed(@, {i}, "delivered")]
            /\ orders' = Without(orders, {i})
       ELSE UNCHANGED <<disk, orders>>

\* The sink updates the row of a delivered order, which then leaves memory.
\* A failed write leaves the closed order there for the checkpoint.
WriteTerminal(i, written) ==
    /\ written => i \in DOMAIN disk.rows
    /\ IF written
       THEN /\ disk' = [disk EXCEPT !.rows = Closed(@, {i}, "delivered")]
            /\ orders' = Without(orders, {i})
       ELSE /\ orders' = Closed(orders, {i}, "delivered")
            /\ UNCHANGED disk

Deliver(i) ==
    /\ up /\ i \in ReadyIn(orders) /\ age[i] = "due"
    /\ LET o == orders[i]
       IN  /\ o.kind = "goods" => actors.stock >= 1
           /\ actors.coins[o.buyer] >= BalanceDue(o)
           /\ actors' = Charged(actors, o.buyer, BalanceDue(o), 1,
                                IF o.kind = "goods" THEN 1 ELSE 0, {i})
    /\ \E written \in BOOLEAN : WriteTerminal(i, written)
    /\ UNCHANGED <<open, seq, age, shot, up, crashes>>

\* Time passes, also while the engine is down.
Grow(i) ==
    /\ i \in ReadyIn(orders) \cup ReadyIn(disk.rows)
    /\ age[i] # "lapsed"
    /\ age' = [age EXCEPT ![i] = IF age[i] = "ahead" THEN "due" ELSE "lapsed"]
    /\ UNCHANGED <<actors, orders, open, seq, shot, disk, up, crashes>>

----------------------------------------------------------------------------
(* Checkpoint, crash, restart *)

BuildSnapshot ==
    /\ up /\ shot = NoShot
    /\ shot' = [actors |-> actors, orders |-> orders]
    /\ UNCHANGED <<actors, orders, open, seq, age, disk, up, crashes>>

\* Rows in flight that the snapshot does not hold.
ExpireAbsent(rows, known) == Closed(rows, ReadyIn(rows) \ known, "expired")

\* Mutant: terminal orders are left out of the save.
MutUpsertReady(rows, book) ==
    [i \in DOMAIN rows \cup ReadyIn(book) |-> IF i \in ReadyIn(book) THEN book[i] ELSE rows[i]]

Upsert(rows, book) ==
    [i \in DOMAIN rows \cup DOMAIN book |-> IF i \in DOMAIN book THEN book[i] ELSE rows[i]]

Commit ==
    /\ shot # NoShot
    /\ LET rows == ExpireAbsent(disk.rows, DOMAIN shot.orders)
       IN  disk' = [disk EXCEPT !.actors = shot.actors, !.rows = Upsert(rows, shot.orders)]
    /\ shot' = NoShot
    /\ UNCHANGED <<actors, orders, open, seq, age, up, crashes>>

SaveFails ==
    /\ shot # NoShot /\ shot' = NoShot
    /\ UNCHANGED <<actors, orders, open, seq, age, disk, up, crashes>>

\* The process dies: memory falls back to what the database holds.
Crash ==
    /\ up /\ crashes < MaxCrashes
    /\ crashes' = crashes + 1 /\ up' = FALSE
    /\ actors' = disk.actors
    /\ orders' = [i \in {} |-> {}] /\ open' = {} /\ seq' = 0 /\ shot' = NoShot
    /\ UNCHANGED <<age, disk>>

\* Mutant: the id counter starts from the saved rows alone.
MutFloorRows == DOMAIN disk.rows

FloorIds == DOMAIN disk.rows \cup disk.paid

\* LoadAll takes the ready rows, what lapsed during the downtime expires, and the
\* id counter starts above every id the database knows.
Restart ==
    /\ ~up /\ up' = TRUE
    /\ LET loaded == Without(disk.rows, DOMAIN disk.rows \ ReadyIn(disk.rows))
           late == {i \in DOMAIN loaded : age[i] = "lapsed"}
       IN  /\ orders' = Closed(loaded, late, "expired")
           /\ actors' = Expired(actors, loaded, late)
    /\ seq' \in {n \in FloorIds \cup {0} : \A i \in FloorIds : i <= n}
    /\ UNCHANGED <<open, age, shot, disk, crashes>>

----------------------------------------------------------------------------

Start == [coins |-> [b \in Buyers |-> Purse], got |-> [b \in Buyers |-> 0],
          lost |-> [b \in Buyers |-> 0], stock |-> 0, till |-> [b \in Buyers |-> 0], handed |-> {}]

Init ==
    /\ actors = Start /\ orders = [i \in {} |-> {}] /\ open = {} /\ seq = 0
    /\ age = [i \in Ids |-> "due"]
    /\ shot = NoShot
    /\ disk = [actors |-> Start, rows |-> [i \in {} |-> {}], paid |-> {}, offered |-> {}]
    /\ up = TRUE /\ crashes = 0

Sale == \E i \in open, b \in Buyers :
            \/ \E part \in BOOLEAN : Commission(i, b, part)
            \/ Book(i, b) \/ TakeHome(i, b) \/ Lodge(i, b) \/ EatHere(i, b)

Next ==
    \/ Offer \/ Sale \/ Forge
    \/ \E i \in Ids : Deliver(i) \/ DeliverLate(i) \/ Grow(i)
    \/ Sweep
    \/ BuildSnapshot \/ Commit \/ SaveFails
    \/ Crash \/ Restart

Spec == Init /\ [][Next]_vars

\* Time passes, the sweep re-arms itself, the checkpointer's ticker fires, a save
\* that fails is tried again and not every one fails, and a dead engine is
\* restarted.
FairSpec ==
    /\ Spec
    /\ \A i \in Ids : WF_vars(Grow(i))
    /\ WF_vars(Sweep)
    /\ WF_vars(BuildSnapshot) /\ SF_vars(Commit)
    /\ WF_vars(Restart)

----------------------------------------------------------------------------
(* Properties *)

\* Every variable keeps to its type; an order that is settled is not open.
OrdersTypeOK ==
    /\ actors \in ActorState
    /\ IsBook(orders, Order)
    /\ open \subseteq Ids \ DOMAIN orders
    /\ seq \in 0 .. MaxId
    /\ age \in [Ids -> {"ahead", "due", "lapsed"}]
    /\ shot # NoShot => /\ shot = [actors |-> shot.actors, orders |-> shot.orders]
                        /\ shot.actors \in ActorState /\ IsBook(shot.orders, Order)
    /\ disk = [actors |-> disk.actors, rows |-> disk.rows, paid |-> disk.paid,
               offered |-> disk.offered]
    /\ disk.actors \in ActorState /\ IsBook(disk.rows, Row) /\ disk.paid \cup disk.offered \subseteq Ids
    /\ up \in BOOLEAN /\ crashes \in 0 .. MaxCrashes

Worth(acts, book, b) ==
    acts.coins[b] + Price * acts.got[b] + Escrow(b, book, ReadyIn(book))

\* Orders whose rows say delivered while acts hold neither their goods nor the
\* balance paid for them.
Stranded(acts) ==
    {i \in DOMAIN disk.rows : /\ disk.rows[i].state = "delivered" /\ disk.rows[i].kind # "meal"
                              /\ i \notin acts.handed}

\* What a buyer spent is in its goods, in an order still owed to it, in a deposit
\* it lost or in the orders gone, and the seller has the coins.
Accounts(acts, book, gone) ==
    \A b \in Buyers :
        /\ Worth(acts, book, b) + Escrow(b, disk.rows, gone) = Purse - Deposit * acts.lost[b]
        /\ acts.till[b] = Purse - acts.coins[b]

\* A crash loses what was paid for the deliveries that were durable before their
\* goods, and not a coin more: in memory and in what a crash would leave, all else
\* a buyer spent is delivered, owed, refunded or forfeited, however accepts,
\* deliveries, expiries, saves and restarts fall, and nothing is lost before a crash.
LossesKnown ==
    /\ up => Accounts(actors, orders, Stranded(actors))
    /\ Accounts(disk.actors, disk.rows, Stranded(disk.actors))
    /\ crashes = 0 => Stranded(actors) = {}

\* What a crash would leave is consistent: "transient state may be lossy on crash,
\* persistent state must stay consistent" (repo/pg/save_world.go).
DurablyWhole == Accounts(disk.actors, disk.rows, {})

\* However writes, saves and crashes fall, no buyer ends up with more than it
\* had: nothing is delivered and refunded, and nothing is refunded twice.
NothingForFree ==
    \A b \in Buyers : /\ Worth(actors, orders, b) <= Purse
                      /\ Worth(disk.actors, disk.rows, b) <= Purse

\* Goods that cover every order ready for collection stay with those orders:
\* selling to the next buyer does not take them (sellerCoverableStock).
CoveredStays ==
    [][up /\ up' /\ Outstanding <= actors.stock /\ Outstanding' <= Outstanding
          => Outstanding' <= actors'.stock]_vars

\* A row that reached an end stays there: "terminal rows (delivered / expired)
\* stay in pg as history" (repo/pg/orders.go).
RowsFinal ==
    [][\A i \in DOMAIN disk.rows :
          disk.rows[i].state # "ready" => i \in DOMAIN disk'.rows /\ disk'.rows[i] = disk.rows[i]]_vars

\* A new offer never takes an id the database still refers to, whatever part of
\* the last life's rows and log a crash kept (FinalizeLoad's floor).
FreshIds == [][\A i \in open' \ open : i \notin DOMAIN disk.rows \cup disk.paid \cup DOMAIN orders]_vars

\* A new offer never takes the id of an offer the log already tells of: "the whole
\* haggle is reconstructable from agent_action_log alone" (cascade/action_log.go).
HagglesApart == [][\A i \in open' \ open : i \notin disk.offered]_vars

\* An order that was paid for comes to its end in the database, through failed
\* saves, crashes and restarts.
OrdersEnd == \A i \in Ids : i \in ReadyIn(disk.rows) ~> i \notin ReadyIn(disk.rows)
=============================================================================
