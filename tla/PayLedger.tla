------------------------------ MODULE PayLedger ------------------------------
(***************************************************************************)
(* Haggling with one seller over one good: offers, counters and answers to *)
(* them, and the quotes a seller posts.                                    *)
(*                                                                         *)
(* An offer is an entry of the pay ledger.  It stays pending until the     *)
(* seller accepts, declines or counters it, the buyer withdraws it, a lot  *)
(* replaces it or its time runs out.  A counter ends the entry; the buyer  *)
(* may answer it, once and within a window, with a new entry chained to    *)
(* it.  An offer that meets a standing quote settles at once instead.  The *)
(* sweep expires pending entries and reaps ended ones.                     *)
(*                                                                         *)
(* Every operation is a command of the world goroutine, so an action.      *)
(* Abstractions.  The ways an entry ends without a settlement (declined,   *)
(* withdrawn_by_buyer, expired, failed_*, superseded_by_lot) are one state,*)
(* "closed": nothing reads which one it was.  Whether the parties share a  *)
(* huddle, the seller is on break and the buyer can spare the goods it     *)
(* pays with is left to chance, so a gate on these may fail at any time.   *)
(* Goods are handed over when an entry settles (Orders has what happens    *)
(* when they are not).  An age counts units of time since an entry was     *)
(* made or ended, up to Horizon.  A quote offers one line; the terminal    *)
(* states of a quote are its absence.  Gifts are left out.                 *)
(***************************************************************************)
EXTENDS Integers, FiniteSets

CONSTANTS
    Buyers,
    Room,        \* the target of a quote posted to everyone in the scene
    Qtys,        \* quantities an offer or quote may ask
    Payments,    \* what a buyer may offer: coins, goods, or both
    Purse,       \* each buyer's coins at the start
    MaxStock,    \* bound: units the seller holds
    MaxId,       \* bound: ledger ids given out
    TTL,         \* PayLedgerTTL
    QuoteTTL,    \* SceneQuoteTTL
    Window,      \* PayLedgerInResponseToWindow
    Retention,   \* PayLedgerTerminalRetention as set, or its default
    Horizon,     \* bound: ages are told apart up to here
    MaxDepth,    \* MaxPayCounterChainDepth
    QuoteCap,    \* SceneQuoteMaxPerSellerScene
    NoTerms, NoQuote

Coins == {pay.coins : pay \in Payments}
Terms == [buyer : Buyers, qty : Qtys, coins : Coins, goods : BOOLEAN]

ASSUME PaymentsAssumption == Payments \subseteq [coins : Nat, goods : BOOLEAN]
ASSUME QtysAssumption == Qtys \subseteq Nat \ {0} /\ Room \notin Buyers
ASSUME TimesAssumption ==
    /\ TTL \in Nat \ {0} /\ QuoteTTL \in Nat \ {0} /\ Window \in Nat /\ Retention \in Nat \ {0}
    /\ Horizon \in Nat /\ \A t \in {TTL, QuoteTTL, Window, Retention} : Horizon > t
ASSUME BoundsAssumption ==
    Purse \in Nat /\ MaxStock \in Nat /\ MaxId \in Nat /\ MaxDepth \in Nat /\ QuoteCap \in Nat \ {0}
ASSUME NullsAssumption ==
    /\ NoTerms \notin Terms
    /\ NoQuote \notin [coins : Nat, age : Nat]

Ids == 1 .. MaxId
None == 0
Keys == [target : Buyers \cup {Room}, qty : Qtys]
Ages == 0 .. Horizon

VARIABLES
    seq,      \* payLedgerSeq
    terms,    \* buyer, Qty, Amount and whether there are PayItems, per entry
    status,   \* State; "absent" before an entry is made and once it is reaped
    age,      \* time since CreatedAt while pending, since ResolvedAt afterwards
    parent,   \* ParentID
    depth,    \* Depth
    money,    \* the buyers' coins
    stock,    \* the seller's units
    quotes,   \* active quotes; a newer one of the same terms replaces the older
    haggle,   \* history: the offer an entry's chain began with
    settled   \* history: how an entry settled, if it did

entryVars == <<seq, terms, status, age, parent, depth, haggle>>
vars == <<entryVars, money, stock, quotes, settled>>

Status == {"absent", "pending", "accepted", "countered", "closed"}
Ways == {"no", "accept", "match", "quote"}   \* by the seller; auto-match; quote_id

PendingIds == {i \in Ids : status[i] = "pending"}
Ended == {i \in Ids : status[i] \in {"accepted", "countered", "closed"}}

\* The ledger without the pending entries in I: finalizePayLedgerTerminal for each.
Closing(I) == [j \in Ids |-> IF j \in I THEN "closed" ELSE status[j]]
Aged(I) == [j \in Ids |-> IF j \in I THEN 0 ELSE age[j]]

Close(I) ==
    /\ status' = Closing(I)
    /\ age' = Aged(I)
    /\ UNCHANGED <<seq, terms, parent, depth, haggle, settled>>

\* A new entry, chained to p unless p is None, beside closing those in I.
Mint(t, p, state, I) ==
    LET i == seq + 1
    IN  /\ i \in Ids
        /\ seq' = i
        /\ terms' = [terms EXCEPT ![i] = t]
        /\ status' = [Closing(I) EXCEPT ![i] = state]
        /\ age' = [Aged(I) EXCEPT ![i] = 0]
        /\ parent' = [parent EXCEPT ![i] = p]
        /\ depth' = [depth EXCEPT ![i] = IF p = None THEN 0 ELSE depth[p] + 1]
        /\ haggle' = [haggle EXCEPT ![i] = IF p = None THEN i ELSE haggle[p]]

TermsOf(b, qty, pay) == [buyer |-> b, qty |-> qty, coins |-> pay.coins, goods |-> pay.goods]

----------------------------------------------------------------------------
(* Quotes *)

Active == {k \in Keys : quotes[k] # NoQuote}
Live(k) == k \in Active /\ quotes[k].age < QuoteTTL

\* Mutant: quotes stay whatever the seller has left.
MutReconciledNever(q, left) == q

\* After every command, quotes the seller's stock no longer covers are dropped.
Reconciled(q, left) == [k \in Keys |-> IF k.qty > left THEN NoQuote ELSE q[k]]

Without(K) == [k \in Keys |-> IF k \in K THEN NoQuote ELSE quotes[k]]

\* Pending offers a new lot replaces: those of its target or, when it is for the
\* room, of the only buyer with offers pending.
CoveredByLot(k) ==
    LET asking == {terms[i].buyer : i \in PendingIds}
    IN  {i \in PendingIds : /\ terms[i].qty <= k.qty
                            /\ IF k.target = Room THEN asking = {terms[i].buyer}
                                                  ELSE terms[i].buyer = k.target}

\* The quotes the cap displaces for a new one: the oldest.
Displaced(k, gone) ==
    LET others == Active \ {k}
    IN  /\ gone \subseteq others
        /\ Cardinality(others \ gone) < QuoteCap
        /\ gone # {} => Cardinality(others \ gone) = QuoteCap - 1
        /\ \A x \in gone, y \in others \ gone : quotes[x].age >= quotes[y].age

SceneQuoteCreate(k, coins) ==
    /\ stock >= k.qty
    /\ \E gone \in SUBSET Active :
          /\ Displaced(k, gone)
          /\ quotes' = [Without(gone) EXCEPT ![k] = [coins |-> coins, age |-> 0]]
    /\ Close(CoveredByLot(k))
    /\ UNCHANGED <<money, stock>>

QuoteSweep ==
    /\ \E k \in Active : ~Live(k)
    /\ quotes' = Without({k \in Active : ~Live(k)})
    /\ UNCHANGED <<entryVars, money, stock, settled>>

----------------------------------------------------------------------------
(* Settling *)

\* commitPayTransfer: coins one way, goods the other.
Transfer(t) ==
    /\ money' = [money EXCEPT ![t.buyer] = @ - t.coins]
    /\ stock' = stock - t.qty

Affordable(t) == stock >= t.qty /\ t.coins <= money[t.buyer]

Settle(i) ==
    /\ Affordable(terms[i])
    /\ Transfer(terms[i])
    /\ status' = [status EXCEPT ![i] = "accepted"]
    /\ age' = [age EXCEPT ![i] = 0]
    /\ settled' = [settled EXCEPT ![i] = "accept"]
    /\ quotes' = Reconciled(quotes, stock')
    /\ UNCHANGED <<seq, terms, parent, depth, haggle>>

\* The buyer takes the quote k for at least its price; the entry is born accepted.
TakeQuote(b, k, coins, way, I) ==
    LET t == TermsOf(b, k.qty, [coins |-> coins, goods |-> FALSE])
    IN  /\ Live(k)
        /\ k.target \in {b, Room}
        /\ coins >= quotes[k].coins
        /\ Affordable(t)
        /\ Mint(t, None, "accepted", I)
        /\ Transfer(t)
        /\ settled' = [settled EXCEPT ![seq + 1] = way]
        /\ quotes' = Reconciled(Without({k}), stock')

PayQuote(b, k, pay) == ~pay.goods /\ TakeQuote(b, k, pay.coins, "quote", {})

----------------------------------------------------------------------------
(* The buyer's side *)

Matching(b, qty, coins) ==
    {k \in Keys : Live(k) /\ k.target \in {b, Room} /\ k.qty = qty /\ coins >= quotes[k].coins}

Cheapest(K) == {k \in K : \A l \in K : quotes[k].coins <= quotes[l].coins}

\* Mutant: a match leaves the buyer's own mirror of it open.
MutMirrorsNone(b, qty) == {}

\* The buyer's open offers that mirror what a match just settled.
Mirrors(b, qty) ==
    {i \in PendingIds : parent[i] = None /\ terms[i].buyer = b /\ terms[i].qty = qty}

\* A bare coin offer that meets a quote takes the cheapest.
AutoMatch(b, qty, pay) ==
    /\ ~pay.goods
    /\ \E k \in Cheapest(Matching(b, qty, pay.coins)) :
          TakeQuote(b, k, pay.coins, "match", Mirrors(b, qty))

OpenOfferOf(b) == {i \in PendingIds : terms[i].buyer = b /\ age[i] < TTL}

\* A new offer, when no quote matches or the match fell through.
PayWithItem(b, qty, pay) ==
    /\ OpenOfferOf(b) = {}
    /\ pay.coins <= money[b]
    /\ Mint(TermsOf(b, qty, pay), None, "pending", {})
    /\ UNCHANGED <<money, stock, quotes, settled>>

\* Mutant: a counter may be answered again.
MutAnswerableAgain(p) == status[p] = "countered" /\ age[p] <= Window /\ depth[p] < MaxDepth

\* validateInResponseTo: the chain rules.
Answerable(p) ==
    /\ status[p] = "countered"
    /\ age[p] <= Window
    /\ depth[p] < MaxDepth
    /\ \A j \in Ids : status[j] # "absent" => parent[j] # p

\* The buyer answers the counter to its offer p; the terms may all be new.
InResponseTo(p, qty, pay) ==
    /\ Answerable(p)
    /\ pay.coins <= money[terms[p].buyer]
    /\ Mint(TermsOf(terms[p].buyer, qty, pay), p, "pending", {})
    /\ UNCHANGED <<money, stock, quotes, settled>>

WithdrawPay(i) == i \in PendingIds /\ Close({i}) /\ UNCHANGED <<money, stock, quotes>>

----------------------------------------------------------------------------
(* The seller's side *)

\* An accept settles, or ends the entry: it has expired, someone is missing, the
\* seller is on break, or the buyer cannot pay.  Too little stock is an end only
\* for a counter; accept_pay rejects the call and leaves the entry pending.
AcceptPendingOffer(i) ==
    \/ age[i] < TTL /\ Settle(i)
    \/ Close({i}) /\ UNCHANGED <<money, stock, quotes>>

AcceptPay(i) == i \in PendingIds /\ AcceptPendingOffer(i)

DeclinePay(i) == i \in PendingIds /\ Close({i}) /\ UNCHANGED <<money, stock, quotes>>

\* A counter at or under the coins offered is an accept; any other ends the entry
\* in the one state that can be answered.
CounterPay(i, pay) ==
    /\ i \in PendingIds
    /\ IF ~terms[i].goods /\ ~pay.goods /\ pay.coins <= terms[i].coins
       THEN AcceptPendingOffer(i)
       ELSE /\ status' = [status EXCEPT ![i] = "countered"]
            /\ age' = [age EXCEPT ![i] = 0]
            /\ UNCHANGED <<seq, terms, parent, depth, haggle, money, stock, quotes, settled>>

----------------------------------------------------------------------------
(* Time, the sweep and the seller's other business *)

\* Mutant: the retention setting is taken as it is.
MutRetentionRaw == Retention

EffectiveRetention == IF Retention < Window THEN Window ELSE Retention

Overdue == {i \in PendingIds : age[i] >= TTL}

Reapable == {i \in Ended : age[i] > EffectiveRetention}

EvaluatePayLedgerSweep ==
    /\ Overdue \cup Reapable # {}
    /\ status' = [i \in Ids |-> IF i \in Reapable THEN "absent" ELSE Closing(Overdue)[i]]
    /\ age' = Aged(Overdue \cup Reapable)
    /\ terms' = [i \in Ids |-> IF i \in Reapable THEN NoTerms ELSE terms[i]]
    /\ parent' = [i \in Ids |-> IF i \in Reapable THEN None ELSE parent[i]]
    /\ depth' = [i \in Ids |-> IF i \in Reapable THEN 0 ELSE depth[i]]
    /\ UNCHANGED <<seq, haggle, money, stock, quotes, settled>>

Older(a) == IF a < Horizon THEN a + 1 ELSE a

Tick ==
    /\ age' = [i \in Ids |-> IF status[i] = "absent" THEN age[i] ELSE Older(age[i])]
    /\ quotes' = [k \in Keys |->
                    IF k \in Active THEN [quotes[k] EXCEPT !.age = Older(@)] ELSE NoQuote]
    /\ UNCHANGED <<seq, terms, status, parent, depth, haggle, money, stock, settled>>

\* The seller makes, eats, or gives away units of the good.
Restock ==
    /\ stock' \in 0 .. MaxStock
    /\ quotes' = Reconciled(quotes, stock')
    /\ UNCHANGED <<entryVars, money, settled>>

----------------------------------------------------------------------------

Init ==
    /\ seq = 0
    /\ terms = [i \in Ids |-> NoTerms]
    /\ status = [i \in Ids |-> "absent"]
    /\ age = [i \in Ids |-> 0]
    /\ parent = [i \in Ids |-> None]
    /\ depth = [i \in Ids |-> 0]
    /\ haggle = [i \in Ids |-> None]
    /\ settled = [i \in Ids |-> "no"]
    /\ money = [b \in Buyers |-> Purse]
    /\ stock = MaxStock
    /\ quotes = [k \in Keys |-> NoQuote]

BuyerActs ==
    \E pay \in Payments, qty \in Qtys :
       \/ \E b \in Buyers : AutoMatch(b, qty, pay) \/ PayWithItem(b, qty, pay)
       \/ \E p \in Ids : InResponseTo(p, qty, pay)

Next ==
    \/ BuyerActs
    \/ \E b \in Buyers, k \in Keys, pay \in Payments : PayQuote(b, k, pay)
    \/ \E i \in Ids : WithdrawPay(i) \/ AcceptPay(i) \/ DeclinePay(i)
    \/ \E i \in Ids, pay \in Payments : CounterPay(i, pay)
    \/ \E k \in Keys, pay \in Payments : ~pay.goods /\ SceneQuoteCreate(k, pay.coins)
    \/ EvaluatePayLedgerSweep \/ QuoteSweep \/ Tick \/ Restock

Spec == Init /\ [][Next]_vars

----------------------------------------------------------------------------
(* Properties *)

\* Every variable keeps to its type; in particular no buyer is overdrawn and the
\* seller's stock is never less than nothing.
LedgerTypeOK ==
    /\ seq \in 0 .. MaxId
    /\ terms \in [Ids -> Terms \cup {NoTerms}]
    /\ status \in [Ids -> Status]
    /\ age \in [Ids -> Ages]
    /\ parent \in [Ids -> 0 .. MaxId]
    /\ depth \in [Ids -> 0 .. MaxDepth]
    /\ haggle \in [Ids -> 0 .. MaxId]
    /\ settled \in [Ids -> Ways]
    /\ money \in [Buyers -> Nat]
    /\ stock \in 0 .. MaxStock
    /\ quotes \in [Keys -> [coins : Nat, age : Ages] \cup {NoQuote}]

\* One haggle ends in at most one sale, however often it is countered, answered
\* and reaped on the way (validateInResponseTo, reapTerminalPayLedgerEntries).
OneSalePerHaggle ==
    \A i, j \in Ids :
       settled[i] # "no" /\ settled[j] # "no" /\ haggle[i] = haggle[j] => i = j

\* The chain of one haggle stays within its rounds (MaxPayCounterChainDepth).
HagglesBounded ==
    \A r \in Ids : Cardinality({i \in Ids : haggle[i] = r}) <= MaxDepth + 1

\* A haggle is bounded in its rounds and in its outcome.
HagglesSound == OneSalePerHaggle /\ HagglesBounded

\* A lot posted after a buyer's offer, for that buyer and covering it, leaves no
\* offer the seller could still accept beside it (setAsideOffersCoveredByLot).
LotReplacesOffer ==
    \A k \in Active, i \in PendingIds :
       ~(k.target = terms[i].buyer /\ terms[i].qty <= k.qty /\ quotes[k].age < age[i])

MirrorOf(i, j) ==
    /\ i \in PendingIds /\ parent[i] = None
    /\ status[j] = "accepted" /\ i < j
    /\ terms[i].buyer = terms[j].buyer /\ terms[i].qty = terms[j].qty

\* An offer that settled against a quote leaves no earlier offer of the buyer on
\* the same terms open: it would invite a second sale (withdrawCrossingOffers).
MatchLeavesNoMirror == \A i, j \in Ids : settled[j] = "match" => ~MirrorOf(i, j)

\* The same of a quote taken by its id.
TakeLeavesNoMirror == \A i, j \in Ids : settled[j] = "quote" => ~MirrorOf(i, j)

\* No buyer has an opening offer beside an earlier one, opening or answer, that is
\* still in time: the seller could accept both (the duplicate gate of PayWithItem).
OneOpenOffer ==
    \A i, j \in Ids :
       /\ {i, j} \subseteq PendingIds /\ i <= j /\ parent[j] = None
       /\ terms[i].buyer = terms[j].buyer /\ age[i] < TTL
       => i = j

\* A purchase is open in one place only: as one offer, not beside the lot that answers
\* it, not beside the quote that settled it.
OneWayToBuy == OneOpenOffer /\ LotReplacesOffer /\ MatchLeavesNoMirror

\* No active quote promises more than the seller has (reconcileQuoteCoverage).
QuotesCovered == \A k \in Active : k.qty <= stock

\* All of this over well-typed state.
LedgerSound == LedgerTypeOK /\ QuotesCovered /\ HagglesSound

\* A counter stays in the ledger as long as it may be answered, whatever the
\* retention setting (effectivePayLedgerTerminalRetention).
CountersKept ==
    [][\A i \in Ids : status[i] = "countered" /\ age[i] <= Window => status'[i] = "countered"]_vars

----------------------------------------------------------------------------
(* What the ledger implements *)

Newest(i) == \A j \in Ids : i < j => haggle[j] # haggle[i]

\* The entry a haggle stands at while the seller or the buyer may still go on with it.
Standing == {i \in Ids : status[i] \in {"pending", "countered"} /\ Newest(i)}

Sales == {i \in Ids : settled[i] # "no"}

Promise == INSTANCE Haggles WITH
    Haggling <- Ids,
    Offers <- Terms,
    Purses <- [b \in Buyers |-> Purse],
    Shelf <- MaxStock,
    begun <- {haggle[i] : i \in Ids} \ {None},
    open <- {<<haggle[i], terms[i]>> : i \in Standing},
    sold <- {haggle[i] : i \in Sales},
    coins <- money,
    shelf <- stock

\* However offers, counters, answers, lots, quotes, the sweep and the reaping of old
\* entries follow each other, a haggle is sold at most once, to the buyer who began
\* it, at the last terms that buyer offered, and no other step moves a buyer's coins.
LedgerKeepsPromise == Promise!HagglesSpec
=============================================================================
