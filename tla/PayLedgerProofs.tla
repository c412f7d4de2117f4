-------------------------- MODULE PayLedgerProofs --------------------------
(***************************************************************************)
(* Proofs about PayLedger, for any number of buyers, terms, ids and times. *)
(*                                                                         *)
(* Most actions treat the entries alike: they close some pending ones,     *)
(* mint one, settle one or counter one.  EntrySteps says so once, and the  *)
(* invariants about the haggles are proved over these few kinds of step.   *)
(*                                                                         *)
(* That a haggle ends in one sale needs an invariant about the whole chain *)
(* (ChainInv).  Only its newest entry may be anything but reaped or        *)
(* countered, and a counter still in the ledger is guarded by its answer,  *)
(* which ended no earlier and so cannot be reaped before it.  That a haggle*)
(* is bounded rests on it: only a chain's newest entry is answered, and its*)
(* depth counts the chain, reaped entries included (RoundsInv).            *)
(***************************************************************************)
EXTENDS PayLedger, FiniteSetTheorems, TLAPS

USE DEF None
USE PaymentsAssumption, QtysAssumption, TimesAssumption, BoundsAssumption, NullsAssumption

----------------------------------------------------------------------------
(* What a step does to the entries *)

\* An entry in the ledger has terms.
TermsInv == \A i \in Ids : status[i] # "absent" => terms[i] \in Terms

TypeInv == LedgerTypeOK /\ TermsInv

NoSale == UNCHANGED <<money, stock>>

Keep == UNCHANGED <<entryVars, settled, money>> /\ stock' \in 0 .. MaxStock

CloseSome == NoSale /\ \E I \in SUBSET PendingIds : Close(I)

Open ==
    \E t \in Terms :
       /\ OpenOfferOf(t.buyer) = {}
       /\ Mint(t, None, "pending", {})
       /\ settled' = settled /\ NoSale

Answer ==
    \E p \in Ids, t \in Terms :
       /\ Answerable(p) /\ t.buyer = terms[p].buyer
       /\ Mint(t, p, "pending", {})
       /\ settled' = settled /\ NoSale

Take ==
    \E t \in Terms, way \in {"match", "quote"}, I \in SUBSET PendingIds :
       /\ way = "match" => I = Mirrors(t.buyer, t.qty)
       /\ Affordable(t) /\ Transfer(t)
       /\ Mint(t, None, "accepted", I)
       /\ settled' = [settled EXCEPT ![seq + 1] = way]

SettleOne ==
    \E i \in PendingIds :
       /\ Affordable(terms[i]) /\ Transfer(terms[i])
       /\ status' = [status EXCEPT ![i] = "accepted"]
       /\ age' = [age EXCEPT ![i] = 0]
       /\ settled' = [settled EXCEPT ![i] = "accept"]
       /\ UNCHANGED <<seq, terms, parent, depth, haggle>>

CounterOne ==
    \E i \in PendingIds :
       /\ NoSale
       /\ status' = [status EXCEPT ![i] = "countered"]
       /\ age' = [age EXCEPT ![i] = 0]
       /\ UNCHANGED <<seq, terms, parent, depth, haggle, settled>>

EntryStep ==
    \/ Keep \/ CloseSome \/ Open \/ Answer \/ Take \/ SettleOne \/ CounterOne
    \/ EvaluatePayLedgerSweep \/ Tick

LEMMA CoinsType == Coins \subseteq Nat
BY DEF Coins

LEMMA TermsOfType ==
    ASSUME NEW b \in Buyers, NEW qty \in Qtys, NEW coins \in Coins, NEW goods \in BOOLEAN
    PROVE  TermsOf(b, qty, [coins |-> coins, goods |-> goods]) \in Terms
BY DEF TermsOf, Terms

LEMMA PendingSets ==
    /\ {} \in SUBSET PendingIds
    /\ \A i \in PendingIds : {i} \in SUBSET PendingIds
    /\ \A k : CoveredByLot(k) \in SUBSET PendingIds
    /\ \A b, qty : Mirrors(b, qty) \in SUBSET PendingIds
BY DEF PendingIds, CoveredByLot, Mirrors

\* A quote is taken by opening an entry that has settled already.
LEMMA TakeQuoteTakes ==
    ASSUME NEW b \in Buyers, NEW k \in Keys, NEW coins \in Coins,
           NEW way \in {"match", "quote"}, NEW I \in SUBSET PendingIds,
           way = "match" => I = Mirrors(b, k.qty),
           TakeQuote(b, k, coins, way, I)
    PROVE  Take
<1> DEFINE t == TermsOf(b, k.qty, [coins |-> coins, goods |-> FALSE])
<1>1. k.qty \in Qtys
  BY DEF Keys
<1>2. t \in Terms /\ t.buyer = b /\ t.qty = k.qty
  BY <1>1, TermsOfType DEF TermsOf
<1>3. /\ Mint(t, None, "accepted", I) /\ settled' = [settled EXCEPT ![seq + 1] = way]
      /\ Affordable(t) /\ Transfer(t)
  BY DEF TakeQuote
<1> HIDE DEF t
<1> QED BY <1>2, <1>3 DEF Take

\* An accept settles the entry or closes it.
LEMMA AcceptSteps ==
    ASSUME NEW i \in PendingIds, AcceptPendingOffer(i)
    PROVE  CloseSome \/ SettleOne
<1>1. CASE Close({i}) /\ NoSale
  BY <1>1, PendingSets DEF CloseSome
<1>2. CASE Settle(i)
  BY <1>2 DEF Settle, SettleOne
<1> QED BY <1>1, <1>2 DEF AcceptPendingOffer, NoSale

LEMMA BuyerSteps ==
    ASSUME TypeInv, BuyerActs
    PROVE  Open \/ Answer \/ Take
<1> PICK pay \in Payments, qty \in Qtys :
           \/ \E b \in Buyers : AutoMatch(b, qty, pay) \/ PayWithItem(b, qty, pay)
           \/ \E p \in Ids : InResponseTo(p, qty, pay)
  BY DEF BuyerActs
<1>0. pay.coins \in Coins /\ pay.goods \in BOOLEAN /\ pay = [coins |-> pay.coins, goods |-> pay.goods]
  BY DEF Coins
<1>1. ASSUME NEW b \in Buyers, AutoMatch(b, qty, pay) PROVE Take
  <2>1. PICK k \in Cheapest(Matching(b, qty, pay.coins)) :
               TakeQuote(b, k, pay.coins, "match", Mirrors(b, qty))
    BY <1>1 DEF AutoMatch
  <2>2. k \in Keys /\ k.qty = qty
    BY DEF Cheapest, Matching
  <2> QED BY <1>0, <2>1, <2>2, PendingSets, TakeQuoteTakes
<1>2. ASSUME NEW b \in Buyers, PayWithItem(b, qty, pay) PROVE Open
  <2>1. TermsOf(b, qty, pay) \in Terms /\ TermsOf(b, qty, pay).buyer = b
    BY <1>0, TermsOfType DEF TermsOf
  <2> QED BY <1>2, <2>1 DEF PayWithItem, Open, NoSale
<1>3. ASSUME NEW p \in Ids, InResponseTo(p, qty, pay) PROVE Answer
  <2>1. terms[p].buyer \in Buyers
    BY <1>3 DEF TypeInv, TermsInv, InResponseTo, Answerable, Terms
  <2>2. /\ TermsOf(terms[p].buyer, qty, pay) \in Terms
        /\ TermsOf(terms[p].buyer, qty, pay).buyer = terms[p].buyer
    BY <1>0, <2>1, TermsOfType DEF TermsOf
  <2> QED BY <1>3, <2>2 DEF InResponseTo, Answer, NoSale
<1> QED BY <1>1, <1>2, <1>3

\* Every step does one of these few things to the entries.
LEMMA EntrySteps == TypeInv /\ [Next]_vars => EntryStep
<1> SUFFICES ASSUME TypeInv, [Next]_vars PROVE EntryStep
  OBVIOUS
<1>1. CASE BuyerActs
  BY <1>1, BuyerSteps DEF EntryStep
<1>2. ASSUME NEW b \in Buyers, NEW k \in Keys, NEW pay \in Payments, PayQuote(b, k, pay)
      PROVE  EntryStep
  BY <1>2, PendingSets, TakeQuoteTakes DEF PayQuote, Coins, EntryStep
<1>3. ASSUME NEW i \in Ids, WithdrawPay(i) \/ AcceptPay(i) \/ DeclinePay(i)
      PROVE  EntryStep
  BY <1>3, PendingSets, AcceptSteps DEF WithdrawPay, AcceptPay, DeclinePay, CloseSome, NoSale, EntryStep
<1>4. ASSUME NEW i \in Ids, NEW pay \in Payments, CounterPay(i, pay)
      PROVE  EntryStep
  BY <1>4, AcceptSteps DEF CounterPay, CounterOne, NoSale, EntryStep
<1>5. ASSUME NEW k \in Keys, NEW coins, SceneQuoteCreate(k, coins)
      PROVE  EntryStep
  BY <1>5, PendingSets DEF SceneQuoteCreate, CloseSome, NoSale, EntryStep
<1>6. CASE EvaluatePayLedgerSweep \/ Tick
  BY <1>6 DEF EntryStep
<1>7. CASE QuoteSweep \/ Restock \/ UNCHANGED vars
  <2>1. stock \in 0 .. MaxStock
    BY DEF TypeInv, LedgerTypeOK
  <2> QED BY <1>7, <2>1 DEF QuoteSweep, Restock, vars, entryVars, Keep, EntryStep
<1> QED BY <1>1, <1>2, <1>3, <1>4, <1>5, <1>6, <1>7 DEF Next

----------------------------------------------------------------------------
(* Types *)

EntriesOK ==
    /\ seq \in 0 .. MaxId
    /\ terms \in [Ids -> Terms \cup {NoTerms}]
    /\ status \in [Ids -> Status]
    /\ age \in [Ids -> Ages]
    /\ parent \in [Ids -> 0 .. MaxId]
    /\ depth \in [Ids -> 0 .. MaxDepth]
    /\ haggle \in [Ids -> 0 .. MaxId]
    /\ settled \in [Ids -> Ways]
    /\ TermsInv

HoldingsOK ==
    /\ money \in [Buyers -> Nat]
    /\ stock \in 0 .. MaxStock
    /\ quotes \in [Keys -> [coins : Nat, age : Ages] \cup {NoQuote}]

LEMMA TypeParts == TypeInv <=> EntriesOK /\ HoldingsOK
BY DEF TypeInv, LedgerTypeOK, EntriesOK, HoldingsOK

LEMMA OlderType == ASSUME NEW a \in Ages PROVE Older(a) \in Ages /\ a <= Older(a)
BY DEF Ages, Older

LEMMA ClosingType ==
    ASSUME EntriesOK, NEW I
    PROVE  Closing(I) \in [Ids -> Status] /\ Aged(I) \in [Ids -> Ages]
BY DEF EntriesOK, Closing, Aged, Status, Ages

LEMMA MintType ==
    ASSUME EntriesOK, NEW t \in Terms, NEW p \in Ids \cup {None}, NEW state \in Status, NEW I,
           I \subseteq PendingIds, p # None => depth[p] < MaxDepth,
           Mint(t, p, state, I), settled' \in [Ids -> Ways]
    PROVE  EntriesOK'
<1>1. Closing(I) \in [Ids -> Status] /\ Aged(I) \in [Ids -> Ages] /\ 0 \in Ages
  BY ClosingType DEF Ages
<1>2. seq' \in 0 .. MaxId /\ seq + 1 \in Ids
  BY DEF Mint, Ids
<1>3. status' \in [Ids -> Status] /\ age' \in [Ids -> Ages]
  BY <1>1 DEF Mint
<1>4. terms' \in [Ids -> Terms \cup {NoTerms}] /\ parent' \in [Ids -> 0 .. MaxId]
  BY DEF Mint, EntriesOK, Ids
<1>5. depth' \in [Ids -> 0 .. MaxDepth]
  <2>1. (IF p = None THEN 0 ELSE depth[p] + 1) \in 0 .. MaxDepth
    BY DEF EntriesOK
  <2> QED BY <2>1 DEF Mint, EntriesOK
<1>6. haggle' \in [Ids -> 0 .. MaxId]
  <2>1. (IF p = None THEN seq + 1 ELSE haggle[p]) \in 0 .. MaxId
    BY <1>2 DEF EntriesOK, Ids
  <2> QED BY <2>1 DEF Mint, EntriesOK
<1>7. TermsInv'
  <2> SUFFICES ASSUME NEW i \in Ids, status'[i] # "absent" PROVE terms'[i] \in Terms
    BY DEF TermsInv
  <2>1. CASE i = seq + 1
    BY <2>1 DEF Mint, EntriesOK
  <2>2. CASE i # seq + 1
    <3>1. status'[i] = Closing(I)[i] /\ terms'[i] = terms[i]
      BY <1>1, <2>2 DEF Mint, EntriesOK
    <3>2. status[i] # "absent"
      BY <3>1 DEF Closing, PendingIds
    <3> QED BY <3>1, <3>2 DEF EntriesOK, TermsInv
  <2> QED BY <2>1, <2>2
<1> QED BY <1>2, <1>3, <1>4, <1>5, <1>6, <1>7 DEF EntriesOK

LEMMA EntriesStep == EntriesOK /\ EntryStep => EntriesOK'
<1> SUFFICES ASSUME EntriesOK, EntryStep PROVE EntriesOK'
  OBVIOUS
<1>0. 0 \in Ages /\ {"pending", "accepted", "countered", "closed", "absent"} \subseteq Status
  BY DEF Ages, Status
<1>1. CASE Keep
  BY <1>1 DEF Keep, entryVars, EntriesOK, TermsInv
<1>2. CASE CloseSome
  <2> PICK I \in SUBSET PendingIds : Close(I)
    BY <1>2 DEF CloseSome
  <2>1. status' \in [Ids -> Status] /\ age' \in [Ids -> Ages]
    BY ClosingType DEF Close
  <2>2. TermsInv'
    BY DEF TermsInv, EntriesOK, Close, Closing, PendingIds
  <2> QED BY <2>1, <2>2 DEF Close, EntriesOK
<1>3. CASE Open \/ Answer
  <2>1. settled' \in [Ids -> Ways]
    BY <1>3 DEF EntriesOK, Open, Answer
  <2>2. CASE Open
    BY <1>0, <2>1, <2>2, MintType DEF Open
  <2>3. CASE Answer
    <3> PICK p \in Ids, t \in Terms : Answerable(p) /\ Mint(t, p, "pending", {})
      BY <2>3 DEF Answer
    <3>1. depth[p] < MaxDepth
      BY DEF Answerable
    <3> QED BY <1>0, <2>1, <3>1, MintType
  <2> QED BY <1>3, <2>2, <2>3
<1>4. CASE Take
  <2> PICK t \in Terms, way \in {"match", "quote"}, I \in SUBSET PendingIds :
         Mint(t, None, "accepted", I) /\ settled' = [settled EXCEPT ![seq + 1] = way]
    BY <1>4 DEF Take
  <2>1. settled' \in [Ids -> Ways]
    BY DEF EntriesOK, Ways
  <2> QED BY <1>0, <2>1, MintType
<1>5. CASE SettleOne
  <2> PICK i \in PendingIds : /\ status' = [status EXCEPT ![i] = "accepted"]
                              /\ age' = [age EXCEPT ![i] = 0]
                              /\ settled' = [settled EXCEPT ![i] = "accept"]
                              /\ UNCHANGED <<seq, terms, parent, depth, haggle>>
    BY <1>5 DEF SettleOne
  <2>1. settled' \in [Ids -> Ways] /\ TermsInv'
    BY DEF EntriesOK, Ways, TermsInv, PendingIds
  <2> QED BY <1>0, <2>1 DEF EntriesOK
<1>6. CASE CounterOne
  <2> PICK i \in PendingIds : /\ status' = [status EXCEPT ![i] = "countered"]
                              /\ age' = [age EXCEPT ![i] = 0]
                              /\ UNCHANGED <<seq, terms, parent, depth, haggle, settled>>
    BY <1>6 DEF CounterOne
  <2>1. TermsInv'
    BY DEF EntriesOK, TermsInv, PendingIds
  <2> QED BY <1>0, <2>1 DEF EntriesOK
<1>7. CASE EvaluatePayLedgerSweep
  <2>1. status' \in [Ids -> Status] /\ age' \in [Ids -> Ages]
    BY <1>0, <1>7, ClosingType DEF EvaluatePayLedgerSweep
  <2>2. TermsInv'
    BY <1>7 DEF EvaluatePayLedgerSweep, TermsInv, EntriesOK, Closing, Overdue, PendingIds
  <2>3. terms' \in [Ids -> Terms \cup {NoTerms}]
    BY <1>7 DEF EvaluatePayLedgerSweep, EntriesOK
  <2>4. parent' \in [Ids -> 0 .. MaxId]
    BY <1>7 DEF EvaluatePayLedgerSweep, EntriesOK
  <2>5. depth' \in [Ids -> 0 .. MaxDepth]
    BY <1>7 DEF EvaluatePayLedgerSweep, EntriesOK
  <2>6. UNCHANGED <<seq, haggle, settled>>
    BY <1>7 DEF EvaluatePayLedgerSweep
  <2> QED BY <2>1, <2>2, <2>3, <2>4, <2>5, <2>6 DEF EntriesOK
<1>8. CASE Tick
  <2>1. age' \in [Ids -> Ages]
    BY <1>8, OlderType DEF Tick, EntriesOK
  <2> QED BY <1>8, <2>1 DEF Tick, EntriesOK, TermsInv
<1> QED BY <1>1, <1>2, <1>3, <1>4, <1>5, <1>6, <1>7, <1>8 DEF EntryStep

\* What is left of a set of quotes after a command is covered by the stock.
LEMMA ReconciledType ==
    ASSUME NEW q \in [Keys -> [coins : Nat, age : Ages] \cup {NoQuote}], NEW left
    PROVE  /\ Reconciled(q, left) \in [Keys -> [coins : Nat, age : Ages] \cup {NoQuote}]
           /\ \A k \in Keys : Reconciled(q, left)[k] # NoQuote => ~(k.qty > left)
BY DEF Reconciled

LEMMA WithoutType ==
    ASSUME HoldingsOK, NEW K
    PROVE  /\ Without(K) \in [Keys -> [coins : Nat, age : Ages] \cup {NoQuote}]
           /\ \A k \in Keys : Without(K)[k] # NoQuote => Without(K)[k] = quotes[k]
BY DEF Without, HoldingsOK

HoldingsInv == HoldingsOK /\ QuotesCovered

\* A sale leaves coins and goods where they can be, and the quotes covered.
LEMMA SaleHoldings ==
    ASSUME HoldingsInv, NEW t \in Terms, Affordable(t), Transfer(t),
           NEW q \in [Keys -> [coins : Nat, age : Ages] \cup {NoQuote}],
           quotes' = Reconciled(q, stock')
    PROVE  HoldingsInv'
<1>1. t.buyer \in Buyers /\ t.qty \in Nat /\ t.coins \in Nat
  BY CoinsType DEF Terms
<1>2. money' \in [Buyers -> Nat]
  BY <1>1 DEF HoldingsInv, HoldingsOK, Affordable, Transfer
<1>3. stock' \in 0 .. MaxStock
  BY <1>1 DEF HoldingsInv, HoldingsOK, Affordable, Transfer
<1>4. \A k \in Keys : k.qty \in Nat
  BY DEF Keys
<1> QED BY <1>2, <1>3, <1>4, ReconciledType DEF HoldingsInv, HoldingsOK, QuotesCovered, Active

LEMMA TakeHoldings ==
    ASSUME HoldingsInv, NEW b \in Buyers, NEW k \in Keys, NEW coins \in Coins, NEW way, NEW I,
           TakeQuote(b, k, coins, way, I)
    PROVE  HoldingsInv'
<1> DEFINE t == TermsOf(b, k.qty, [coins |-> coins, goods |-> FALSE])
<1>1. t \in Terms
  BY TermsOfType DEF Keys
<1>2. Affordable(t) /\ Transfer(t) /\ quotes' = Reconciled(Without({k}), stock')
  BY DEF TakeQuote
<1> HIDE DEF t
<1> QED BY <1>1, <1>2, WithoutType, SaleHoldings DEF HoldingsInv

LEMMA AcceptHoldings ==
    ASSUME TypeInv, HoldingsInv, NEW i \in PendingIds, AcceptPendingOffer(i)
    PROVE  HoldingsInv'
<1>1. CASE UNCHANGED <<money, stock, quotes>>
  BY <1>1 DEF HoldingsInv, HoldingsOK, QuotesCovered, Active
<1>2. CASE Settle(i)
  <2>1. terms[i] \in Terms
    BY DEF TypeInv, TermsInv, PendingIds
  <2>2. Affordable(terms[i]) /\ Transfer(terms[i]) /\ quotes' = Reconciled(quotes, stock')
    BY <1>2 DEF Settle
  <2> QED BY <2>1, <2>2, SaleHoldings DEF HoldingsInv, HoldingsOK
<1> QED BY <1>1, <1>2 DEF AcceptPendingOffer

LEMMA HoldingsStep == TypeInv /\ HoldingsInv /\ [Next]_vars => HoldingsInv'
<1> SUFFICES ASSUME TypeInv, HoldingsInv, [Next]_vars PROVE HoldingsInv'
  OBVIOUS
<1>0. ASSUME UNCHANGED <<money, stock, quotes>> PROVE HoldingsInv'
  BY <1>0 DEF HoldingsInv, HoldingsOK, QuotesCovered, Active
<1>1. CASE BuyerActs
  <2> PICK pay \in Payments, qty \in Qtys :
             \/ \E b \in Buyers : AutoMatch(b, qty, pay) \/ PayWithItem(b, qty, pay)
             \/ \E p \in Ids : InResponseTo(p, qty, pay)
    BY <1>1 DEF BuyerActs
  <2>1. ASSUME NEW b \in Buyers, AutoMatch(b, qty, pay) PROVE HoldingsInv'
    BY <2>1, TakeHoldings DEF Coins, AutoMatch, Cheapest, Matching
  <2>2. ASSUME NEW b \in Buyers, PayWithItem(b, qty, pay) PROVE HoldingsInv'
    BY <1>0, <2>2 DEF PayWithItem
  <2>3. ASSUME NEW p \in Ids, InResponseTo(p, qty, pay) PROVE HoldingsInv'
    BY <1>0, <2>3 DEF InResponseTo
  <2> QED BY <2>1, <2>2, <2>3
<1>2. ASSUME NEW b \in Buyers, NEW k \in Keys, NEW pay \in Payments, PayQuote(b, k, pay)
      PROVE  HoldingsInv'
  BY <1>2, TakeHoldings DEF Coins, PayQuote
<1>3. ASSUME NEW i \in Ids, WithdrawPay(i) \/ AcceptPay(i) \/ DeclinePay(i)
      PROVE  HoldingsInv'
  BY <1>0, <1>3, AcceptHoldings DEF WithdrawPay, AcceptPay, DeclinePay
<1>4. ASSUME NEW i \in Ids, NEW pay \in Payments, CounterPay(i, pay)
      PROVE  HoldingsInv'
  BY <1>0, <1>4, AcceptHoldings DEF CounterPay
<1>5. ASSUME NEW k \in Keys, NEW pay \in Payments, SceneQuoteCreate(k, pay.coins)
      PROVE  HoldingsInv'
  <2>1. pay.coins \in Nat /\ 0 \in Ages
    BY DEF Ages
  <2>2. PICK gone \in SUBSET Active :
           quotes' = [Without(gone) EXCEPT ![k] = [coins |-> pay.coins, age |-> 0]]
    BY <1>5 DEF SceneQuoteCreate
  <2>3. quotes' \in [Keys -> [coins : Nat, age : Ages] \cup {NoQuote}]
    BY <2>1, <2>2, WithoutType DEF HoldingsInv
  <2>4. stock >= k.qty /\ UNCHANGED <<money, stock>>
    BY <1>5 DEF SceneQuoteCreate
  <2>5. \A x \in Keys : quotes'[x] # NoQuote => x = k \/ quotes[x] # NoQuote
    BY <2>2, WithoutType DEF HoldingsInv
  <2>6. k.qty \in Nat
    BY DEF Keys
  <2> QED BY <2>3, <2>4, <2>5, <2>6 DEF HoldingsInv, HoldingsOK, QuotesCovered, Active
<1>6. CASE EvaluatePayLedgerSweep
  BY <1>0, <1>6 DEF EvaluatePayLedgerSweep
<1>7. CASE QuoteSweep
  <2>1. PICK K : quotes' = Without(K)
    BY <1>7 DEF QuoteSweep
  <2>2. UNCHANGED <<money, stock>>
    BY <1>7 DEF QuoteSweep
  <2> QED BY <2>1, <2>2, WithoutType DEF HoldingsInv, HoldingsOK, QuotesCovered, Active
<1>8. CASE Tick
  <2>1. UNCHANGED <<money, stock>>
    BY <1>8 DEF Tick
  <2>2. \A k \in Keys : quotes[k] # NoQuote => [quotes[k] EXCEPT !.age = Older(@)] \in [coins : Nat, age : Ages]
    BY OlderType DEF HoldingsInv, HoldingsOK
  <2>3. quotes' \in [Keys -> [coins : Nat, age : Ages] \cup {NoQuote}]
    BY <1>8, <2>2 DEF Tick, Active
  <2>4. \A k \in Keys : quotes'[k] # NoQuote => quotes[k] # NoQuote
    BY <1>8 DEF Tick, Active
  <2> QED BY <2>1, <2>3, <2>4 DEF HoldingsInv, HoldingsOK, QuotesCovered, Active
<1>9. CASE Restock
  <2>1. stock' \in 0 .. MaxStock /\ money' = money /\ quotes' = Reconciled(quotes, stock')
    BY <1>9 DEF Restock, entryVars
  <2>2. \A k \in Keys : k.qty \in Nat
    BY DEF Keys
  <2> QED BY <2>1, <2>2, ReconciledType DEF HoldingsInv, HoldingsOK, QuotesCovered, Active
<1>10. CASE UNCHANGED vars
  BY <1>0, <1>10 DEF vars
<1> QED BY <1>1, <1>2, <1>3, <1>4, <1>5, <1>6, <1>7, <1>8, <1>9, <1>10 DEF Next

LEMMA TypeInit == Init => TypeInv /\ HoldingsInv
<1> SUFFICES ASSUME Init PROVE TypeInv /\ HoldingsInv
  OBVIOUS
<1>1. EntriesOK
  BY DEF Init, EntriesOK, Status, Ages, Ways, TermsInv
<1>2. HoldingsOK /\ QuotesCovered
  BY DEF Init, HoldingsOK, QuotesCovered, Active
<1> QED BY <1>1, <1>2, TypeParts DEF HoldingsInv

LEMMA TypeStep == TypeInv /\ HoldingsInv /\ [Next]_vars => (TypeInv /\ HoldingsInv)'
<1> SUFFICES ASSUME TypeInv, HoldingsInv, [Next]_vars PROVE (TypeInv /\ HoldingsInv)'
  OBVIOUS
<1>1. EntriesOK'
  BY TypeParts, EntrySteps, EntriesStep
<1>2. HoldingsInv'
  BY HoldingsStep
<1>3. TypeInv'
  BY <1>1, <1>2 DEF HoldingsInv, HoldingsOK, EntriesOK, TypeInv, LedgerTypeOK
<1> QED BY <1>2, <1>3

\* Every variable keeps to its type: whatever offers and quotes compete for one
\* purse and one shelf, no buyer is overdrawn and no stock is sold twice.
THEOREM LedgerTypeCorrect == Spec => []LedgerTypeOK
<1>1. TypeInv => LedgerTypeOK
  BY DEF TypeInv
<1> QED BY <1>1, TypeInit, TypeStep, PTL DEF Spec

\* No active quote promises more than the seller has.
THEOREM QuotesAreCovered == Spec => []QuotesCovered
<1>1. HoldingsInv => QuotesCovered
  BY DEF HoldingsInv
<1> QED BY <1>1, TypeInit, TypeStep, PTL DEF Spec

----------------------------------------------------------------------------
(* Haggles *)

\* Ids are given out in order, and each entry belongs to a haggle from then on.
IdsInv ==
    \A i \in Ids :
       IF i <= seq THEN haggle[i] \in 1 .. seq
                   ELSE /\ haggle[i] = None /\ status[i] = "absent"
                        /\ settled[i] = "no" /\ parent[i] = None

\* An entry that can still settle has not settled.
SettledInv ==
    \A i \in Ids : status[i] \in {"pending", "countered"} => settled[i] = "no"

\* The counter i has an answer, and it cannot be reaped before the counter.
Guarded(i) ==
    \E c \in Ids : status[c] # "absent" /\ parent[c] = i /\ age[c] <= age[i]

ChainInv ==
    \A i, j \in Ids :
       i < j /\ haggle[i] = haggle[j] =>
          /\ settled[i] = "no"
          /\ status[i] \in {"absent", "countered"}
          /\ status[i] = "countered" => Guarded(i)

HaggleInv == IdsInv /\ SettledInv /\ ChainInv

\* What minting does, entry by entry: the new one gets the next id, the others stay
\* except that those in I are closed.
Minted(t, p, state, I) ==
    /\ seq \in Nat /\ seq' = seq + 1 /\ seq' \in Ids
    /\ terms'[seq'] = t /\ status'[seq'] = state
    /\ age'[seq'] = 0 /\ parent'[seq'] = p
    /\ haggle'[seq'] = IF p = None THEN seq' ELSE haggle[p]
    /\ \A j \in Ids : j # seq' =>
          /\ terms'[j] = terms[j] /\ parent'[j] = parent[j] /\ haggle'[j] = haggle[j]
          /\ status'[j] = IF j \in I THEN "closed" ELSE status[j]
          /\ age'[j] = IF j \in I THEN 0 ELSE age[j]

LEMMA MintFacts ==
    ASSUME TypeInv, NEW t, NEW p, NEW state, NEW I, Mint(t, p, state, I)
    PROVE  Minted(t, p, state, I)
<1>1. seq' = seq + 1 /\ seq + 1 \in Ids
  BY DEF Mint
<1>2. terms \in [Ids -> Terms \cup {NoTerms}] /\ parent \in [Ids -> 0 .. MaxId] /\ haggle \in [Ids -> 0 .. MaxId]
  BY DEF TypeInv, LedgerTypeOK
<1>3. Closing(I) = [j \in Ids |-> IF j \in I THEN "closed" ELSE status[j]]
      /\ Aged(I) = [j \in Ids |-> IF j \in I THEN 0 ELSE age[j]]
  BY DEF Closing, Aged
<1>4. /\ terms' = [terms EXCEPT ![seq + 1] = t]
      /\ parent' = [parent EXCEPT ![seq + 1] = p]
      /\ haggle' = [haggle EXCEPT ![seq + 1] = IF p = None THEN seq + 1 ELSE haggle[p]]
      /\ status' = [Closing(I) EXCEPT ![seq + 1] = state]
      /\ age' = [Aged(I) EXCEPT ![seq + 1] = 0]
  BY DEF Mint
<1>5. seq \in Nat
  BY DEF TypeInv, LedgerTypeOK
<1> QED BY <1>1, <1>2, <1>3, <1>4, <1>5 DEF Minted

\* An entry with an id still to come is not in the ledger.
LEMMA Numbered ==
    ASSUME TypeInv, IdsInv, NEW i \in Ids, status[i] # "absent"
    PROVE  i <= seq /\ i # seq + 1
<1>1. seq \in Nat
  BY DEF TypeInv, LedgerTypeOK
<1> QED BY <1>1 DEF IdsInv, Ids

LEMMA IdsMint ==
    ASSUME TypeInv, IdsInv, NEW t \in Terms, NEW p \in Ids \cup {None}, NEW state \in Status,
           NEW I \in SUBSET PendingIds, Mint(t, p, state, I),
           p # None => status[p] # "absent",
           \A j \in Ids : j # seq + 1 => settled'[j] = settled[j]
    PROVE  IdsInv'
<1>0. Minted(t, p, state, I)
  BY MintFacts
<1>1. seq \in Nat /\ seq' = seq + 1 /\ seq' \in Ids
  BY <1>0 DEF Minted
<1> SUFFICES ASSUME NEW i \in Ids
             PROVE  IF i <= seq' THEN haggle'[i] \in 1 .. seq'
                    ELSE /\ haggle'[i] = None /\ status'[i] = "absent"
                         /\ settled'[i] = "no" /\ parent'[i] = None
  BY DEF IdsInv
<1>2. CASE i = seq'
  <2>1. p # None => haggle[p] \in 1 .. seq
    BY Numbered DEF IdsInv
  <2>2. haggle'[i] = IF p = None THEN seq' ELSE haggle[p]
    BY <1>2, <1>0 DEF Minted
  <2> QED BY <1>1, <1>2, <2>1, <2>2
<1>3. CASE i <= seq
  <2>0. i # seq'
    BY <1>1, <1>3 DEF Ids
  <2>1. haggle'[i] = haggle[i]
    BY <1>0, <2>0 DEF Minted
  <2>2. haggle[i] \in 1 .. seq
    BY <1>3 DEF IdsInv
  <2> QED BY <1>1, <1>3, <2>1, <2>2 DEF Ids
<1>4. CASE i > seq'
  <2>1. /\ haggle[i] = None /\ status[i] = "absent"
        /\ settled[i] = "no" /\ parent[i] = None
    BY <1>1, <1>4 DEF IdsInv, Ids
  <2>2. i \notin I /\ i # seq'
    BY <1>1, <1>4, <2>1 DEF PendingIds, Ids
  <2>3. haggle'[i] = None /\ status'[i] = "absent" /\ parent'[i] = None
    BY <2>1, <2>2, <1>0 DEF Minted
  <2> QED BY <1>1, <1>4, <2>1, <2>2, <2>3 DEF Ids
<1> QED BY <1>1, <1>2, <1>3, <1>4 DEF Ids

\* A step that mints nothing keeps the chains if it lets no reaped or countered
\* entry out of that state and reaps no answer whose counter it leaves.
LEMMA ChainKept ==
    ASSUME ChainInv, haggle' = haggle,
           \A i \in Ids : settled[i] = "no" /\ status[i] \in {"absent", "countered"} =>
              /\ settled'[i] = "no" /\ status'[i] \in {"absent", "countered"}
              /\ status'[i] = "countered" => status[i] = "countered",
           \A i, c \in Ids :
              /\ status[i] = "countered" /\ status'[i] = "countered"
              /\ status[c] # "absent" /\ parent[c] = i /\ age[c] <= age[i]
              => status'[c] # "absent" /\ parent'[c] = i /\ age'[c] <= age'[i]
    PROVE  ChainInv'
<1> SUFFICES ASSUME NEW i \in Ids, NEW j \in Ids, i < j, haggle[i] = haggle[j]
             PROVE  /\ settled'[i] = "no" /\ status'[i] \in {"absent", "countered"}
                    /\ status'[i] = "countered" => Guarded(i)'
  BY DEF ChainInv
<1>1. /\ settled[i] = "no" /\ status[i] \in {"absent", "countered"}
      /\ status[i] = "countered" => Guarded(i)
  BY DEF ChainInv
<1>2. ASSUME status'[i] = "countered" PROVE Guarded(i)'
  <2>1. status[i] = "countered"
    BY <1>1, <1>2
  <2>2. PICK c \in Ids : status[c] # "absent" /\ parent[c] = i /\ age[c] <= age[i]
    BY <1>1, <2>1 DEF Guarded
  <2>3. status'[c] # "absent" /\ parent'[c] = i /\ age'[c] <= age'[i]
    BY <1>2, <2>1, <2>2
  <2> QED BY <2>3 DEF Guarded
<1> QED BY <1>1, <1>2

\* Guards stand while an entry is minted.
LEMMA GuardMint ==
    ASSUME TypeInv, IdsInv, NEW t \in Terms, NEW p \in Ids \cup {None}, NEW state \in Status,
           NEW I \in SUBSET PendingIds, Mint(t, p, state, I),
           NEW i \in Ids, status[i] = "countered", Guarded(i)
    PROVE  Guarded(i)'
<1>0. Minted(t, p, state, I)
  BY MintFacts
<1>1. PICK c \in Ids : status[c] # "absent" /\ parent[c] = i /\ age[c] <= age[i]
  BY DEF Guarded
<1>2. c # seq' /\ i # seq'
  BY <1>1, Numbered, <1>0 DEF Minted
<1>3. i \notin I
  BY DEF PendingIds
<1>4. age'[i] = age[i] /\ age[i] \in Nat
  <2>1. age'[i] = age[i]
    BY <1>2, <1>3, <1>0 DEF Minted
  <2>2. age[i] \in Ages
    BY DEF TypeInv, LedgerTypeOK
  <2> QED BY <2>1, <2>2 DEF Ages
<1>5. status'[c] # "absent" /\ parent'[c] = i /\ (age'[c] = age[c] \/ age'[c] = 0)
  BY <1>1, <1>2, <1>0 DEF Minted
<1> QED BY <1>1, <1>4, <1>5 DEF Guarded

\* The older members of a chain keep their place in it while an entry is minted.
LEMMA ElderMint ==
    ASSUME TypeInv, IdsInv, ChainInv, NEW t \in Terms, NEW p \in Ids \cup {None},
           NEW state \in Status, NEW I \in SUBSET PendingIds, Mint(t, p, state, I),
           \A j \in Ids : j # seq + 1 => settled'[j] = settled[j],
           NEW i \in Ids, NEW j \in Ids, i < j, haggle[i] = haggle[j], i # seq'
    PROVE  /\ settled'[i] = "no" /\ status'[i] \in {"absent", "countered"}
           /\ status'[i] = "countered" => Guarded(i)'
<1>0. Minted(t, p, state, I)
  BY MintFacts
<1>1. /\ settled[i] = "no" /\ status[i] \in {"absent", "countered"}
      /\ status[i] = "countered" => Guarded(i)
  BY DEF ChainInv
<1>2. i \notin I /\ seq' = seq + 1
  BY <1>1, <1>0 DEF Minted, PendingIds
<1>3. status'[i] = status[i] /\ settled'[i] = settled[i]
  BY <1>2, <1>0 DEF Minted
<1> QED BY <1>1, <1>3, GuardMint

LEMMA ChainOpen ==
    ASSUME TypeInv, HaggleInv, NEW t \in Terms, NEW state \in Status,
           NEW I \in SUBSET PendingIds, Mint(t, None, state, I),
           \A j \in Ids : j # seq + 1 => settled'[j] = settled[j]
    PROVE  ChainInv'
<1>0. Minted(t, None, state, I)
  BY MintFacts
<1> SUFFICES ASSUME NEW i \in Ids, NEW j \in Ids, i < j, haggle'[i] = haggle'[j]
             PROVE  /\ settled'[i] = "no" /\ status'[i] \in {"absent", "countered"}
                    /\ status'[i] = "countered" => Guarded(i)'
  BY DEF ChainInv
<1>1. seq \in Nat /\ seq' = seq + 1 /\ haggle'[seq'] = seq' /\ None \in Ids \cup {None}
  BY <1>0 DEF Minted
<1>2. \A k \in Ids : k # seq' => haggle'[k] = haggle[k] /\ haggle[k] # seq'
  BY <1>1, <1>0 DEF Minted, HaggleInv, IdsInv
<1>3. i # seq' /\ j # seq'
  BY <1>1, <1>2 DEF Ids
<1>4. haggle[i] = haggle[j]
  BY <1>2, <1>3
<1> QED BY <1>1, <1>3, <1>4, ElderMint DEF HaggleInv

\* The counter p may be answered only as the last of its chain.
LEMMA ChainAnswer ==
    ASSUME TypeInv, HaggleInv, NEW p \in Ids, NEW t \in Terms, Answerable(p),
           Mint(t, p, "pending", {}), settled' = settled
    PROVE  ChainInv'
<1>0. Minted(t, p, "pending", {})
  BY MintFacts
<1> SUFFICES ASSUME NEW i \in Ids, NEW j \in Ids, i < j, haggle'[i] = haggle'[j]
             PROVE  /\ settled'[i] = "no" /\ status'[i] \in {"absent", "countered"}
                    /\ status'[i] = "countered" => Guarded(i)'
  BY DEF ChainInv
<1>1. {} \in SUBSET PendingIds /\ p \in Ids \cup {None} /\ "pending" \in Status /\ p # None
  BY DEF Status, Ids
<1>2. status[p] = "countered" /\ settled[p] = "no" /\ p # seq' /\ seq \in Nat /\ seq' = seq + 1
  BY <1>1, Numbered, <1>0 DEF Minted, Answerable, HaggleInv, SettledInv, TypeInv, LedgerTypeOK
<1>3. haggle'[seq'] = haggle[p] /\ seq' \in Ids
  BY <1>1, <1>0 DEF Minted
<1>4. \A k \in Ids : k # seq' => haggle'[k] = haggle[k]
  BY <1>1, <1>0 DEF Minted
<1>5. \A k \in Ids : p < k => haggle[p] # haggle[k]
  BY <1>2 DEF HaggleInv, ChainInv, Guarded, Answerable
<1>6. haggle[p] # None
  BY <1>2, Numbered DEF HaggleInv, IdsInv
<1>7. CASE i = seq'
  <2>1. haggle[j] = None /\ j # seq'
    BY <1>2, <1>7 DEF HaggleInv, IdsInv, Ids
  <2> QED BY <1>3, <1>4, <1>6, <1>7, <2>1
<1>8. CASE i # seq' /\ j # seq'
  BY <1>1, <1>4, <1>8, ElderMint DEF HaggleInv
<1>9. CASE i # seq' /\ j = seq' /\ i # p
  <2>1. haggle[i] = haggle[p]
    BY <1>3, <1>4, <1>9
  <2>2. i < p
    BY <1>5, <1>9, <2>1 DEF Ids
  <2> QED BY <1>1, <1>9, <2>1, <2>2, ElderMint DEF HaggleInv
<1>10. CASE i = p /\ j = seq'
  <2>1. status'[seq'] = "pending" /\ parent'[seq'] = p /\ age'[seq'] = 0
    BY <1>1, <1>0 DEF Minted
  <2>2. age'[p] = age[p] /\ age[p] \in Nat /\ status'[p] = "countered"
    BY <1>1, <1>2, <1>0 DEF Minted, TypeInv, LedgerTypeOK, Ages
  <2>3. Guarded(p)'
    BY <1>3, <2>1, <2>2 DEF Guarded
  <2> QED BY <1>2, <1>10, <2>2, <2>3
<1> QED BY <1>7, <1>8, <1>9, <1>10

LEMMA RetentionCovers == EffectiveRetention \in Nat /\ Window <= EffectiveRetention
BY DEF EffectiveRetention

\* The sweep closes overdue entries, reaps ended ones and leaves the others.
Swept(i) ==
    IF i \in Reapable
    THEN status'[i] = "absent" /\ parent'[i] = None /\ age'[i] = 0
    ELSE /\ parent'[i] = parent[i]
         /\ status'[i] = IF i \in Overdue THEN "closed" ELSE status[i]
         /\ age'[i] = IF i \in Overdue THEN 0 ELSE age[i]

LEMMA SweepFacts ==
    ASSUME EvaluatePayLedgerSweep, NEW i \in Ids
    PROVE  Swept(i)
BY DEF EvaluatePayLedgerSweep, Swept, Closing, Aged

LEMMA HaggleSweep == TypeInv /\ HaggleInv /\ EvaluatePayLedgerSweep => HaggleInv'
<1> SUFFICES ASSUME TypeInv, HaggleInv, EvaluatePayLedgerSweep PROVE HaggleInv'
  OBVIOUS
<1>1. UNCHANGED <<seq, haggle, settled>> /\ \A i \in Ids : Swept(i)
  BY SweepFacts DEF EvaluatePayLedgerSweep
<1>2. \A i \in Ids : status[i] \in Status /\ age[i] \in Nat
  BY DEF TypeInv, LedgerTypeOK, Ages
<1>3. \A i \in Overdue : status[i] = "pending"
  BY DEF Overdue, PendingIds
<1>4. IdsInv'
  BY <1>1, <1>3 DEF HaggleInv, IdsInv, Swept, Reapable, Ended
<1>5. SettledInv'
  BY <1>1, <1>3 DEF HaggleInv, SettledInv, Swept
<1>6. \A i \in Ids : settled[i] = "no" /\ status[i] \in {"absent", "countered"} =>
         /\ settled'[i] = "no" /\ status'[i] \in {"absent", "countered"}
         /\ status'[i] = "countered" => status[i] = "countered"
  BY <1>1, <1>3 DEF Swept
<1>7. ASSUME NEW i \in Ids, NEW c \in Ids, status[i] = "countered", status'[i] = "countered",
             status[c] # "absent", parent[c] = i, age[c] <= age[i]
      PROVE  status'[c] # "absent" /\ parent'[c] = i /\ age'[c] <= age'[i]
  <2>1. i \notin Reapable /\ i \notin Overdue
    BY <1>1, <1>3, <1>7 DEF Swept
  <2>2. ~(age[i] > EffectiveRetention)
    BY <1>7, <2>1 DEF Reapable, Ended
  <2>3. c \notin Reapable
    BY <1>2, <1>7, <2>2, RetentionCovers DEF Reapable
  <2> QED BY <1>1, <1>2, <1>7, <2>1, <2>3 DEF Swept
<1>8. ChainInv'
  BY <1>1, <1>6, <1>7, ChainKept DEF HaggleInv
<1> QED BY <1>4, <1>5, <1>8 DEF HaggleInv

LEMMA OlderKeepsOrder ==
    ASSUME NEW a \in Ages, NEW b \in Ages
    PROVE  /\ a <= b => Older(a) <= Older(b)
           /\ Older(a) < Older(b) => a < b
BY DEF Ages, Older

LEMMA HaggleTick == TypeInv /\ HaggleInv /\ Tick => HaggleInv'
<1> SUFFICES ASSUME TypeInv, HaggleInv, Tick PROVE HaggleInv'
  OBVIOUS
<1>1. UNCHANGED <<seq, status, parent, haggle, settled>>
  BY DEF Tick
<1>2. \A i \in Ids : age[i] \in Ages /\ age'[i] = IF status[i] = "absent" THEN age[i] ELSE Older(age[i])
  BY DEF Tick, TypeInv, LedgerTypeOK
<1>3. IdsInv' /\ SettledInv'
  BY <1>1 DEF HaggleInv, IdsInv, SettledInv
<1>4. ASSUME NEW i \in Ids, NEW c \in Ids, status[i] = "countered",
             status[c] # "absent", age[c] <= age[i]
      PROVE  age'[c] <= age'[i]
  BY <1>2, <1>4, OlderKeepsOrder
<1>5. ChainInv'
  BY <1>1, <1>4, ChainKept DEF HaggleInv
<1> QED BY <1>3, <1>5 DEF HaggleInv

\* Closing, settling or countering pending entries leaves every chain as it was.
LEMMA HagglePending ==
    ASSUME TypeInv, HaggleInv, NEW I \in SUBSET PendingIds,
           UNCHANGED <<seq, parent, haggle>>,
           \A i \in Ids \ I : status'[i] = status[i] /\ age'[i] = age[i] /\ settled'[i] = settled[i],
           \A i \in I : /\ status'[i] \in {"accepted", "closed", "countered"} /\ age'[i] = 0
                        /\ status'[i] = "countered" => settled'[i] = settled[i]
    PROVE  HaggleInv'
<1>1. \A i \in Ids : age[i] \in Nat
  BY DEF TypeInv, LedgerTypeOK, Ages
<1>2. \A i \in I : i \in Ids /\ status[i] = "pending"
  BY DEF PendingIds
<1>3. IdsInv'
  BY <1>2 DEF HaggleInv, IdsInv
<1>4. SettledInv'
  BY <1>2 DEF HaggleInv, SettledInv
<1>5. \A i \in Ids : settled[i] = "no" /\ status[i] \in {"absent", "countered"} =>
         /\ settled'[i] = "no" /\ status'[i] \in {"absent", "countered"}
         /\ status'[i] = "countered" => status[i] = "countered"
  BY <1>2
<1>6. \A i, c \in Ids :
         /\ status[i] = "countered" /\ status'[i] = "countered"
         /\ status[c] # "absent" /\ parent[c] = i /\ age[c] <= age[i]
         => status'[c] # "absent" /\ parent'[c] = i /\ age'[c] <= age'[i]
  BY <1>1, <1>2
<1>7. ChainInv'
  BY <1>5, <1>6, ChainKept DEF HaggleInv
<1> QED BY <1>3, <1>4, <1>7 DEF HaggleInv

LEMMA HaggleOpen ==
    ASSUME TypeInv, HaggleInv, NEW t \in Terms, NEW state \in {"pending", "accepted"},
           NEW I \in SUBSET PendingIds, Mint(t, None, state, I),
           \A j \in Ids : j # seq + 1 => settled'[j] = settled[j],
           state = "pending" => settled' = settled
    PROVE  HaggleInv'
<1>0. Minted(t, None, state, I)
  BY MintFacts
<1>1. state \in Status /\ None \in Ids \cup {None}
  BY DEF Status
<1>2. IdsInv'
  BY <1>1, IdsMint DEF HaggleInv
<1>3. SettledInv'
  <2>1. settled[seq'] = "no"
    BY <1>0 DEF Minted, HaggleInv, IdsInv
  <2> QED BY <1>0, <2>1 DEF Minted, HaggleInv, SettledInv
<1>4. ChainInv'
  BY <1>1, ChainOpen
<1> QED BY <1>2, <1>3, <1>4 DEF HaggleInv

LEMMA HaggleAnswer == TypeInv /\ HaggleInv /\ Answer => HaggleInv'
<1> SUFFICES ASSUME TypeInv, HaggleInv, Answer PROVE HaggleInv'
  OBVIOUS
<1> PICK p \in Ids, t \in Terms : Answerable(p) /\ Mint(t, p, "pending", {}) /\ settled' = settled
  BY DEF Answer
<1>0. Minted(t, p, "pending", {})
  BY MintFacts
<1>1. "pending" \in Status /\ {} \in SUBSET PendingIds /\ p \in Ids \cup {None} /\ status[p] # "absent"
  BY DEF Status, Answerable
<1>2. IdsInv'
  BY <1>1, IdsMint DEF HaggleInv
<1>3. SettledInv'
  <2>1. settled[seq'] = "no"
    BY <1>0 DEF Minted, HaggleInv, IdsInv
  <2> QED BY <1>0, <2>1 DEF Minted, HaggleInv, SettledInv
<1>4. ChainInv'
  BY ChainAnswer
<1> QED BY <1>2, <1>3, <1>4 DEF HaggleInv

LEMMA HaggleStep == TypeInv /\ HaggleInv /\ EntryStep => HaggleInv'
<1> SUFFICES ASSUME TypeInv, HaggleInv, EntryStep PROVE HaggleInv'
  OBVIOUS
<1>0. /\ status \in [Ids -> Status] /\ age \in [Ids -> Ages] /\ settled \in [Ids -> Ways]
      /\ PendingIds \subseteq Ids
  BY DEF TypeInv, LedgerTypeOK, PendingIds
<1>1. CASE Keep
  BY <1>1 DEF Keep, entryVars, HaggleInv, IdsInv, SettledInv, ChainInv, Guarded
<1>2. CASE CloseSome
  <2> PICK I \in SUBSET PendingIds : Close(I)
    BY <1>2 DEF CloseSome
  <2>1. UNCHANGED <<seq, parent, haggle, settled>>
    BY DEF Close
  <2>2. \A i \in Ids : /\ status'[i] = IF i \in I THEN "closed" ELSE status[i]
                       /\ age'[i] = IF i \in I THEN 0 ELSE age[i]
    BY DEF Close, Closing, Aged
  <2> QED BY <1>0, <2>1, <2>2, HagglePending
<1>3. CASE SettleOne
  <2> PICK i \in PendingIds : /\ status' = [status EXCEPT ![i] = "accepted"]
                              /\ age' = [age EXCEPT ![i] = 0]
                              /\ settled' = [settled EXCEPT ![i] = "accept"]
                              /\ UNCHANGED <<seq, terms, parent, depth, haggle>>
    BY <1>3 DEF SettleOne
  <2>1. {i} \in SUBSET PendingIds
    OBVIOUS
  <2> QED BY <1>0, <2>1, HagglePending
<1>4. CASE CounterOne
  <2> PICK i \in PendingIds : /\ status' = [status EXCEPT ![i] = "countered"]
                              /\ age' = [age EXCEPT ![i] = 0]
                              /\ UNCHANGED <<seq, terms, parent, depth, haggle, settled>>
    BY <1>4 DEF CounterOne
  <2>1. {i} \in SUBSET PendingIds
    OBVIOUS
  <2> QED BY <1>0, <2>1, HagglePending
<1>5. CASE Open
  <2> PICK t \in Terms : Mint(t, None, "pending", {}) /\ settled' = settled
    BY <1>5 DEF Open
  <2> QED BY PendingSets, HaggleOpen
<1>6. CASE Take
  <2> PICK t \in Terms, way \in {"match", "quote"}, I \in SUBSET PendingIds :
         Mint(t, None, "accepted", I) /\ settled' = [settled EXCEPT ![seq + 1] = way]
    BY <1>6 DEF Take
  <2>1. \A j \in Ids : j # seq + 1 => settled'[j] = settled[j]
    BY <1>0
  <2> QED BY <2>1, HaggleOpen
<1>7. CASE Answer
  BY <1>7, HaggleAnswer
<1>8. CASE EvaluatePayLedgerSweep
  BY <1>8, HaggleSweep
<1>9. CASE Tick
  BY <1>9, HaggleTick
<1> QED BY <1>1, <1>2, <1>3, <1>4, <1>5, <1>6, <1>7, <1>8, <1>9 DEF EntryStep

LEMMA HaggleInit == Init => HaggleInv
BY DEF Init, HaggleInv, IdsInv, SettledInv, ChainInv, Ids

Inv == TypeInv /\ HoldingsInv /\ HaggleInv

LEMMA InvAlways == Spec => []Inv
<1>1. Init => Inv
  BY TypeInit, HaggleInit DEF Inv
<1>2. Inv /\ [Next]_vars => Inv'
  BY TypeStep, EntrySteps, HaggleStep DEF Inv
<1> QED BY <1>1, <1>2, PTL DEF Spec

\* However often one haggle is countered, answered and reaped on the way, it ends
\* in at most one sale.
THEOREM HagglesSellOnce == Spec => []OneSalePerHaggle
<1>1. Inv => OneSalePerHaggle
  <2> SUFFICES ASSUME ChainInv, NEW i \in Ids, NEW j \in Ids,
                      settled[i] # "no", settled[j] # "no", haggle[i] = haggle[j]
               PROVE  i = j
    BY DEF Inv, HaggleInv, OneSalePerHaggle
  <2>1. ~(i < j) /\ ~(j < i)
    BY DEF ChainInv
  <2> QED BY <2>1 DEF Ids
<1> QED BY <1>1, InvAlways, PTL

----------------------------------------------------------------------------
(* What becomes of open offers *)

\* Entry i stays open as it is.
Stays(i) ==
    /\ status[i] = "pending"
    /\ terms'[i] = terms[i] /\ parent'[i] = parent[i] /\ age'[i] = age[i]

Opens(i) ==
    \/ \E t \in Terms : OpenOfferOf(t.buyer) = {} /\ Minted(t, None, "pending", {}) /\ i = seq'
    \/ \E t \in Terms, p \in Ids : Minted(t, p, "pending", {}) /\ i = seq'

\* An offer open after a step, other than the passing of time, was open before it
\* or has just been made.
LEMMA PendingSteps ==
    ASSUME Inv, EntryStep, ~Tick, NEW i \in Ids, status'[i] = "pending"
    PROVE  Stays(i) \/ Opens(i)
<1>0. /\ status \in [Ids -> Status] /\ age \in [Ids -> Ages] /\ PendingIds \subseteq Ids
      /\ TypeInv
  BY DEF Inv, TypeInv, LedgerTypeOK, PendingIds
<1>1. CASE Keep
  BY <1>1 DEF Keep, entryVars, Stays
<1>2. CASE CloseSome
  <2> PICK I \in SUBSET PendingIds : Close(I)
    BY <1>2 DEF CloseSome
  <2> QED BY DEF Close, Closing, Aged, Stays
<1>3. CASE SettleOne
  BY <1>0, <1>3 DEF SettleOne, Stays
<1>4. CASE CounterOne
  BY <1>0, <1>4 DEF CounterOne, Stays
<1>5. CASE Open
  <2> PICK t \in Terms : OpenOfferOf(t.buyer) = {} /\ Mint(t, None, "pending", {})
    BY <1>5 DEF Open
  <2>1. Minted(t, None, "pending", {})
    BY <1>0, MintFacts
  <2>2. i # seq' => Stays(i)
    BY <2>1 DEF Minted, Stays
  <2> QED BY <2>1, <2>2 DEF Opens
<1>6. CASE Answer
  <2> PICK p \in Ids, t \in Terms : Mint(t, p, "pending", {})
    BY <1>6 DEF Answer
  <2>1. Minted(t, p, "pending", {})
    BY <1>0, MintFacts
  <2>2. i # seq' => Stays(i)
    BY <2>1 DEF Minted, Stays
  <2> QED BY <2>1, <2>2 DEF Opens
<1>7. CASE Take
  <2> PICK t \in Terms, way \in {"match", "quote"}, I \in SUBSET PendingIds :
         Mint(t, None, "accepted", I)
    BY <1>7 DEF Take
  <2>1. Minted(t, None, "accepted", I)
    BY <1>0, MintFacts
  <2> QED BY <2>1 DEF Minted, Stays
<1>8. CASE EvaluatePayLedgerSweep
  <2>1. Swept(i) /\ i \notin Reapable /\ i \notin Overdue
    BY <1>8, SweepFacts DEF Swept
  <2>2. terms'[i] = terms[i]
    BY <1>8, <2>1 DEF EvaluatePayLedgerSweep
  <2> QED BY <2>1, <2>2 DEF Swept, Stays
<1> QED BY <1>1, <1>2, <1>3, <1>4, <1>5, <1>6, <1>7, <1>8 DEF EntryStep

\* A counter is reaped only when the retention, at least the window, is over.
LEMMA CountersStay ==
    ASSUME Inv, [Next]_vars, NEW i \in Ids, status[i] = "countered", age[i] <= Window
    PROVE  status'[i] = "countered"
<1>0. TypeInv /\ EntryStep /\ i \notin PendingIds /\ age[i] \in Nat /\ status \in [Ids -> Status]
  BY EntrySteps DEF Inv, PendingIds, TypeInv, LedgerTypeOK, Ages
<1>1. CASE Keep \/ Tick
  BY <1>1 DEF Keep, Tick, entryVars
<1>2. CASE CloseSome
  BY <1>0, <1>2 DEF CloseSome, Close, Closing
<1>3. CASE SettleOne \/ CounterOne
  BY <1>0, <1>3 DEF SettleOne, CounterOne
<1>4. ASSUME NEW t \in Terms, NEW p, NEW state, NEW I \in SUBSET PendingIds, Mint(t, p, state, I)
      PROVE  status'[i] = "countered"
  <2>1. Minted(t, p, state, I)
    BY <1>0, <1>4, MintFacts
  <2>2. i # seq'
    BY <2>1, Numbered DEF Minted, Inv, HaggleInv
  <2> QED BY <1>0, <2>1, <2>2 DEF Minted
<1>5. CASE Open
  BY <1>4, <1>5, PendingSets DEF Open
<1>6. CASE Answer
  BY <1>4, <1>6, PendingSets DEF Answer
<1>7. CASE Take
  BY <1>4, <1>7 DEF Take
<1>8. CASE EvaluatePayLedgerSweep
  <2>1. ~(age[i] > EffectiveRetention)
    BY <1>0, RetentionCovers
  <2> QED BY <1>0, <1>8, <2>1, SweepFacts DEF Swept, Reapable, Overdue
<1> QED BY <1>0, <1>1, <1>2, <1>3, <1>5, <1>6, <1>7, <1>8 DEF EntryStep

\* A counter stays in the ledger as long as it may be answered, whatever the
\* retention is set to.
THEOREM CountersAreKept == Spec => CountersKept
<1>1. Inv /\ [Next]_vars =>
         [\A i \in Ids : status[i] = "countered" /\ age[i] <= Window => status'[i] = "countered"]_vars
  BY CountersStay
<1> QED BY <1>1, InvAlways, PTL DEF Spec, CountersKept

LEMMA OneOpenStep == Inv /\ OneOpenOffer /\ [Next]_vars => OneOpenOffer'
<1> SUFFICES ASSUME Inv, OneOpenOffer, [Next]_vars, NEW i \in Ids, NEW j \in Ids,
                    status'[i] = "pending", status'[j] = "pending", i <= j, parent'[j] = None,
                    terms'[i].buyer = terms'[j].buyer, age'[i] < TTL
             PROVE  i = j
  BY DEF OneOpenOffer, PendingIds
<1>0. TypeInv /\ IdsInv /\ EntryStep /\ age \in [Ids -> Ages]
  BY EntrySteps DEF Inv, HaggleInv, TypeInv, LedgerTypeOK
<1>1. CASE Tick
  <2>1. status' = status /\ parent' = parent /\ terms' = terms /\ age'[i] = Older(age[i])
    BY <1>1 DEF Tick
  <2>2. age[i] < TTL
    BY <1>0, <2>1, OlderType DEF Ages
  <2> QED BY <2>1, <2>2 DEF OneOpenOffer, PendingIds
<1>2. CASE Stays(i) /\ Stays(j)
  BY <1>2 DEF Stays, OneOpenOffer, PendingIds
<1>3. CASE Opens(i)
  BY <1>0, <1>3 DEF Opens, Minted, IdsInv, Ids
<1>4. CASE Stays(i) /\ Opens(j) /\ i # j
  <2>1. PICK t \in Terms : OpenOfferOf(t.buyer) = {} /\ Minted(t, None, "pending", {}) /\ j = seq'
    BY <1>4 DEF Opens, Minted, Ids
  <2>2. terms[i].buyer = t.buyer
    BY <1>4, <2>1 DEF Stays, Minted
  <2>3. i \in OpenOfferOf(t.buyer)
    BY <1>4, <2>2 DEF Stays, OpenOfferOf, PendingIds
  <2> QED BY <2>1, <2>3
<1> QED BY <1>0, <1>1, <1>2, <1>3, <1>4, PendingSteps

\* No buyer has an opening offer beside an earlier one that is still in time.
THEOREM OneOfferIsOpen == Spec => []OneOpenOffer
<1>1. Init => OneOpenOffer
  BY DEF Init, OneOpenOffer, PendingIds
<1> QED BY <1>1, OneOpenStep, InvAlways, PTL DEF Spec

\* A settled entry was settled already, or has just met a quote and closed the
\* buyer's mirrors of it.
LEMMA MatchSteps ==
    ASSUME Inv, EntryStep, NEW j \in Ids, settled'[j] = "match", status'[j] = "accepted"
    PROVE  \/ settled[j] = "match" /\ status[j] = "accepted" /\ terms'[j] = terms[j]
           \/ \E t \in Terms : /\ j = seq' /\ terms'[j] = t
                               /\ \A i \in Mirrors(t.buyer, t.qty) : i # j => status'[i] = "closed"
<1>0. /\ status \in [Ids -> Status] /\ settled \in [Ids -> Ways] /\ PendingIds \subseteq Ids
      /\ TypeInv
  BY DEF Inv, TypeInv, LedgerTypeOK, PendingIds
<1>1. CASE Keep \/ Tick
  BY <1>1 DEF Keep, Tick, entryVars
<1>2. CASE CloseSome
  BY <1>0, <1>2 DEF CloseSome, Close, Closing
<1>3. CASE SettleOne \/ CounterOne
  BY <1>0, <1>3 DEF SettleOne, CounterOne
<1>4. CASE Open
  <2> PICK t \in Terms : Mint(t, None, "pending", {}) /\ settled' = settled
    BY <1>4 DEF Open
  <2>1. Minted(t, None, "pending", {})
    BY <1>0, MintFacts
  <2> QED BY <2>1 DEF Minted
<1>5. CASE Answer
  <2> PICK p \in Ids, t \in Terms : Mint(t, p, "pending", {}) /\ settled' = settled
    BY <1>5 DEF Answer
  <2>1. Minted(t, p, "pending", {})
    BY <1>0, MintFacts
  <2> QED BY <2>1 DEF Minted
<1>6. CASE Take
  <2> PICK t \in Terms, way \in {"match", "quote"}, I \in SUBSET PendingIds :
         /\ way = "match" => I = Mirrors(t.buyer, t.qty)
         /\ Mint(t, None, "accepted", I)
         /\ settled' = [settled EXCEPT ![seq + 1] = way]
    BY <1>6 DEF Take
  <2>1. Minted(t, None, "accepted", I)
    BY <1>0, MintFacts
  <2>2. CASE j = seq'
    <3>1. way = "match"
      BY <1>0, <2>1, <2>2 DEF Minted
    <3> QED BY <1>0, <2>1, <2>2, <3>1 DEF Minted
  <2>3. CASE j # seq'
    BY <1>0, <2>1, <2>3 DEF Minted
  <2> QED BY <2>2, <2>3
<1>7. CASE EvaluatePayLedgerSweep
  <2>1. Swept(j) /\ settled'[j] = settled[j]
    BY <1>7, SweepFacts DEF EvaluatePayLedgerSweep
  <2>2. j \notin Reapable
    BY <2>1 DEF Swept
  <2>3. terms'[j] = terms[j]
    BY <1>7, <2>2 DEF EvaluatePayLedgerSweep
  <2> QED BY <2>1, <2>2, <2>3 DEF Swept
<1> QED BY <1>1, <1>2, <1>3, <1>4, <1>5, <1>6, <1>7 DEF EntryStep

LEMMA MatchStep == Inv /\ MatchLeavesNoMirror /\ [Next]_vars => MatchLeavesNoMirror'
<1> SUFFICES ASSUME Inv, MatchLeavesNoMirror, [Next]_vars, NEW i \in Ids, NEW j \in Ids,
                    settled'[j] = "match", status'[j] = "accepted", i < j,
                    status'[i] = "pending", parent'[i] = None,
                    terms'[i].buyer = terms'[j].buyer, terms'[i].qty = terms'[j].qty
             PROVE  FALSE
  BY DEF MatchLeavesNoMirror, MirrorOf, PendingIds
<1>0. TypeInv /\ IdsInv /\ IdsInv' /\ EntryStep
  BY EntrySteps, HaggleStep DEF Inv, HaggleInv
<1>1. CASE Tick
  BY <1>1 DEF Tick, MatchLeavesNoMirror, MirrorOf, PendingIds
<1>2. CASE Opens(i)
  <2>1. i = seq'
    BY <1>2 DEF Opens
  <2> QED BY <1>0, <2>1 DEF IdsInv, Ids
<1>3. CASE Stays(i)
  <2>1. CASE settled[j] = "match" /\ status[j] = "accepted" /\ terms'[j] = terms[j]
    BY <1>3, <2>1 DEF Stays, MatchLeavesNoMirror, MirrorOf, PendingIds
  <2>2. ASSUME NEW t \in Terms, j = seq', terms'[j] = t,
               \A x \in Mirrors(t.buyer, t.qty) : x # j => status'[x] = "closed"
        PROVE  FALSE
    <3>1. i \in Mirrors(t.buyer, t.qty) /\ i # j
      BY <1>3, <2>2 DEF Stays, Mirrors, PendingIds, Ids
    <3> QED BY <2>2, <3>1
  <2> QED BY <1>0, <2>1, <2>2, MatchSteps
<1> QED BY <1>0, <1>1, <1>2, <1>3, PendingSteps

\* An offer that settled by a match leaves no earlier offer of the buyer on the same
\* terms open.
THEOREM MatchesLeaveNoMirror == Spec => []MatchLeavesNoMirror
<1>1. Init => MatchLeavesNoMirror
  BY DEF Init, MatchLeavesNoMirror
<1> QED BY <1>1, MatchStep, InvAlways, PTL DEF Spec

----------------------------------------------------------------------------
(* Lots and the offers they replace *)

\* Quotes only age or go, unless one is posted.
LEMMA QuoteSteps ==
    ASSUME Inv, [Next]_vars
    PROVE  \/ \E k \in Keys, pay \in Payments : SceneQuoteCreate(k, pay.coins)
           \/ Tick
           \/ \A k \in Keys : quotes'[k] # NoQuote => quotes'[k] = quotes[k]
<1> DEFINE Fewer == \A k \in Keys : quotes'[k] # NoQuote => quotes'[k] = quotes[k]
<1>0. HoldingsOK
  BY DEF Inv, HoldingsInv
<1>1. ASSUME NEW b, NEW k, NEW coins, NEW way, NEW I, TakeQuote(b, k, coins, way, I)
      PROVE  Fewer
  BY <1>0, <1>1, WithoutType DEF TakeQuote, Reconciled
<1>2. ASSUME NEW i, AcceptPendingOffer(i) PROVE Fewer
  BY <1>2 DEF AcceptPendingOffer, Settle, Reconciled
<1>3. ASSUME BuyerActs PROVE Fewer
  BY <1>1, <1>3 DEF BuyerActs, AutoMatch, PayWithItem, InResponseTo
<1>4. ASSUME NEW b, NEW k, NEW pay, PayQuote(b, k, pay) PROVE Fewer
  BY <1>1, <1>4 DEF PayQuote
<1>5. ASSUME NEW i, WithdrawPay(i) \/ AcceptPay(i) \/ DeclinePay(i) PROVE Fewer
  BY <1>2, <1>5 DEF WithdrawPay, AcceptPay, DeclinePay
<1>6. ASSUME NEW i, NEW pay, CounterPay(i, pay) PROVE Fewer
  BY <1>2, <1>6 DEF CounterPay
<1>7. ASSUME EvaluatePayLedgerSweep \/ UNCHANGED vars PROVE Fewer
  BY <1>7 DEF EvaluatePayLedgerSweep, vars
<1>8. ASSUME QuoteSweep PROVE Fewer
  BY <1>0, <1>8, WithoutType DEF QuoteSweep
<1>9. ASSUME Restock PROVE Fewer
  BY <1>9 DEF Restock, Reconciled
<1>10. ASSUME NEW b \in Buyers, NEW k \in Keys, NEW pay \in Payments, PayQuote(b, k, pay)
       PROVE  Fewer
  BY <1>4, <1>10
<1>11. ASSUME NEW i \in Ids, WithdrawPay(i) \/ AcceptPay(i) \/ DeclinePay(i) PROVE Fewer
  BY <1>5, <1>11
<1>12. ASSUME NEW i \in Ids, NEW pay \in Payments, CounterPay(i, pay) PROVE Fewer
  BY <1>6, <1>12
<1> HIDE DEF Fewer
<1>13. Fewer \/ Tick \/ \E k \in Keys, pay \in Payments : SceneQuoteCreate(k, pay.coins)
  BY <1>3, <1>7, <1>8, <1>9, <1>10, <1>11, <1>12 DEF Next
<1> QED BY <1>13 DEF Fewer

LEMMA LotStep == Inv /\ LotReplacesOffer /\ [Next]_vars => LotReplacesOffer'
<1> SUFFICES ASSUME Inv, LotReplacesOffer, [Next]_vars, NEW k \in Keys, NEW i \in Ids,
                    quotes'[k] # NoQuote, status'[i] = "pending",
                    k.target = terms'[i].buyer, terms'[i].qty <= k.qty,
                    quotes'[k].age < age'[i]
             PROVE  FALSE
  BY DEF LotReplacesOffer, Active, PendingIds
<1>0. TypeInv /\ HoldingsOK /\ HoldingsOK' /\ EntryStep
  BY EntrySteps, TypeStep DEF Inv, HoldingsInv
<1>1. \A x \in Ids : age[x] \in Ages
  BY <1>0 DEF TypeInv, LedgerTypeOK
<1>2. CASE Tick
  <2>1. /\ status' = status /\ terms' = terms /\ age'[i] = Older(age[i])
        /\ quotes[k] # NoQuote /\ quotes'[k] = [quotes[k] EXCEPT !.age = Older(@)]
    BY <1>2 DEF Tick, Active
  <2>2. quotes[k].age \in Ages /\ quotes'[k].age = Older(quotes[k].age)
    BY <1>0, <2>1 DEF HoldingsOK
  <2>3. quotes[k].age < age[i]
    BY <1>1, <2>1, <2>2, OlderKeepsOrder
  <2> QED BY <2>1, <2>3 DEF LotReplacesOffer, Active, PendingIds
<1>3. CASE Opens(i)
  <2>1. age'[i] = 0 /\ quotes'[k].age \in Nat
    BY <1>0, <1>3 DEF Opens, Minted, HoldingsOK, Ages
  <2> QED BY <2>1
<1>4. CASE Stays(i) /\ quotes'[k] = quotes[k]
  BY <1>4 DEF Stays, LotReplacesOffer, Active, PendingIds
<1>5. ASSUME NEW l \in Keys, NEW pay \in Payments, SceneQuoteCreate(l, pay.coins), Stays(i)
      PROVE  FALSE
  <2>1. PICK gone \in SUBSET Active :
           quotes' = [Without(gone) EXCEPT ![l] = [coins |-> pay.coins, age |-> 0]]
    BY <1>5 DEF SceneQuoteCreate
  <2>2. CASE k = l
    <3>1. i \in PendingIds /\ terms[i] \in Terms
      BY <1>0, <1>5 DEF Stays, PendingIds, TypeInv, TermsInv
    <3>2. l.target # Room /\ terms[i].buyer = l.target /\ terms[i].qty <= l.qty
      BY <1>5, <2>2, <3>1 DEF Stays, Terms
    <3>3. i \in CoveredByLot(l)
      BY <3>1, <3>2 DEF CoveredByLot
    <3> QED BY <1>5, <3>3 DEF SceneQuoteCreate, Close, Closing
  <2>3. CASE k # l
    <3>1. quotes'[k] = quotes[k]
      BY <1>0, <2>1, <2>3, WithoutType
    <3> QED BY <1>4, <1>5, <3>1
  <2> QED BY <2>2, <2>3
<1> QED BY <1>0, <1>2, <1>3, <1>4, <1>5, PendingSteps, QuoteSteps

\* A lot posted to a buyer leaves none of its earlier offers that the lot covers
\* open beside it.
THEOREM LotsReplaceOffers == Spec => []LotReplacesOffer
<1>1. Init => LotReplacesOffer
  BY DEF Init, LotReplacesOffer, Active
<1> QED BY <1>1, LotStep, InvAlways, PTL DEF Spec
----------------------------------------------------------------------------
(* The rounds of a haggle *)

Chain(h, r) == {j \in Ids : h[j] = r}

\* The newest entry of a chain knows how long the chain is.
RoundsInv ==
    /\ HagglesBounded
    /\ \A i \in Ids :
          status[i] # "absent" /\ Newest(i) => Cardinality(Chain(haggle, haggle[i])) = depth[i] + 1

LEMMA ChainFinite == \A r : IsFiniteSet(Chain(haggle, r)) /\ Cardinality(Chain(haggle, r)) \in Nat
<1>1. IsFiniteSet(Ids)
  BY FS_Interval DEF Ids
<1> SUFFICES ASSUME NEW r PROVE IsFiniteSet(Chain(haggle, r)) /\ Cardinality(Chain(haggle, r)) \in Nat
  OBVIOUS
<1>2. Chain(haggle, r) \in SUBSET Ids
  BY DEF Chain
<1>3. IsFiniteSet(Chain(haggle, r))
  BY <1>1, <1>2, FS_Subset
<1> QED BY <1>3, FS_CardinalityType

LEMMA RoundsInit == Init => RoundsInv
<1> SUFFICES ASSUME Init PROVE RoundsInv
  OBVIOUS
<1>1. \A i \in Ids : haggle[i] = None /\ status[i] = "absent"
  BY DEF Init
<1>2. ASSUME NEW r \in Ids PROVE Cardinality({i \in Ids : haggle[i] = r}) <= MaxDepth + 1
  <2>1. {i \in Ids : haggle[i] = r} = {}
    BY <1>1 DEF Ids
  <2> QED BY <2>1, FS_EmptySet
<1> QED BY <1>1, <1>2 DEF RoundsInv, HagglesBounded

\* A step that mints nothing changes no chain and no depth.
LEMMA RoundsKept ==
    ASSUME RoundsInv, haggle' = haggle,
           \A i \in Ids : status'[i] # "absent" => status[i] # "absent" /\ depth'[i] = depth[i]
    PROVE  RoundsInv'
BY DEF RoundsInv, HagglesBounded, Chain, Newest

\* The depth a new entry is given.
LEMMA MintDepths ==
    ASSUME TypeInv, NEW t, NEW p, NEW state, NEW I, Mint(t, p, state, I)
    PROVE  /\ depth'[seq'] = IF p = None THEN 0 ELSE depth[p] + 1
           /\ \A j \in Ids : j # seq' => depth'[j] = depth[j]
BY DEF Mint, TypeInv, LedgerTypeOK

\* Entries of other chains know the length of theirs as before.
LEMMA OtherRounds ==
    ASSUME TypeInv, HaggleInv, RoundsInv, NEW t, NEW p, NEW state, NEW I \in SUBSET PendingIds,
           Mint(t, p, state, I), NEW i \in Ids, i # seq', haggle[i] # haggle'[seq'],
           status'[i] # "absent", Newest(i)'
    PROVE  Cardinality(Chain(haggle', haggle'[i])) = depth'[i] + 1
<1>0. Minted(t, p, state, I)
  BY MintFacts
<1>1. haggle'[i] = haggle[i] /\ depth'[i] = depth[i] /\ status[i] # "absent"
  BY <1>0, MintDepths DEF Minted, PendingIds
<1>2. seq \in Nat /\ seq' = seq + 1 /\ seq' \in Ids
  BY <1>0 DEF Minted
<1>3. haggle[seq'] = None /\ haggle[i] # None
  BY <1>1, <1>2, Numbered DEF HaggleInv, IdsInv, Ids
<1>4. \A j \in Ids : j # seq' => haggle'[j] = haggle[j]
  BY <1>0 DEF Minted
<1>5. Newest(i)
  BY <1>1, <1>3, <1>4 DEF Newest
<1>6. Chain(haggle', haggle'[i]) = Chain(haggle, haggle[i])
  BY <1>1, <1>3, <1>4 DEF Chain
<1> QED BY <1>1, <1>5, <1>6 DEF RoundsInv

\* Chains other than the new entry's are as long as before.
LEMMA OtherChains ==
    ASSUME TypeInv, HaggleInv, NEW t, NEW p, NEW state, NEW I, Mint(t, p, state, I),
           NEW r \in Ids, r # haggle'[seq']
    PROVE  Chain(haggle', r) = Chain(haggle, r)
<1>0. Minted(t, p, state, I)
  BY MintFacts
<1>1. haggle[seq'] = None
  BY <1>0 DEF Minted, HaggleInv, IdsInv
<1> QED BY <1>0, <1>1 DEF Minted, Chain, Ids

\* What is left to show of a minted entry: its own chain.
LEMMA RoundsMint ==
    ASSUME TypeInv, HaggleInv, RoundsInv, NEW t, NEW p, NEW state, NEW I \in SUBSET PendingIds,
           Mint(t, p, state, I),
           Cardinality(Chain(haggle', haggle'[seq'])) = depth'[seq'] + 1, depth'[seq'] \in 0 .. MaxDepth
    PROVE  RoundsInv'
<1>0. Minted(t, p, state, I)
  BY MintFacts
<1>1. seq \in Nat /\ seq' = seq + 1 /\ seq' \in Ids
  BY <1>0 DEF Minted
<1>2. ASSUME NEW r \in Ids PROVE Cardinality(Chain(haggle', r)) <= MaxDepth + 1
  <2>1. CASE r = haggle'[seq']
    BY <2>1
  <2>2. CASE r # haggle'[seq']
    BY <2>2, OtherChains DEF RoundsInv, HagglesBounded, Chain
  <2> QED BY <2>1, <2>2
<1>3. HagglesBounded'
  BY <1>2 DEF HagglesBounded, Chain
<1>4. ASSUME NEW i \in Ids, status'[i] # "absent", Newest(i)'
      PROVE  Cardinality(Chain(haggle', haggle'[i])) = depth'[i] + 1
  <2>1. CASE i = seq'
    BY <2>1
  <2>2. CASE i # seq' /\ haggle[i] # haggle'[seq']
    BY <1>4, <2>2, OtherRounds
  <2>3. CASE i # seq' /\ haggle[i] = haggle'[seq']
    <3>1. haggle'[i] = haggle[i] /\ status[i] # "absent"
      BY <1>0, <1>4, <2>3 DEF Minted, PendingIds
    <3>2. i < seq'
      BY <1>1, <3>1, Numbered DEF HaggleInv, Ids
    <3> QED BY <1>1, <1>4, <2>3, <3>1, <3>2 DEF Newest
  <2> QED BY <2>1, <2>2, <2>3
<1> QED BY <1>3, <1>4 DEF RoundsInv

\* A chain begins with one entry of depth none.
LEMMA RoundsOpen ==
    ASSUME TypeInv, HaggleInv, RoundsInv, NEW t, NEW state, NEW I \in SUBSET PendingIds,
           Mint(t, None, state, I)
    PROVE  RoundsInv'
<1>0. Minted(t, None, state, I)
  BY MintFacts
<1>1. depth'[seq'] = 0 /\ haggle'[seq'] = seq' /\ seq \in Nat /\ seq' = seq + 1 /\ seq' \in Ids
  BY <1>0, MintDepths DEF Minted
<1>2. \A k \in Ids : k # seq' => haggle'[k] = haggle[k] /\ haggle[k] # seq'
  BY <1>1, <1>0 DEF Minted, HaggleInv, IdsInv
<1>3. Chain(haggle', haggle'[seq']) = {seq'}
  BY <1>1, <1>2 DEF Chain
<1>4. Cardinality(Chain(haggle', haggle'[seq'])) = 1
  BY <1>3, FS_Singleton
<1> QED BY <1>1, <1>4, RoundsMint

\* An answer to the newest entry of a chain makes the chain longer by one.
LEMMA RoundsAnswer ==
    ASSUME TypeInv, HaggleInv, RoundsInv, NEW p \in Ids, NEW t, Answerable(p),
           Mint(t, p, "pending", {})
    PROVE  RoundsInv'
<1>0. Minted(t, p, "pending", {})
  BY MintFacts
<1>1. depth'[seq'] = depth[p] + 1 /\ depth[p] \in Nat /\ depth[p] < MaxDepth
  <2>1. depth'[seq'] = depth[p] + 1
    BY MintDepths DEF Ids
  <2>2. depth[p] \in 0 .. MaxDepth
    BY DEF TypeInv, LedgerTypeOK
  <2> QED BY <2>1, <2>2 DEF Answerable
<1>2. Newest(p) /\ status[p] # "absent"
  BY DEF HaggleInv, ChainInv, Guarded, Answerable, Newest
<1>3. haggle'[seq'] = haggle[p] /\ seq \in Nat /\ seq' = seq + 1 /\ seq' \in Ids
  BY <1>0 DEF Minted, Ids
<1>4. haggle[p] # None /\ haggle[seq'] = None
  BY <1>2, <1>3, Numbered DEF HaggleInv, IdsInv
<1>5. \A k \in Ids : k # seq' => haggle'[k] = haggle[k]
  BY <1>0 DEF Minted
<1>6. Chain(haggle', haggle'[seq']) = Chain(haggle, haggle[p]) \cup {seq'}
  BY <1>3, <1>5 DEF Chain
<1>7. seq' \notin Chain(haggle, haggle[p])
  BY <1>4 DEF Chain
<1>8. Cardinality(Chain(haggle', haggle'[seq'])) = Cardinality(Chain(haggle, haggle[p])) + 1
  BY <1>6, <1>7, ChainFinite, FS_AddElement
<1>9. Cardinality(Chain(haggle, haggle[p])) = depth[p] + 1
  BY <1>2 DEF RoundsInv
<1>10. depth'[seq'] \in 0 .. MaxDepth
  BY <1>1
<1>11. Cardinality(Chain(haggle', haggle'[seq'])) = depth'[seq'] + 1
  BY <1>1, <1>8, <1>9
<1> QED BY <1>10, <1>11, RoundsMint

LEMMA RoundsStep == Inv /\ RoundsInv /\ EntryStep => RoundsInv'
<1> SUFFICES ASSUME Inv, RoundsInv, EntryStep PROVE RoundsInv'
  OBVIOUS
<1>0. TypeInv /\ HaggleInv /\ status \in [Ids -> Status] /\ PendingIds \subseteq Ids
  BY DEF Inv, TypeInv, LedgerTypeOK, PendingIds
<1>1. CASE Keep
  BY <1>1, RoundsKept DEF Keep, entryVars
<1>2. CASE CloseSome
  BY <1>2, RoundsKept DEF CloseSome, Close, Closing, PendingIds
<1>3. CASE SettleOne
  BY <1>0, <1>3, RoundsKept DEF SettleOne, PendingIds
<1>4. CASE CounterOne
  BY <1>0, <1>4, RoundsKept DEF CounterOne, PendingIds
<1>5. CASE Open
  BY <1>0, <1>5, PendingSets, RoundsOpen DEF Open
<1>6. CASE Take
  BY <1>0, <1>6, RoundsOpen DEF Take
<1>7. CASE Answer
  BY <1>0, <1>7, RoundsAnswer DEF Answer
<1>8. CASE EvaluatePayLedgerSweep
  BY <1>0, <1>8, RoundsKept DEF EvaluatePayLedgerSweep, Closing, Overdue, PendingIds
<1>9. CASE Tick
  BY <1>9, RoundsKept DEF Tick
<1> QED BY <1>1, <1>2, <1>3, <1>4, <1>5, <1>6, <1>7, <1>8, <1>9 DEF EntryStep

\* A haggle is bounded in its rounds, though the entries that made them are reaped on
\* the way, and it ends in at most one sale.
THEOREM HagglesAreSound == Spec => []HagglesSound
<1>1. Inv /\ RoundsInv /\ [Next]_vars => RoundsInv'
  BY EntrySteps, RoundsStep DEF Inv
<1>2. RoundsInv => HagglesBounded
  BY DEF RoundsInv
<1> QED BY <1>1, <1>2, RoundsInit, InvAlways, HagglesSellOnce, PTL DEF Spec, HagglesSound

\* All of it: no purse is overdrawn, no stock sold twice, no quote promises more than
\* is there, and haggles are bounded in their rounds and outcome.
THEOREM LedgerIsSound == Spec => []LedgerSound
BY LedgerTypeCorrect, QuotesAreCovered, HagglesAreSound, PTL DEF LedgerSound

\* A purchase is open in one place only: one offer a buyer, none beside the lot that
\* covers it and none beside the match that settled it.
THEOREM OneWayToBuyHolds == Spec => []OneWayToBuy
BY OneOfferIsOpen, LotsReplaceOffers, MatchesLeaveNoMirror, PTL DEF OneWayToBuy

----------------------------------------------------------------------------
(* The ledger implements Haggles *)

BegunOf == {haggle[i] : i \in Ids} \ {None}
OpenOf == {<<haggle[i], terms[i]>> : i \in Standing}
SoldOf == {haggle[i] : i \in Sales}

\* An entry in the ledger belongs to a haggle begun.
LEMMA HaggleOf ==
    ASSUME Inv, NEW i \in Ids, status[i] # "absent"
    PROVE  i <= seq /\ haggle[i] \in 1 .. seq /\ haggle[i] \in Ids /\ haggle[i] \in BegunOf
<1>1. i <= seq /\ seq \in 0 .. MaxId
  BY Numbered DEF Inv, HaggleInv, TypeInv, LedgerTypeOK
<1>2. haggle[i] \in 1 .. seq
  BY <1>1 DEF Inv, HaggleInv, IdsInv
<1> QED BY <1>1, <1>2 DEF BegunOf, Ids

\* An offer open in a chain is the newest of it.
LEMMA PendingStands ==
    ASSUME Inv, NEW i \in PendingIds
    PROVE  i \in Standing
<1>1. i \in Ids /\ status[i] = "pending"
  BY DEF PendingIds
<1>2. \A j \in Ids : i < j => haggle[j] # haggle[i]
  BY <1>1 DEF Inv, HaggleInv, ChainInv
<1> QED BY <1>1, <1>2 DEF Standing, Newest

\* So is a counter that may be answered: nobody answered it, not even an entry reaped.
LEMMA AnswerableStands ==
    ASSUME Inv, NEW p \in Ids, Answerable(p)
    PROVE  p \in Standing
<1>1. status[p] = "countered" /\ ~Guarded(p)
  BY DEF Answerable, Guarded
<1>2. \A j \in Ids : p < j => haggle[j] # haggle[p]
  BY <1>1 DEF Inv, HaggleInv, ChainInv
<1> QED BY <1>1, <1>2 DEF Standing, Newest

LEMMA StandingApart ==
    ASSUME NEW i \in Standing, NEW j \in Standing, haggle[i] = haggle[j]
    PROVE  i = j
<1>1. i \in Ids /\ j \in Ids /\ ~(i < j) /\ ~(j < i)
  BY DEF Standing, Newest
<1> QED BY <1>1 DEF Ids

\* What an entry minted does to the chains and where they stand.
LEMMA StandingMint ==
    ASSUME Inv, NEW t, NEW p \in Ids \cup {None}, NEW state \in Status,
           NEW I \in SUBSET PendingIds, Mint(t, p, state, I),
           p # None => status[p] # "absent"
    PROVE  \A i : i \in Standing' <=>
              \/ i \in Standing \ I /\ haggle[i] # haggle'[seq']
              \/ i = seq' /\ state \in {"pending", "countered"}
<1>0. TypeInv /\ IdsInv /\ Minted(t, p, state, I)
  BY MintFacts DEF Inv, HaggleInv
<1>1. seq \in Nat /\ seq' = seq + 1 /\ seq' \in Ids /\ haggle[seq'] = None
  <2>1. seq \in Nat /\ seq' = seq + 1 /\ seq' \in Ids
    BY <1>0 DEF Minted
  <2> QED BY <1>0, <2>1 DEF IdsInv
<1>2. haggle'[seq'] \in 1 .. seq'
  <2>1. ASSUME p # None PROVE haggle[p] \in 1 .. seq
    BY <2>1, HaggleOf
  <2>2. haggle'[seq'] = IF p = None THEN seq' ELSE haggle[p]
    BY <1>0 DEF Minted
  <2> QED BY <1>1, <2>1, <2>2
<1>3. ASSUME NEW j \in Ids, seq' < j PROVE haggle'[j] # haggle'[seq']
  <2>1. haggle[j] = None /\ j # seq'
    BY <1>0, <1>1, <1>3 DEF IdsInv, Ids
  <2>2. haggle'[j] = None
    BY <1>0, <2>1 DEF Minted
  <2> QED BY <1>1, <1>2, <2>2
<1>4. ASSUME NEW i \in Ids, i # seq'
      PROVE  i \in Standing' <=> i \in Standing \ I /\ haggle[i] # haggle'[seq']
  <2>1. status'[i] = (IF i \in I THEN "closed" ELSE status[i]) /\ haggle'[i] = haggle[i]
    BY <1>0, <1>4 DEF Minted
  <2>2. CASE status[i] = "absent" \/ i \in I
    <3>1. status'[i] \notin {"pending", "countered"}
      BY <2>1, <2>2 DEF PendingIds
    <3> QED BY <2>2, <3>1 DEF Standing
  <2>3. CASE status[i] # "absent" /\ i \notin I
    <3>1. i <= seq /\ haggle[i] # None
      BY <2>3, HaggleOf DEF Ids
    <3>2. i < seq'
      BY <1>1, <3>1 DEF Ids
    <3>3. Newest(i)' <=> Newest(i) /\ haggle[i] # haggle'[seq']
      <4>1. \A j \in Ids : j # seq' => haggle'[j] = haggle[j]
        BY <1>0 DEF Minted
      <4>2. \A j \in Ids : i < j => (haggle'[j] # haggle'[i]
                 <=> IF j = seq' THEN haggle[i] # haggle'[seq'] ELSE haggle[j] # haggle[i])
        BY <2>1, <4>1
      <4>3. haggle[seq'] # haggle[i]
        BY <1>1, <3>1
      <4>4. Newest(i)' <=> \A j \in Ids : i < j => haggle'[j] # haggle'[i]
        BY DEF Newest
      <4>5. seq' \in Ids
        BY <1>1
      <4> QED BY <3>2, <4>2, <4>3, <4>4, <4>5 DEF Newest
    <3> QED BY <2>1, <2>3, <3>3 DEF Standing
  <2> QED BY <2>2, <2>3
<1>5. seq' \in Standing' <=> state \in {"pending", "countered"}
  <2>1. status'[seq'] = state
    BY <1>0 DEF Minted
  <2> QED BY <1>1, <1>3, <2>1 DEF Standing, Newest
<1>6. seq' \notin Standing
  BY <1>0, <1>1 DEF IdsInv, Standing
<1> QED BY <1>1, <1>4, <1>5, <1>6 DEF Standing


\* Where no entry is minted or sold, haggles can only end.
LEMMA OnlyEnds ==
    ASSUME haggle' = haggle, settled' = settled, NoSale,
           Standing' \subseteq Standing, \A i \in Standing' : terms'[i] = terms[i]
    PROVE  Promise!HagglesNext
<1>1. OpenOf' \subseteq OpenOf
  BY DEF OpenOf
<1>2. PICK ended : ended = OpenOf \ OpenOf'
  OBVIOUS
<1>3. ended \in SUBSET OpenOf /\ OpenOf' = OpenOf \ ended
  BY <1>1, <1>2
<1>4. Promise!NoSale /\ BegunOf' = BegunOf
  BY DEF NoSale, Promise!NoSale, Sales, BegunOf
<1>5. Promise!End(ended)
  BY <1>4, <1>3 DEF Promise!End, OpenOf, BegunOf
<1> QED BY <1>5, <1>3 DEF Promise!HagglesNext, OpenOf

LEMMA PromiseClose == Inv /\ CloseSome => Promise!HagglesNext
<1> SUFFICES ASSUME Inv, NoSale, NEW I \in SUBSET PendingIds, Close(I)
             PROVE  Promise!HagglesNext
  BY DEF CloseSome
<1>1. haggle' = haggle /\ settled' = settled /\ terms' = terms
  BY DEF Close
<1>2. Standing' \subseteq Standing
  BY <1>1 DEF Close, Closing, Standing, Newest
<1> QED BY <1>1, <1>2, OnlyEnds

LEMMA PromiseCounter == Inv /\ CounterOne => Promise!HagglesNext
<1> SUFFICES ASSUME Inv, NoSale, NEW i \in PendingIds,
                    status' = [status EXCEPT ![i] = "countered"],
                    UNCHANGED <<seq, terms, parent, depth, haggle, settled>>
             PROVE  Promise!HagglesNext
  BY DEF CounterOne
<1>1. status \in [Ids -> Status] /\ status[i] = "pending"
  BY DEF Inv, TypeInv, LedgerTypeOK, PendingIds
<1>2. Standing' \subseteq Standing
  BY <1>1 DEF Standing, Newest
<1> QED BY <1>2, OnlyEnds

LEMMA PromiseSweep == Inv /\ EvaluatePayLedgerSweep => Promise!HagglesNext
<1> SUFFICES ASSUME Inv, EvaluatePayLedgerSweep PROVE Promise!HagglesNext
  OBVIOUS
<1>1. haggle' = haggle /\ settled' = settled /\ NoSale
  BY DEF EvaluatePayLedgerSweep, NoSale
<1>2. \A i \in Ids : Swept(i)
  BY SweepFacts
<1>3. ASSUME NEW i \in Standing' PROVE i \in Standing /\ terms'[i] = terms[i]
  <2>1. i \in Ids /\ i \notin Reapable /\ status[i] = status'[i]
    BY <1>2 DEF Standing, Swept
  <2>2. terms'[i] = terms[i]
    BY <2>1 DEF EvaluatePayLedgerSweep
  <2> QED BY <1>1, <2>1, <2>2 DEF Standing, Newest
<1> QED BY <1>1, <1>3, OnlyEnds

LEMMA PromiseTick == Inv /\ Tick => Promise!HagglesNext
<1> SUFFICES ASSUME Inv, Tick PROVE Promise!HagglesNext
  OBVIOUS
<1>1. haggle' = haggle /\ settled' = settled /\ NoSale /\ status' = status /\ terms' = terms
  BY DEF Tick, NoSale
<1> QED BY <1>1, OnlyEnds DEF Standing, Newest

LEMMA PromiseKeep == Keep => Promise!HagglesNext
<1> SUFFICES ASSUME Keep PROVE Promise!Stock
  BY DEF Promise!HagglesNext
<1> QED BY DEF Keep, entryVars, Promise!Stock, Standing, Newest, Sales

\* What minting an entry makes of the haggles begun: its own is one of them.
LEMMA BegunMint ==
    ASSUME Inv, NEW t, NEW p \in Ids \cup {None}, NEW state, NEW I, Mint(t, p, state, I),
           p # None => status[p] # "absent"
    PROVE  /\ BegunOf' = BegunOf \cup {haggle'[seq']}
           /\ p = None => seq' \notin BegunOf
           /\ \A i \in Standing : haggle[i] \in 1 .. seq
<1>0. TypeInv /\ IdsInv /\ Minted(t, p, state, I)
  BY MintFacts DEF Inv, HaggleInv
<1>1. seq \in Nat /\ seq' = seq + 1 /\ seq' \in Ids
  BY <1>0 DEF Minted
<1>2. haggle[seq'] = None
  BY <1>0, <1>1 DEF IdsInv
<1>3. haggle'[seq'] # None
  <2>1. ASSUME p # None PROVE haggle[p] # None
    BY <2>1, HaggleOf
  <2> QED BY <1>0, <1>1, <2>1 DEF Minted
<1>4. \A i \in Ids : i # seq' => haggle'[i] = haggle[i]
  BY <1>0 DEF Minted
<1>5. BegunOf' = BegunOf \cup {haggle'[seq']}
  <2>1. ASSUME NEW x \in BegunOf' PROVE x \in BegunOf \cup {haggle'[seq']}
    <3> PICK i \in Ids : x = haggle'[i] /\ x # None
      BY DEF BegunOf
    <3> QED BY <1>4 DEF BegunOf
  <2>2. ASSUME NEW x \in BegunOf PROVE x \in BegunOf'
    <3> PICK i \in Ids : x = haggle[i] /\ x # None
      BY DEF BegunOf
    <3> QED BY <1>2, <1>4 DEF BegunOf
  <2>3. haggle'[seq'] \in BegunOf'
    BY <1>1, <1>3 DEF BegunOf
  <2> QED BY <2>1, <2>2, <2>3
<1>6. seq' \notin BegunOf
  BY <1>0, <1>1 DEF BegunOf, IdsInv
<1>7. \A i \in Standing : haggle[i] \in 1 .. seq
  BY HaggleOf DEF Standing
<1> QED BY <1>5, <1>6, <1>7

\* The haggles sold, beside the new entry's if it settled.
LEMMA SoldMint ==
    ASSUME Inv, NEW t, NEW p, NEW state, NEW I, Mint(t, p, state, I),
           \A j \in Ids : j # seq' => settled'[j] = settled[j]
    PROVE  /\ settled'[seq'] = "no" => SoldOf' = SoldOf
           /\ settled'[seq'] # "no" => SoldOf' = SoldOf \cup {haggle'[seq']}
<1>0. TypeInv /\ IdsInv /\ Minted(t, p, state, I)
  BY MintFacts DEF Inv, HaggleInv
<1>1. seq \in Nat /\ seq' = seq + 1 /\ seq' \in Ids
  BY <1>0 DEF Minted
<1>2. settled[seq'] = "no"
  BY <1>0, <1>1 DEF IdsInv
<1>3. \A i \in Ids : i # seq' => haggle'[i] = haggle[i]
  BY <1>0 DEF Minted
<1>4. \A i \in Ids \ {seq'} : i \in Sales' <=> i \in Sales
  BY DEF Sales
<1>5. seq' \notin Sales /\ (seq' \in Sales' <=> settled'[seq'] # "no")
  BY <1>1, <1>2 DEF Sales
<1>6. ASSUME NEW x \in SoldOf PROVE x \in SoldOf'
  <2> PICK i \in Sales : x = haggle[i]
    BY DEF SoldOf
  <2>1. i \in Ids /\ i # seq'
    BY <1>5 DEF Sales
  <2>2. i \in Sales' /\ x = haggle'[i]
    BY <1>3, <1>4, <2>1
  <2> QED BY <2>2 DEF SoldOf
<1>7. ASSUME NEW x \in SoldOf' PROVE x \in SoldOf \/ (seq' \in Sales' /\ x = haggle'[seq'])
  <2> PICK i \in Sales' : x = haggle'[i]
    BY DEF SoldOf
  <2>1. CASE i # seq'
    <3>1. i \in Ids
      BY DEF Sales
    <3>2. i \in Sales /\ x = haggle[i]
      BY <1>3, <1>4, <2>1, <3>1
    <3> QED BY <3>2 DEF SoldOf
  <2> QED BY <2>1
<1>8. seq' \in Sales' => haggle'[seq'] \in SoldOf'
  BY DEF SoldOf
<1> QED BY <1>5, <1>6, <1>7, <1>8

LEMMA PromiseOpen == Inv /\ Open => Promise!HagglesNext
<1> SUFFICES ASSUME Inv, NEW t \in Terms, Mint(t, None, "pending", {}), settled' = settled, NoSale
             PROVE  Promise!HagglesNext
  BY DEF Open
<1>1. Minted(t, None, "pending", {}) /\ "pending" \in Status
  BY MintFacts DEF Inv, Status
<1>2. haggle'[seq'] = seq' /\ terms'[seq'] = t /\ seq' = seq + 1 /\ seq \in Nat /\ seq' \in Ids
  BY <1>1 DEF Minted
<1>3. BegunOf' = BegunOf \cup {seq'} /\ seq' \notin BegunOf
      /\ \A i \in Standing : haggle[i] \in 1 .. seq
  BY <1>2, BegunMint
<1>4. Standing' = Standing \cup {seq'}
  <2>1. \A i : i \in Standing' <=> (i \in Standing /\ haggle[i] # haggle'[seq']) \/ i = seq'
    BY <1>1, PendingSets, StandingMint
  <2> QED BY <1>2, <1>3, <2>1
<1>5. \A i \in Standing : i # seq' /\ haggle'[i] = haggle[i] /\ terms'[i] = terms[i]
  <2>1. \A i \in Standing : i \in Ids /\ i # seq'
    BY <1>1, <1>2, Numbered DEF Standing, Inv, HaggleInv
  <2> QED BY <1>1, <2>1 DEF Minted
<1>6. OpenOf' = OpenOf \cup {<<seq', t>>}
  BY <1>2, <1>4, <1>5 DEF OpenOf
<1>7. Promise!NoSale
  <2>1. settled[seq'] = "no"
    BY <1>2 DEF Inv, HaggleInv, IdsInv
  <2>2. SoldOf' = SoldOf
    BY <2>1, SoldMint
  <2> QED BY <2>2 DEF NoSale, Promise!NoSale, SoldOf
<1>8. PICK h \in Ids : h = seq'
  BY <1>2
<1>9. Promise!Begin(h, t)
  BY <1>3, <1>6, <1>7, <1>8 DEF Promise!Begin, OpenOf, BegunOf
<1> QED BY <1>9 DEF Promise!HagglesNext


\* An answer replaces, in the haggle of the entry it answers, the offer that stood.
LEMMA PromiseAnswer == Inv /\ Answer => Promise!HagglesNext
<1> SUFFICES ASSUME Inv, NEW p \in Ids, NEW t \in Terms, Answerable(p), t.buyer = terms[p].buyer,
                    Mint(t, p, "pending", {}), settled' = settled, NoSale
             PROVE  Promise!HagglesNext
  BY DEF Answer
<1>0. /\ p \in Standing /\ status[p] # "absent"
      /\ haggle[p] \in Ids /\ haggle[p] \in BegunOf /\ terms[p] \in Terms
  BY AnswerableStands, HaggleOf DEF Answerable, Inv, TypeInv, TermsInv
<1>1. Minted(t, p, "pending", {}) /\ "pending" \in Status /\ p # None /\ p \in Ids \cup {None}
  BY MintFacts DEF Inv, Status, Ids
<1>2. PICK h \in Ids, old \in Terms : h = haggle[p] /\ old = terms[p]
  BY <1>0
<1>3. haggle'[seq'] = h /\ terms'[seq'] = t /\ seq' = seq + 1 /\ seq' \in Ids
  BY <1>1, <1>2 DEF Minted
<1>4. BegunOf' = BegunOf
  <2>1. BegunOf' = BegunOf \cup {haggle'[seq']}
    BY <1>0, <1>1, BegunMint
  <2> QED BY <1>0, <1>2, <1>3, <2>1
<1>5. Standing' = (Standing \ {p}) \cup {seq'}
  <2>1. \A i : i \in Standing' <=> (i \in Standing /\ haggle[i] # haggle'[seq']) \/ i = seq'
    BY <1>0, <1>1, PendingSets, StandingMint
  <2>2. \A i \in Standing : haggle[i] = h <=> i = p
    BY <1>0, <1>2, StandingApart
  <2> QED BY <1>3, <2>1, <2>2
<1>6. \A i \in Standing : i # seq' /\ haggle'[i] = haggle[i] /\ terms'[i] = terms[i]
  <2>1. \A i \in Standing : i \in Ids /\ i # seq'
    BY <1>1, <1>3, Numbered DEF Standing, Inv, HaggleInv
  <2> QED BY <1>1, <2>1 DEF Minted
<1>7. OpenOf' = (OpenOf \ {<<h, old>>}) \cup {<<h, t>>} /\ <<h, old>> \in OpenOf
  <2>1. <<h, old>> \in OpenOf
    BY <1>0, <1>2 DEF OpenOf
  <2>2. \A i \in Standing : <<haggle[i], terms[i]>> = <<h, old>> <=> i = p
    BY <1>0, <1>2, StandingApart
  <2>3. OpenOf \ {<<h, old>>} = {<<haggle[i], terms[i]>> : i \in Standing \ {p}}
    BY <2>2 DEF OpenOf
  <2>4. OpenOf' = {<<haggle[i], terms[i]>> : i \in Standing \ {p}} \cup {<<h, t>>}
    BY <1>3, <1>5, <1>6 DEF OpenOf
  <2> QED BY <2>1, <2>3, <2>4
<1>8. Promise!NoSale
  <2>1. settled'[seq'] = "no"
    BY <1>1, <1>3 DEF Inv, HaggleInv, IdsInv, Minted
  <2>2. SoldOf' = SoldOf
    BY <2>1, SoldMint
  <2> QED BY <2>2 DEF NoSale, Promise!NoSale, SoldOf
<1>9. Promise!Replace(h, old, t)
  <2>1. t.buyer = old.buyer
    BY <1>2
  <2> QED BY <1>4, <1>7, <1>8, <2>1 DEF Promise!Replace, OpenOf, BegunOf
<1> QED BY <1>9 DEF Promise!HagglesNext

\* Of the sale, what the holdings see of it.
LEMMA PromiseSale ==
    ASSUME Inv, NEW t \in Terms, Affordable(t), Transfer(t), NEW h,
           SoldOf' = SoldOf \cup {h}
    PROVE  Promise!Sale(h, t)
<1>1. t.qty \in Nat /\ stock \in Nat
  <2>1. t.qty \in Qtys
    BY DEF Terms
  <2>2. stock \in 0 .. MaxStock
    BY DEF Inv, TypeInv, LedgerTypeOK
  <2>3. t.qty \in Nat
    BY <2>1
  <2> QED BY <2>2, <2>3
<1> QED BY <1>1 DEF Affordable, Transfer, Promise!Sale, SoldOf

LEMMA PromiseSettle == Inv /\ SettleOne => Promise!HagglesNext
<1> SUFFICES ASSUME Inv, NEW i \in PendingIds, Affordable(terms[i]), Transfer(terms[i]),
                    status' = [status EXCEPT ![i] = "accepted"],
                    settled' = [settled EXCEPT ![i] = "accept"],
                    UNCHANGED <<seq, terms, parent, depth, haggle>>
             PROVE  Promise!HagglesNext
  BY DEF SettleOne
<1>0. i \in Standing /\ i \in Ids /\ status[i] = "pending" /\ haggle[i] \in Ids /\ terms[i] \in Terms
  BY PendingStands, HaggleOf DEF PendingIds, Inv, TypeInv, TermsInv
<1>1. PICK h \in Ids, t \in Terms : h = haggle[i] /\ t = terms[i]
  BY <1>0
<1>2. status \in [Ids -> Status] /\ settled \in [Ids -> Ways]
  BY DEF Inv, TypeInv, LedgerTypeOK
<1>3. Standing' = Standing \ {i}
  BY <1>0, <1>2 DEF Standing, Newest
<1>4. OpenOf' = OpenOf \ {<<h, t>>} /\ <<h, t>> \in OpenOf
  <2>1. <<h, t>> \in OpenOf
    BY <1>0, <1>1 DEF OpenOf
  <2>2. \A j \in Standing : <<haggle[j], terms[j]>> = <<h, t>> <=> j = i
    BY <1>0, <1>1, StandingApart
  <2>3. OpenOf' = {<<haggle[j], terms[j]>> : j \in Standing \ {i}}
    BY <1>3 DEF OpenOf
  <2> QED BY <2>1, <2>2, <2>3 DEF OpenOf
<1>5. SoldOf' = SoldOf \cup {h}
  <2>1. Sales' = Sales \cup {i}
    BY <1>0, <1>2 DEF Sales
  <2> QED BY <1>1, <2>1 DEF SoldOf
<1>6. BegunOf' = BegunOf
  BY DEF BegunOf
<1>7. Promise!Sale(h, t)
  BY <1>1, <1>5, PromiseSale
<1>8. Promise!Sell(h, t)
  BY <1>4, <1>6, <1>7 DEF Promise!Sell, OpenOf, BegunOf
<1> QED BY <1>8 DEF Promise!HagglesNext

LEMMA PromiseTake == Inv /\ Take => Promise!HagglesNext
<1> SUFFICES ASSUME Inv, NEW t \in Terms, NEW way \in {"match", "quote"}, NEW I \in SUBSET PendingIds,
                    Affordable(t), Transfer(t), Mint(t, None, "accepted", I),
                    settled' = [settled EXCEPT ![seq + 1] = way]
             PROVE  Promise!HagglesNext
  BY DEF Take
<1>1. Minted(t, None, "accepted", I) /\ "accepted" \in Status
  BY MintFacts DEF Inv, Status
<1>2. haggle'[seq'] = seq' /\ seq' = seq + 1 /\ seq' \in Ids
  BY <1>1 DEF Minted
<1>3. BegunOf' = BegunOf \cup {seq'} /\ seq' \notin BegunOf
  BY <1>2, BegunMint
<1>4. Standing' \subseteq Standing
  BY <1>1, StandingMint
<1>5. \A i \in Standing : i # seq' /\ haggle'[i] = haggle[i] /\ terms'[i] = terms[i]
  <2>1. \A i \in Standing : i \in Ids /\ i # seq'
    BY <1>1, <1>2, Numbered DEF Standing, Inv, HaggleInv
  <2> QED BY <1>1, <2>1 DEF Minted
<1>6. OpenOf' \subseteq OpenOf
  BY <1>4, <1>5 DEF OpenOf
<1>7. PICK ended : ended = OpenOf \ OpenOf'
  OBVIOUS
<1>8. ended \in SUBSET OpenOf /\ OpenOf' = OpenOf \ ended
  BY <1>6, <1>7
<1>9. SoldOf' = SoldOf \cup {seq'}
  <2>1. settled \in [Ids -> Ways] /\ way # "no"
    BY DEF Inv, TypeInv, LedgerTypeOK
  <2>2. settled'[seq'] = way /\ \A j \in Ids : j # seq' => settled'[j] = settled[j]
    BY <1>2, <2>1
  <2> QED BY <1>2, <2>1, <2>2, SoldMint
<1>10. PICK h \in Ids : h = seq'
  BY <1>2
<1>11. Promise!Sale(h, t)
  BY <1>9, <1>10, PromiseSale
<1>12. Promise!SellAtOnce(h, t, ended)
  BY <1>3, <1>8, <1>10, <1>11 DEF Promise!SellAtOnce, OpenOf, BegunOf
<1> QED BY <1>8, <1>12 DEF Promise!HagglesNext, OpenOf

LEMMA PromiseInit == Init => Promise!HagglesInit
<1> SUFFICES ASSUME Init PROVE Promise!HagglesInit
  OBVIOUS
<1>1. \A i \in Ids : status[i] = "absent" /\ haggle[i] = None /\ settled[i] = "no"
  BY DEF Init
<1>2. Standing = {} /\ Sales = {} /\ BegunOf = {}
  BY <1>1 DEF Standing, Sales, BegunOf
<1> QED BY <1>2 DEF Init, BegunOf, Promise!HagglesInit

\* The ledger implements Haggles: each haggle is sold at most once, to the buyer who
\* began it and at the last terms that buyer offered, whatever was countered, answered,
\* expired and reaped on the way, and no other step moves a buyer's coins.
THEOREM LedgerImplementsHaggles == Spec => LedgerKeepsPromise
<1>1. Inv /\ [Next]_vars => [Promise!HagglesNext]_(Promise!haggles)
  BY EntrySteps, PromiseKeep, PromiseClose, PromiseOpen, PromiseAnswer, PromiseTake,
     PromiseSettle, PromiseCounter, PromiseSweep, PromiseTick DEF Inv, EntryStep
<1> QED BY <1>1, PromiseInit, InvAlways, PTL DEF Spec, LedgerKeepsPromise, Promise!HagglesSpec

=============================================================================
