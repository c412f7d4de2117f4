------------------------------ MODULE Haggles ------------------------------
(***************************************************************************)
(* What the pay ledger promises of coins and goods.  A haggle begins with  *)
(* a buyer's offer.  While it is open one offer of that buyer stands in it *)
(* and may be replaced by another.  It ends without a sale, or in one, at  *)
(* the offer that stands; what an offer meets at once is a haggle begun    *)
(* and sold in one step.  Only a sale moves a buyer's coins, and it hands  *)
(* over what is on the shelf.  What has ended stays so.  PayLedger         *)
(* implements this module.                                                 *)
(***************************************************************************)
EXTENDS Integers

CONSTANTS
    Haggling,    \* haggles that may be begun
    Offers,      \* the terms a buyer may offer
    Purses,      \* the coins each buyer starts with
    Shelf        \* the most the seller holds

VARIABLES
    begun,       \* the haggles begun
    open,        \* pairs: an open haggle and the offer that stands in it
    sold,        \* the haggles sold
    coins,       \* the buyers' coins
    shelf        \* the seller's units

haggles == <<begun, open, sold, coins, shelf>>

HagglesInit ==
    begun = {} /\ open = {} /\ sold = {} /\ coins = Purses /\ shelf = Shelf

Sale(h, offer) ==
    /\ offer.coins <= coins[offer.buyer] /\ offer.qty <= shelf
    /\ sold' = sold \cup {h}
    /\ coins' = [coins EXCEPT ![offer.buyer] = @ - offer.coins]
    /\ shelf' = shelf - offer.qty

NoSale == UNCHANGED <<sold, coins, shelf>>

Begin(h, offer) ==
    /\ h \notin begun /\ begun' = begun \cup {h}
    /\ open' = open \cup {<<h, offer>>}
    /\ NoSale

Replace(h, old, new) ==
    /\ <<h, old>> \in open /\ new.buyer = old.buyer
    /\ open' = (open \ {<<h, old>>}) \cup {<<h, new>>}
    /\ NoSale /\ UNCHANGED begun

\* Several may end at once: time runs out, or a lot takes their place.
End(ended) ==
    /\ ended \subseteq open /\ open' = open \ ended
    /\ NoSale /\ UNCHANGED begun

Sell(h, offer) ==
    /\ <<h, offer>> \in open /\ open' = open \ {<<h, offer>>}
    /\ Sale(h, offer) /\ UNCHANGED begun

\* Sold as it begins, which may end other haggles.
SellAtOnce(h, offer, ended) ==
    /\ h \notin begun /\ begun' = begun \cup {h}
    /\ ended \subseteq open /\ open' = open \ ended
    /\ Sale(h, offer)

\* The seller's other business.
Stock == shelf' \in 0 .. Shelf /\ UNCHANGED <<begun, open, sold, coins>>

HagglesNext ==
    \/ \E h \in Haggling, offer \in Offers : Begin(h, offer)
    \/ \E h \in Haggling, old, new \in Offers : Replace(h, old, new)
    \/ \E ended \in SUBSET open : End(ended)
    \/ \E h \in Haggling, offer \in Offers : Sell(h, offer)
    \/ \E h \in Haggling, offer \in Offers, ended \in SUBSET open : SellAtOnce(h, offer, ended)
    \/ Stock

HagglesSpec == HagglesInit /\ [][HagglesNext]_haggles
=============================================================================
