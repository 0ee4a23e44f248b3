------------------------------ MODULE Exchange ------------------------------
(***************************************************************************)
(* What the marketplace promises its actors (server/market.py:1-35),       *)
(* without intents, escrows, a ledger or failures: an item is offered,     *)
(* taken back or sold, and a sale is one indivisible exchange of the item  *)
(* against its price, of which the tax goes to the Essence Fund.           *)
(***************************************************************************)
EXTENDS Integers

CONSTANTS Actors, Souls, Custodian, Items, Listings, Lots, Gifts, NoListing,
          StartEssence, StartItems, StartMarket

VARIABLES
    own,    \* essence an actor owns, held for a purchase or not
    inv,
    market,
    fund

exchangeVars == <<own, inv, market, fund>>

Init ==
    /\ own = StartEssence
    /\ inv = StartItems
    /\ market = StartMarket
    /\ fund = 0

Offer(seller, lot, l) ==
    /\ market[l] = NoListing
    /\ inv[seller][lot.item] >= lot.qty
    /\ market' = [market EXCEPT ![l] = [seller |-> seller, lot |-> lot]]
    /\ inv' = [inv EXCEPT ![seller][lot.item] = @ - lot.qty]
    /\ UNCHANGED <<own, fund>>

TakeBack(l) ==
    LET row == market[l] IN
    /\ row # NoListing
    /\ market' = [market EXCEPT ![l] = NoListing]
    /\ inv' = [inv EXCEPT ![row.seller][row.lot.item] = @ + row.lot.qty]
    /\ UNCHANGED <<own, fund>>

Sell(buyer, l) ==
    LET row == market[l]
        price == row.lot.price
        paid == [own EXCEPT ![buyer] = @ - price] IN
    /\ row # NoListing
    /\ market' = [market EXCEPT ![l] = NoListing]
    /\ inv' = [inv EXCEPT ![buyer][row.lot.item] = @ + row.lot.qty]
    /\ fund' \in fund .. fund + price
    /\ own[buyer] >= price
    /\ own' = [paid EXCEPT ![row.seller] = @ + price - (fund' - fund)]

(* A tamer funds a soul of its own.                                        *)
Give(s, sum) ==
    LET t == Custodian[s] IN
    /\ UNCHANGED <<inv, market, fund>>
    /\ own'[s] = own[s] + sum
    /\ own[t] >= sum
    /\ own' = [own EXCEPT ![t] = @ - sum, ![s] = own'[s]]

Next ==
    \/ \E a \in Actors, l \in Listings :
          \/ \E lot \in Lots : Offer(a, lot, l)
          \/ Sell(a, l)
    \/ \E l \in Listings : TakeBack(l)
    \/ \E s \in Souls, sum \in Gifts : Give(s, sum)

Spec == Init /\ [][Next]_exchangeVars
=============================================================================
