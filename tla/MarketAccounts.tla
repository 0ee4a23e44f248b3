---------------------------- MODULE MarketAccounts ----------------------------
(***************************************************************************)
(* What the tables of the market (server/market.py) must add up to, and    *)
(* the refinement mapping under which Market implements Exchange.          *)
(***************************************************************************)
EXTENDS Market, Sums

Worth(row) == CASE row.entry = "debit" -> -row.amount
                [] row.entry = "credit" -> row.amount
                [] OTHER -> 0

RowsOf(a) == {i \in DOMAIN ledger : ledger[i].actor = a}

Delta(a) == Total([i \in DOMAIN ledger |-> Worth(ledger[i])], RowsOf(a))

Holds(a) == {k \in Keys : escrow[k] = "held" /\ request[k].party = a}

Held(a) == Total(amount, Holds(a))

-----------------------------------------------------------------------------
(* What an actor owns: essence held for an open purchase is still its      *)
(* buyer's.                                                                *)
Own == [a \in Actors |-> essence[a] + Held(a)]

EssenceInWorld == Total(Own, Actors) + fund

(* What is in inventories and what listings reserve.                       *)
ItemCount(shelves, listings, i) ==
    LET listed == {l \in Listings :
                      listings[l] # NoListing /\ listings[l].lot.item = i} IN
    Total([a \in Actors |-> shelves[a][i]], Actors)
      + Total([l \in listed |-> listings[l].lot.qty], listed)

ItemsInWorld(i) == ItemCount(inv, market, i)

StartItemsInWorld(i) == ItemCount(StartItems, StartMarket, i)

(* Essence is only moved: between wallets, escrows and the Essence Fund    *)
(* (market.py:24-26).                                                      *)
EssenceConserved == EssenceInWorld = Total(StartEssence, Actors)

(* Items are only moved: between inventories and the listings that         *)
(* reserve them (market.py:31-34).                                         *)
ItemsConserved == \A i \in Items : ItemsInWorld(i) = StartItemsInWorld(i)

(* Whatever the ids clients choose, no step makes essence or items out of  *)
(* nothing.                                                                *)
NothingCreated ==
    /\ EssenceInWorld <= Total(StartEssence, Actors)
    /\ \A i \in Items : ItemsInWorld(i) <= StartItemsInWorld(i)

(* The ledger is the truth behind the wallets: each actor's wallet,        *)
(* together with what is held for its open purchases, is what it started   *)
(* with plus its ledger rows (market.py:748-749).                          *)
LedgerExplainsWallets ==
    \A a \in Actors : essence[a] + Held(a) = StartEssence[a] + Delta(a)

-----------------------------------------------------------------------------
(* A hold and a release are no step of the exchange, and a purchase is one *)
(* step of it.                                                             *)
OfferedLots == {r.lot : r \in {q \in Requests : q.kind = "market_list"}}

Promise == INSTANCE Exchange WITH own <- Own, Lots <- OfferedLots

SalesAreExchanges == Promise!Spec
=============================================================================
