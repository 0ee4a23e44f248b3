------------------------------ MODULE MCMarket ------------------------------
(***************************************************************************)
(* Small marketplaces for TLC: two souls and their tamer, one kind of      *)
(* item, prices of 0.75 (a tax of 0.01 or 0.02) and of 1.00 (0.02).  s1    *)
(* owns the item, s2 can pay for the cheaper purchase once and is dormant  *)
(* after it.                                                               *)
(***************************************************************************)
EXTENDS MarketAccounts, TLC

CONSTANTS s1, s2, t1, food

MCEssence == [a \in Actors |-> IF a = t1 THEN 200 ELSE 75]
MCItems == [a \in Actors |-> [i \in {food} |-> IF a = s1 THEN 2 ELSE 0]]

(* s1 offers one more item since before.                                   *)
MCListed ==
    [l \in ClientListings \cup Keys |->
        IF l \in ClientListings
        THEN [seller |-> s1, lot |-> [item |-> food, qty |-> 1, price |-> 75]]
        ELSE NoListing]

MCCustodian == [s \in Souls |-> t1]

List(seller, listing, price) ==
    [kind |-> "market_list", by |-> seller, custodian |-> t1, party |-> seller,
     listing |-> listing, lot |-> [item |-> food, qty |-> 1, price |-> price]]

Buy(by, buyer, listing) ==
    [kind |-> "market_buy", by |-> by, custodian |-> t1, party |-> buyer,
     listing |-> listing, lot |-> NoLot]

Cancel(by, listing, as) ==
    [kind |-> "market_cancel", by |-> by, custodian |-> as, party |-> by,
     listing |-> listing, lot |-> NoLot]

(* Every listing has a minted id.                                          *)
MintedRequests ==
    {List(s1, Minted, 75)}
    \cup UNION {{Buy(s2, s2, l), Buy(t1, s1, l), Cancel(s1, l, t1)} : l \in Keys}

(* s1 reuses the id of its listing at a higher price.                      *)
ReusedRequests ==
    UNION {{List(s1, l, 100), Buy(t1, t1, l), Cancel(s1, l, t1)} : l \in ClientListings}

KeySymmetry == Permutations(Keys)
=============================================================================
