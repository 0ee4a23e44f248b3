------------------------------- MODULE Market -------------------------------
(***************************************************************************)
(* The marketplace (server/market.py): listing, buying and cancelling as   *)
(* durable intents, with the escrow that holds a buyer's essence between   *)
(* the acknowledgement of a purchase and its adjudication, the wallets,    *)
(* inventories and ledger the adjudication writes, the boot sweep that     *)
(* finishes escrows a crash left open (server/persistence.py), and the     *)
(* gift by which a tamer funds a soul from the API process                 *)
(* (server/routers/tamers.py).                                             *)
(*                                                                         *)
(* One action is one database transaction.  Essence and prices are in      *)
(* hundredths.                                                             *)
(***************************************************************************)
EXTENDS Inhabitants, IntentPump, Sequences

CONSTANTS
    Tamers,
    Operator,        \* the identity of a request that carries no custodian
    Items,
    ClientListings,  \* listing ids that clients choose
    Minted,          \* the listing field of a list request that names no id
    Requests,        \* the requests clients make
    NoRequest, NoListing, NoLot, NoActor,
    StartEssence, StartItems,
    StartMarket,     \* listings from before, under ids that clients chose
    Custodian,       \* souls.custodian_id: set with the soul's first save
    Gifts,           \* amounts a tamer may give a soul
    MaxGifts         \* bound: gifts in a behaviour

Actors == Souls \cup Tamers

(* An id is minted for the list intent that needs one, and never twice:    *)
(* it is that intent's key here.                                           *)
Listings == ClientListings \cup Keys

Lots == [item : Items, qty : Nat \ {0}, price : Nat]

(* by: intents.soul_id, the soul or tamer the identity acts as;            *)
(* custodian: intents.custodian_id; party: the buyer or seller named in    *)
(* the payload.                                                            *)
RequestType ==
    [kind : {"market_list"}, by : Actors, custodian : Tamers \cup {Operator},
     party : Actors, listing : ClientListings \cup {Minted}, lot : Lots]
    \cup
    [kind : {"market_buy", "market_cancel"}, by : Actors,
     custodian : Tamers \cup {Operator},
     party : Actors, listing : Listings, lot : {NoLot}]

ListingRows == [seller : Actors, lot : Lots]

LedgerRows ==
    [entry : {"debit", "credit", "tax", "memo"},
     intent : Keys \cup {"fund-soul"}, actor : Actors \cup {NoActor}, amount : Nat]

ASSUME ActorsDisjoint == Souls \cap Tamers = {} /\ Operator \notin Tamers
ASSUME ListingsNamed ==
    /\ ClientListings \cap Keys = {}
    /\ Minted \notin Listings
    /\ NoListing \notin ListingRows
ASSUME RequestsTyped == Requests \subseteq RequestType /\ NoRequest \notin Requests
ASSUME StartTyped ==
    /\ StartEssence \in [Actors -> Nat]
    /\ StartItems \in [Actors -> [Items -> Nat]]
    /\ StartMarket \in [Listings -> ListingRows \cup {NoListing}]
    /\ \A k \in Keys : StartMarket[k] = NoListing
    /\ Custodian \in [Souls -> Tamers]
ASSUME WorldFinite ==
    /\ IsFiniteSet(Souls) /\ IsFiniteSet(Tamers)
    /\ IsFiniteSet({l \in Listings : StartMarket[l] # NoListing})
ASSUME GiftsTyped == Gifts \subseteq Nat \ {0} /\ MaxGifts \in Nat
ASSUME FundKeyDistinct == "fund-soul" \notin Keys

VARIABLES
    request,    \* intents.kind, payload and identity
    escrow,     \* escrows.status; "none" when the intent has no escrow row
    amount,     \* escrows.amount
    essence,    \* souls.essence and tamers.essence, the cached wallets
    inv,        \* soul_inventory and tamer_inventory quantities
    market,     \* the marketplace table
    fund,       \* globals.essence_fund
    ledger,     \* the ledger table, in order
    noted,      \* souls the journal last said are dormant
    gifts       \* gifts so far

worldVars == <<essence, inv, market, fund, ledger, noted>>
escrowVars == <<request, escrow, amount>>
vars == <<pumpVars, escrowVars, worldVars, gifts>>

Init ==
    /\ PumpInit
    /\ request = [k \in Keys |-> NoRequest]
    /\ escrow = [k \in Keys |-> "none"]
    /\ amount = [k \in Keys |-> 0]
    /\ essence = StartEssence
    /\ inv = StartItems
    /\ market = StartMarket
    /\ fund = 0
    /\ ledger = <<>>
    /\ noted = {s \in Souls : StartEssence[s] = 0}
    /\ gifts = 0

-----------------------------------------------------------------------------
(* Dormancy is derived from the wallet; a tamer is never dormant.          *)
Dormant(a) == a \in Souls /\ essence[a] <= 0

(* note_essence_change: the journal records each flip of a soul's          *)
(* dormancy, in the transaction that wrote its wallet.                     *)
Noting(a, balance) ==
    IF a \notin Souls THEN noted
    ELSE IF balance <= 0 THEN noted \cup {a} ELSE noted \ {a}

(* The identity of r may act as the party it names.                        *)
MayAct(r) ==
    \/ r.custodian = Operator
    \/ r.party = r.by
    \/ r.party \in Souls /\ Custodian[r.party] = r.custodian

MayCancel(r, seller) ==
    \/ r.custodian = Operator
    \/ r.by = seller
    \/ seller \in Souls /\ Custodian[seller] = r.custodian

(* The 2% tax, rounded to the nearest hundredth; which way a tie goes      *)
(* depends on the binary fraction of the product.                          *)
Taxes(price) == {t \in 0..price : 100 * t - 2 * price \in -50..50}

Row(entry, k, actor, sum) ==
    [entry |-> entry, intent |-> k, actor |-> actor, amount |-> sum]

Exists(l) == market[l] # NoListing
Price(l) == market[l].lot.price

-----------------------------------------------------------------------------
(* enqueue_market_intent: one transaction inserts the intent and, for a    *)
(* purchase, takes the price out of the wallet into an escrow.  A refusal  *)
(* rolls everything back.                                                  *)
Record(k, r) ==
    /\ Insert(k)
    /\ r \in Requests
    /\ request' = [request EXCEPT ![k] = r]

EnqueueList(k, r) ==
    /\ Record(k, r)
    /\ r.kind = "market_list"
    /\ MayAct(r)
    /\ ~Dormant(r.party)
    /\ UNCHANGED <<escrow, amount, worldVars, gifts>>

EnqueueBuy(k, r) ==
    /\ Record(k, r)
    /\ r.kind = "market_buy"
    /\ MayAct(r)
    /\ ~Dormant(r.party)
    /\ Exists(r.listing)
    /\ essence[r.party] >= Price(r.listing)
    /\ essence' = [essence EXCEPT ![r.party] = @ - Price(r.listing)]
    /\ noted' = Noting(r.party, essence[r.party] - Price(r.listing))
    /\ escrow' = [escrow EXCEPT ![k] = "held"]
    /\ amount' = [amount EXCEPT ![k] = Price(r.listing)]
    /\ UNCHANGED <<inv, market, fund, ledger, gifts>>

EnqueueCancel(k, r) ==
    /\ Record(k, r)
    /\ r.kind = "market_cancel"
    /\ ~Dormant(r.by)
    /\ Exists(r.listing)
    /\ MayCancel(r, market[r.listing].seller)
    /\ UNCHANGED <<escrow, amount, worldVars, gifts>>

(* A repeated key returns its row: no second hold, whatever it asks for.   *)
Resubmit(k) ==
    /\ Retry(k)
    /\ UNCHANGED <<escrowVars, worldVars, gifts>>

BeginPass ==
    /\ PumpBegin
    /\ UNCHANGED <<escrowVars, worldVars, gifts>>

-----------------------------------------------------------------------------
(* _apply_list.  The lot leaves the seller's inventory for the listing.    *)
(* An id a client chose is used as it is.                                  *)
ListingOf(k) == IF request[k].listing = Minted THEN k ELSE request[k].listing

(* Mutant: the seller's inventory is not looked at.                        *)
CanListUnbacked(k) == MayAct(request[k]) /\ ~Exists(ListingOf(k))

CanList(k) ==
    LET r == request[k] IN
    /\ MayAct(r)
    /\ inv[r.party][r.lot.item] >= r.lot.qty
    /\ ~Exists(ListingOf(k))

AdjudicateList(k) ==
    LET r == request[k] IN
    /\ Settle(k, "adjudicated")
    /\ NoFault
    /\ r.kind = "market_list"
    /\ CanList(k)
    /\ market' = [market EXCEPT ![ListingOf(k)] = [seller |-> r.party, lot |-> r.lot]]
    /\ inv' = [inv EXCEPT ![r.party][r.lot.item] = @ - r.lot.qty]
    /\ ledger' = Append(ledger, Row("memo", k, r.party, 0))
    /\ UNCHANGED <<escrowVars, essence, fund, noted, gifts>>

(* No custody or too few items is a refusal; an id already in the table    *)
(* makes the INSERT fail, which rolls back and rejects as "internal".      *)
RejectList(k) ==
    /\ Settle(k, "rejected")
    /\ NoFault
    /\ request[k].kind = "market_list"
    /\ ~CanList(k)
    /\ UNCHANGED <<escrowVars, worldVars, gifts>>

(* Mutant: the listing is not deleted.                                     *)
HandOverCopy(l, to) ==
    LET lot == market[l].lot IN
    /\ inv' = [inv EXCEPT ![to][lot.item] = @ + lot.qty]
    /\ UNCHANGED market

(* The lot of a listing goes to an actor, and the listing with it.         *)
HandOver(l, to) ==
    LET lot == market[l].lot IN
    /\ inv' = [inv EXCEPT ![to][lot.item] = @ + lot.qty]
    /\ market' = [market EXCEPT ![l] = NoListing]

(* _apply_cancel.  The lot goes back to the seller.                        *)
CanCancel(r) == Exists(r.listing) /\ MayCancel(r, market[r.listing].seller)

AdjudicateCancel(k) ==
    LET r == request[k] IN
    /\ Settle(k, "adjudicated")
    /\ NoFault
    /\ r.kind = "market_cancel"
    /\ CanCancel(r)
    /\ HandOver(r.listing, market[r.listing].seller)
    /\ ledger' = Append(ledger, Row("memo", k, r.by, 0))
    /\ UNCHANGED <<escrowVars, essence, fund, noted, gifts>>

RejectCancel(k) ==
    LET r == request[k] IN
    /\ Settle(k, "rejected")
    /\ NoFault
    /\ r.kind = "market_cancel"
    /\ ~CanCancel(r)
    /\ UNCHANGED <<escrowVars, worldVars, gifts>>

-----------------------------------------------------------------------------
(* _apply_buy.  The whole escrow is used up; the seller is credited the    *)
(* price the listing has now, less the tax.                                *)
Posting(k, price, tax) ==
    ledger' = ledger \o << Row("debit", k, request[k].party, price),
                           Row("credit", k, market[request[k].listing].seller, price - tax),
                           Row("tax", k, NoActor, tax) >>

(* Mutant: the seller's wallet is credited before tax.                     *)
PayGross(k, price, tax) ==
    LET seller == market[request[k].listing].seller IN
    /\ essence' = [essence EXCEPT ![seller] = @ + price]
    /\ noted' = Noting(seller, essence[seller] + price)
    /\ fund' = fund + tax
    /\ Posting(k, price, tax)

Pay(k, price, tax) ==
    LET seller == market[request[k].listing].seller IN
    /\ essence' = [essence EXCEPT ![seller] = @ + price - tax]
    /\ noted' = Noting(seller, essence[seller] + price - tax)
    /\ fund' = fund + tax
    /\ Posting(k, price, tax)

(* Mutant: any held amount will do.                                        *)
CoveredByAny(k) == escrow[k] = "held"

Covered(k) ==
    /\ escrow[k] = "held"
    /\ amount[k] >= Price(request[k].listing)

AdjudicateBuy(k) ==
    LET r == request[k] IN
    /\ Settle(k, "adjudicated")
    /\ NoFault
    /\ r.kind = "market_buy"
    /\ MayAct(r)
    /\ Exists(r.listing)
    /\ Covered(k)
    /\ \E tax \in Taxes(Price(r.listing)) : Pay(k, Price(r.listing), tax)
    /\ HandOver(r.listing, r.party)
    /\ escrow' = [escrow EXCEPT ![k] = "applied"]
    /\ UNCHANGED <<request, amount, gifts>>

(* Mutants: a refusal keeps the escrow; a refund is taxed like a sale.     *)
ReleaseNothing(k) == UNCHANGED <<essence, noted, escrow>>

ReleaseTaxed(k) ==
    LET buyer == request[k].party
        net == amount[k] - amount[k] \div 50 IN
    IF escrow[k] = "held"
    THEN /\ essence' = [essence EXCEPT ![buyer] = @ + net]
         /\ noted' = Noting(buyer, essence[buyer] + net)
         /\ escrow' = [escrow EXCEPT ![k] = "released"]
    ELSE UNCHANGED <<essence, noted, escrow>>

(* _release_escrow: a held amount goes back to the wallet, once.           *)
Release(k) ==
    LET buyer == request[k].party IN
    IF escrow[k] = "held"
    THEN /\ essence' = [essence EXCEPT ![buyer] = @ + amount[k]]
         /\ noted' = Noting(buyer, essence[buyer] + amount[k])
         /\ escrow' = [escrow EXCEPT ![k] = "released"]
    ELSE UNCHANGED <<essence, noted, escrow>>

(* The listing was sold or removed in the meantime, or the identity may    *)
(* no longer act for the buyer.  The check of custody comes first, and its *)
(* refusal does not release.                                               *)
RejectGone(k) ==
    LET r == request[k] IN
    /\ Settle(k, "rejected")
    /\ NoFault
    /\ r.kind = "market_buy"
    /\ ~(MayAct(r) /\ Exists(r.listing))
    /\ IF MayAct(r) THEN Release(k) ELSE UNCHANGED <<essence, noted, escrow>>
    /\ UNCHANGED <<request, amount, inv, market, fund, ledger, gifts>>

(* The listing costs more than was held.  The refusal comes after the      *)
(* DELETE of the listing and commits with it.                              *)
RejectShort(k) ==
    LET r == request[k] IN
    /\ Settle(k, "rejected")
    /\ NoFault
    /\ r.kind = "market_buy"
    /\ MayAct(r)
    /\ Exists(r.listing)
    /\ ~Covered(k)
    /\ market' = [market EXCEPT ![r.listing] = NoListing]
    /\ Release(k)
    /\ UNCHANGED <<request, amount, inv, fund, ledger, gifts>>

-----------------------------------------------------------------------------
(* The settling transaction fails, and then                                *)
(*   _compensate_reject releases the escrow and rejects the intent; or     *)
(*   it cannot begin its transaction, its exception reaches the pump, and  *)
(*   the pump's own _reject marks the row without knowing of the escrow;   *)
(*   or nothing can be written and the intent stays pending.               *)
Compensate(k) ==
    /\ Settle(k, "rejected")
    /\ Fault
    /\ Release(k)
    /\ UNCHANGED <<request, amount, inv, market, fund, ledger, gifts>>

RejectUncompensated(k) ==
    /\ Settle(k, "rejected")
    /\ Fault
    /\ UNCHANGED <<escrowVars, worldVars, gifts>>

LeavePending(k) ==
    /\ Postpone(k)
    /\ UNCHANGED <<escrowVars, worldVars, gifts>>

StopTicking ==
    /\ LoopEnds
    /\ UNCHANGED <<escrowVars, worldVars, gifts>>

CrashSim ==
    /\ Crash
    /\ UNCHANGED <<escrowVars, worldVars, gifts>>

(* reconcile_escrows, one escrow at a time: an escrow whose intent is      *)
(* settled is finished off.  The refund here does not note the change.     *)
(* Mutant: the boot sweep takes open purchases for unfinished ones.        *)
UnfinishedAny(k) == escrow[k] = "held"

Unfinished(k) == escrow[k] = "held" /\ status[k] # "pending"

Reconcile(k) ==
    LET applied == status[k] = "adjudicated" IN
    /\ ~up
    /\ Unfinished(k)
    /\ escrow' = [escrow EXCEPT ![k] = IF applied THEN "applied" ELSE "released"]
    /\ essence' = [essence EXCEPT
                     ![request[k].party] = IF applied THEN @ ELSE @ + amount[k]]
    /\ UNCHANGED <<pumpVars, request, amount, inv, market, fund, ledger,
                   noted, gifts>>

BootSim ==
    /\ Boot
    /\ \A k \in Keys : ~Unfinished(k)
    /\ UNCHANGED <<escrowVars, worldVars, gifts>>

(* fund_soul: a tamer's gift, written by the API process whether or not    *)
(* the sim is up, and in the middle of a pump pass as well.                *)
FundSoul(t, s, sum) ==
    /\ gifts < MaxGifts
    /\ Custodian[s] = t
    /\ essence[t] >= sum
    /\ essence' = [essence EXCEPT ![t] = @ - sum, ![s] = @ + sum]
    /\ noted' = Noting(s, essence[s] + sum)
    /\ ledger' = ledger \o << Row("debit", "fund-soul", t, sum),
                              Row("credit", "fund-soul", s, sum) >>
    /\ gifts' = gifts + 1
    /\ UNCHANGED <<pumpVars, escrowVars, inv, market, fund>>

-----------------------------------------------------------------------------
Enqueue(k) ==
    \E r \in Requests : EnqueueList(k, r) \/ EnqueueBuy(k, r) \/ EnqueueCancel(k, r)

AdjudicateIntent(k) ==
    \/ AdjudicateList(k)
    \/ RejectList(k)
    \/ AdjudicateCancel(k)
    \/ RejectCancel(k)
    \/ AdjudicateBuy(k)
    \/ RejectGone(k)
    \/ RejectShort(k)

FailedIntent(k) == Compensate(k) \/ RejectUncompensated(k) \/ LeavePending(k)

Next ==
    \/ \E k \in Keys : \/ Enqueue(k)
                       \/ Resubmit(k)
                       \/ AdjudicateIntent(k)
                       \/ FailedIntent(k)
                       \/ Reconcile(k)
    \/ BeginPass
    \/ StopTicking
    \/ CrashSim
    \/ BootSim
    \/ \E t \in Tamers, s \in Souls, sum \in Gifts : FundSoul(t, s, sum)

Fairness ==
    /\ WF_vars(BeginPass)
    /\ WF_vars(\E k \in Keys : AdjudicateIntent(k))
    /\ WF_vars(\E k \in Keys : Reconcile(k))
    /\ WF_vars(BootSim)

Spec == Init /\ [][Next]_vars

FairSpec == Spec /\ Fairness

-----------------------------------------------------------------------------
MarketTypeOK ==
    /\ PumpTypeOK
    /\ request \in [Keys -> Requests \cup {NoRequest}]
    /\ escrow \in [Keys -> {"none", "held", "applied", "released"}]
    /\ amount \in [Keys -> Nat]
    /\ essence \in [Actors -> Int]
    /\ inv \in [Actors -> [Items -> Int]]
    /\ market \in [Listings -> ListingRows \cup {NoListing}]
    /\ fund \in Nat
    /\ ledger \in Seq(LedgerRows)
    /\ noted \subseteq Souls
    /\ gifts \in Nat

(* No wallet and no inventory goes below zero: what a hold, a gift or a    *)
(* listing takes was there, whatever else was in flight.                   *)
NothingOverdrawn ==
    /\ \A a \in Actors : essence[a] >= 0
    /\ \A a \in Actors, i \in Items : inv[a][i] >= 0

(* The two tables that together say where a purchase is agree: a pending   *)
(* purchase is backed by held essence; an escrow is used up exactly when   *)
(* its purchase goes through, and returned only when it does not.          *)
Purchase(k) == request[k] # NoRequest /\ request[k].kind = "market_buy"

EscrowFollowsIntent ==
    \A k \in Keys :
        /\ escrow[k] = "none" <=> ~Purchase(k)
        /\ Purchase(k) /\ status[k] = "pending" => escrow[k] = "held"
        /\ escrow[k] = "applied" <=> Purchase(k) /\ status[k] = "adjudicated"
        /\ escrow[k] = "released" => status[k] = "rejected"

(* Held essence belongs to a purchase that is still to be decided, unless  *)
(* a write has failed since the last boot: every rejection releases its    *)
(* escrow in its own transaction, and the boot sweep leaves none behind.   *)
NoStrandedEscrow ==
    up /\ faults = 0 => \A k \in Keys : escrow[k] = "held" => status[k] = "pending"

(* A purchase is posted to the ledger once: an intent never has two rows   *)
(* of one kind, and only an adjudicated intent has any.                    *)
PostedOnce ==
    /\ \A i, j \in DOMAIN ledger :
          /\ ledger[i].intent \in Keys
          /\ ledger[i].intent = ledger[j].intent
          /\ ledger[i].entry = ledger[j].entry
          => i = j
    /\ \A i \in DOMAIN ledger :
          ledger[i].intent \in Keys => status[ledger[i].intent] = "adjudicated"

=============================================================================
