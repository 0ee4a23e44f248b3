---------------------------- MODULE MarketProofs ----------------------------
(***************************************************************************)
(* Proofs about the marketplace (Market), about what its tables add up to  *)
(* (MarketAccounts) and about the audit (MarketAudit): for any souls,      *)
(* tamers, requests, amounts and bounds, and any number of intents.        *)
(*                                                                         *)
(* The argument: every step of the market is a step of the pump, so the    *)
(* pump's invariant carries over (MarketPumps).  On top of it the          *)
(* inductive invariant MarketIInv ties each row of `intents` to its        *)
(* request, its escrow and its ledger rows.                                *)
(*                                                                         *)
(* For the accounts, a step of the market is seen through what each actor  *)
(* owns, its wallet and what is held for its purchases: then it is one of  *)
(* six moves (MarketStepMoves).  The sums follow from the moves by the     *)
(* lemmas of SumTheorems, and so does that the market implements Exchange. *)
(***************************************************************************)
EXTENDS MarketAudit, IntentPumpProofs, SequenceTheorems, SumTheorems

(* The row and the request come and go together, and the submitter of a    *)
(* purchase that is still pending may act for its buyer.                   *)
Recorded ==
    \A k \in Keys :
        /\ request[k] = NoRequest <=> status[k] = "absent"
        /\ Purchase(k) /\ status[k] = "pending" => MayAct(request[k])

MarketIInv ==
    /\ PumpIInv
    /\ batch \subseteq Pending
    /\ MarketTypeOK
    /\ Recorded
    /\ NothingOverdrawn
    /\ EscrowFollowsIntent
    /\ NoStrandedEscrow
    /\ PostedOnce

-----------------------------------------------------------------------------
(* What a request of the market is made of. *)
LEMMA RequestParts ==
    ASSUME NEW r \in Requests
    PROVE  /\ r # NoRequest
           /\ r.kind \in {"market_list", "market_buy", "market_cancel"}
           /\ r.by \in Actors /\ r.party \in Actors
           /\ r.kind = "market_list" =>
                r.lot \in Lots /\ r.listing \in ClientListings \cup {Minted}
           /\ r.kind # "market_list" => r.listing \in Listings
<1>1. r \in RequestType /\ r # NoRequest
  BY RequestsTyped
<1>2. QED
  BY <1>1 DEF RequestType

(* What a lot is made of. *)
LEMMA LotParts ==
    ASSUME NEW l \in Lots
    PROVE  l.item \in Items /\ l.qty \in Nat \ {0} /\ l.price \in Nat
BY DEF Lots

(* What a listing that exists is made of. *)
LEMMA ListingParts ==
    ASSUME MarketTypeOK, NEW l \in Listings, Exists(l)
    PROVE  /\ market[l].seller \in Actors
           /\ market[l].lot \in Lots
           /\ Price(l) \in Nat
           /\ market[l].lot.item \in Items
           /\ market[l].lot.qty \in Nat
<1>1. market[l] \in ListingRows
  BY DEF MarketTypeOK, Exists
<1>2. market[l].seller \in Actors /\ market[l].lot \in Lots
  BY <1>1 DEF ListingRows
<1>3. QED
  BY <1>2, LotParts DEF Price

(* An intent that is pending has its request. *)
LEMMA PendingRequest ==
    ASSUME MarketTypeOK, Recorded, NEW k \in Keys, status[k] = "pending"
    PROVE  request[k] \in Requests
BY DEF MarketTypeOK, Recorded

(* A purchase names a buyer and a listing. *)
LEMMA PurchaseRequest ==
    ASSUME MarketTypeOK, NEW k \in Keys, Purchase(k)
    PROVE  /\ request[k] \in Requests
           /\ request[k].party \in Actors
           /\ request[k].listing \in Listings
<1>1. request[k] \in Requests
  BY DEF MarketTypeOK, Purchase
<1>2. QED
  BY <1>1, RequestParts DEF Purchase

(* A tax is a part of its price. *)
LEMMA TaxIsPart ==
    ASSUME NEW price \in Nat, NEW tax \in Taxes(price)
    PROVE  tax \in Nat /\ tax <= price /\ price - tax \in Nat
<1>1. tax \in 0..price
  BY DEF Taxes
<1>2. QED
  BY <1>1

(* A row of the ledger is one, and keeps its kind and its intent. *)
LEMMA LedgerRowTyped ==
    ASSUME NEW entry \in {"debit", "credit", "tax", "memo"},
           NEW k \in Keys \cup {"fund-soul"},
           NEW a \in Actors \cup {NoActor}, NEW sum \in Nat
    PROVE  /\ Row(entry, k, a, sum) \in LedgerRows
           /\ Row(entry, k, a, sum).entry = entry
           /\ Row(entry, k, a, sum).intent = k
BY DEF Row, LedgerRows

-----------------------------------------------------------------------------
(* Every step of the market is a step of the pump, none of whose handlers  *)
(* raises after its commit, or leaves the pump alone.                      *)
LEMMA MarketStepPumps ==
    ASSUME [Next]_vars
    PROVE  [QuietNext]_pumpVars
<1>1. ASSUME NEW k \in Keys, NEW outcome \in Settled, Settle(k, outcome), NoFault
      PROVE  QuietNext
  BY <1>1 DEF QuietNext, Adjudicate
<1>2. ASSUME NEW k \in Keys, Settle(k, "rejected"), Fault PROVE QuietNext
  BY <1>2 DEF QuietNext, RejectInternal, Settle
<1>3. ASSUME NEW k \in Keys, Enqueue(k) PROVE QuietNext
  BY <1>3 DEF Enqueue, EnqueueList, EnqueueBuy, EnqueueCancel, Record, QuietNext
<1>4. ASSUME NEW k \in Keys, Resubmit(k) PROVE QuietNext
  BY <1>4 DEF Resubmit, QuietNext
<1>5. ASSUME NEW k \in Keys, AdjudicateIntent(k) PROVE QuietNext
  <2>1. \E outcome \in Settled : Settle(k, outcome) /\ NoFault
    BY <1>5, Zenon DEF AdjudicateIntent, AdjudicateList, RejectList, AdjudicateCancel,
              RejectCancel, AdjudicateBuy, RejectGone, RejectShort, Settled
  <2>2. QED
    BY <1>1, <2>1
<1>6. ASSUME NEW k \in Keys, FailedIntent(k) PROVE QuietNext
  BY <1>2, <1>6 DEF FailedIntent, Compensate, RejectUncompensated, LeavePending,
                    QuietNext
<1>7. CASE BeginPass \/ StopTicking \/ CrashSim \/ BootSim
  BY <1>7 DEF BeginPass, StopTicking, CrashSim, BootSim, QuietNext
<1>8. ASSUME NEW k \in Keys, Reconcile(k) PROVE UNCHANGED pumpVars
  BY <1>8 DEF Reconcile
<1>9. ASSUME NEW t \in Tamers, NEW s \in Souls, NEW sum \in Gifts, FundSoul(t, s, sum)
      PROVE  UNCHANGED pumpVars
  BY <1>9 DEF FundSoul
<1>10. CASE UNCHANGED vars
  BY <1>10 DEF vars
<1>11. QED
  BY <1>3, <1>4, <1>5, <1>6, <1>7, <1>8, <1>9, <1>10 DEF Next

(* The marketplace runs on the intent queue, and none of its handlers      *)
(* raises after its commit: each of its behaviours is one of such a pump,  *)
(* so what is proved of that pump holds of the market.                     *)
THEOREM MarketPumps == Spec => QuietSpec
<1>1. Init => PumpInit
  BY DEF Init
<1>2. QED
  BY <1>1, MarketStepPumps, PTL DEF Spec, QuietSpec

-----------------------------------------------------------------------------
(* Which rows, requests and escrows belong together.                       *)
Books == Recorded /\ EscrowFollowsIntent /\ NoStrandedEscrow

(* What an adjudication does with the escrow of the row it settles.        *)
Concludes(k, outcome) ==
    \/ /\ Purchase(k) /\ outcome = "adjudicated"
       /\ escrow' = [escrow EXCEPT ![k] = "applied"]
    \/ /\ Purchase(k) /\ outcome = "rejected"
       /\ escrow' = [escrow EXCEPT ![k] = "released"]
    \/ ~Purchase(k) /\ UNCHANGED escrow
    \/ outcome = "rejected" /\ Fault /\ UNCHANGED escrow

(* Settling an intent with its escrow concluded keeps the books of the
   escrows. *)
LEMMA SettleBooks ==
    ASSUME MarketIInv, NEW k \in Keys, NEW outcome \in Settled,
           Settle(k, outcome), NoFault \/ Fault,
           UNCHANGED request, Concludes(k, outcome)
    PROVE  Books'
<1> USE DEF MarketIInv, MarketTypeOK, PumpTypeOK, Settle, Settled
<1>1. Recorded'
  BY DEF Recorded, Purchase, MayAct
<1>2. EscrowFollowsIntent'
  BY DEF EscrowFollowsIntent, Purchase, Concludes
<1>3. NoStrandedEscrow'
  BY DEF NoStrandedEscrow, EscrowFollowsIntent, Purchase, Concludes, Fault, NoFault
<1>4. QED
  BY <1>1, <1>2, <1>3 DEF Books

(* Releasing the escrow of a rejected intent concludes it. *)
LEMMA ReleaseConcludes ==
    ASSUME MarketIInv, NEW k \in Keys, Settle(k, "rejected"), Release(k)
    PROVE  Concludes(k, "rejected")
BY DEF MarketIInv, EscrowFollowsIntent, Settle, Release, Concludes

(* A step that leaves the intents and the escrows keeps the books of the
   escrows. *)
LEMMA SameBooks ==
    ASSUME MarketIInv, UNCHANGED <<status, request, escrow>>,
           up' /\ faults' = 0 => up /\ faults = 0
    PROVE  Books'
<1> USE DEF MarketIInv
<1>1. Recorded'
  BY DEF Recorded, Purchase, MayAct
<1>2. EscrowFollowsIntent'
  BY DEF EscrowFollowsIntent, Purchase
<1>3. NoStrandedEscrow'
  BY DEF NoStrandedEscrow
<1>4. QED
  BY <1>1, <1>2, <1>3 DEF Books

(* Taking in a request keeps the books of the escrows. *)
LEMMA EnqueueBooks ==
    ASSUME MarketIInv, NEW k \in Keys, Enqueue(k)
    PROVE  Books'
<1>1. PICK r \in Requests : EnqueueList(k, r) \/ EnqueueBuy(k, r) \/ EnqueueCancel(k, r)
  BY DEF Enqueue
<1>2. /\ status[k] = "absent" /\ status' = [status EXCEPT ![k] = "pending"]
      /\ request[k] = NoRequest /\ request' = [request EXCEPT ![k] = r]
      /\ UNCHANGED <<up, faults>>
  BY <1>1 DEF EnqueueList, EnqueueBuy, EnqueueCancel, Record, Insert, MarketIInv,
              Recorded
<1>3. /\ r.kind = "market_buy" => MayAct(r)
      /\ r.kind = "market_buy" => escrow' = [escrow EXCEPT ![k] = "held"]
      /\ r.kind # "market_buy" => UNCHANGED escrow
  BY <1>1 DEF EnqueueList, EnqueueBuy, EnqueueCancel
<1>4. r # NoRequest
  BY RequestParts
<1> USE <1>2, <1>3, <1>4 DEF MarketIInv, MarketTypeOK, PumpTypeOK
<1>5. Recorded'
  BY DEF Recorded, Purchase, MayAct
<1>6. escrow[k] = "none"
  BY DEF EscrowFollowsIntent, Purchase
<1>7. EscrowFollowsIntent'
  BY <1>6 DEF EscrowFollowsIntent, Purchase
<1>8. NoStrandedEscrow'
  BY <1>6 DEF NoStrandedEscrow
<1>9. QED
  BY <1>5, <1>7, <1>8 DEF Books

(* Every step keeps the books of the escrows. *)
LEMMA BooksStep ==
    ASSUME MarketIInv, [Next]_vars
    PROVE  Books'
<1>1. ASSUME NEW k \in Keys, Enqueue(k) PROVE Books'
  BY <1>1, EnqueueBooks
<1>2. ASSUME NEW k \in Keys, Resubmit(k) PROVE Books'
  BY <1>2, SameBooks DEF Resubmit, Retry, escrowVars
<1>3. ASSUME NEW k \in Keys,
             AdjudicateList(k) \/ RejectList(k) \/ AdjudicateCancel(k) \/ RejectCancel(k)
      PROVE  Books'
  <2>1. PICK outcome \in Settled : Settle(k, outcome) /\ NoFault
    BY <1>3 DEF AdjudicateList, RejectList, AdjudicateCancel, RejectCancel, Settled
  <2>2. ~Purchase(k) /\ UNCHANGED <<request, escrow>>
    BY <1>3 DEF AdjudicateList, RejectList, AdjudicateCancel, RejectCancel,
                Purchase, escrowVars
  <2>3. QED
    BY <2>1, <2>2, SettleBooks DEF Concludes
<1>4. ASSUME NEW k \in Keys, AdjudicateBuy(k) PROVE Books'
  <2>1. Purchase(k)
    BY <1>4, PendingRequest, RequestParts
       DEF AdjudicateBuy, Purchase, MarketIInv, Settle
  <2>2. QED
    BY <1>4, <2>1, SettleBooks DEF AdjudicateBuy, Concludes, Settled
<1>5. ASSUME NEW k \in Keys, RejectGone(k) PROVE Books'
  <2>1. Purchase(k) /\ status[k] = "pending"
    BY <1>5, PendingRequest, RequestParts
       DEF RejectGone, Purchase, MarketIInv, Settle
  <2>2. MayAct(request[k])
    BY <2>1 DEF MarketIInv, Recorded
  <2>3. Release(k)
    BY <1>5, <2>2 DEF RejectGone
  <2>4. QED
    BY <1>5, <2>3, ReleaseConcludes, SettleBooks DEF RejectGone, Settled
<1>6. ASSUME NEW k \in Keys, RejectShort(k) \/ Compensate(k) PROVE Books'
  BY <1>6, ReleaseConcludes, SettleBooks DEF RejectShort, Compensate, Settled
<1>7. ASSUME NEW k \in Keys, RejectUncompensated(k) PROVE Books'
  BY <1>7, SettleBooks DEF RejectUncompensated, Concludes, Settled, escrowVars
<1>8. ASSUME NEW k \in Keys, LeavePending(k) PROVE Books'
  <2>1. faults' # 0
    BY <1>8 DEF LeavePending, Postpone, Fault, MarketIInv, MarketTypeOK, PumpTypeOK
  <2>2. QED
    BY <1>8, <2>1, SameBooks DEF LeavePending, Postpone, escrowVars
<1>9. CASE BeginPass
  BY <1>9, SameBooks DEF BeginPass, PumpBegin, escrowVars
<1>10. CASE StopTicking \/ CrashSim
  <2>1. StopTicking => faults' # 0
    BY DEF StopTicking, LoopEnds, Fault, MarketIInv, MarketTypeOK, PumpTypeOK
  <2>2. QED
    BY <1>10, <2>1, SameBooks DEF StopTicking, LoopEnds, CrashSim, Crash, escrowVars
<1>11. ASSUME NEW k \in Keys, Reconcile(k) PROVE Books'
  <2>1. /\ UNCHANGED <<status, up, request>> /\ ~up
        /\ escrow[k] = "held" /\ status[k] # "pending"
        /\ escrow' = [escrow EXCEPT ![k] = IF status[k] = "adjudicated"
                                           THEN "applied" ELSE "released"]
    BY <1>11 DEF Reconcile, Unfinished, pumpVars
  <2>2. Recorded'
    BY <2>1 DEF MarketIInv, Recorded, Purchase, MayAct
  <2>3. Purchase(k) /\ status[k] = "rejected"
    BY <2>1 DEF MarketIInv, EscrowFollowsIntent, Recorded, MarketTypeOK, PumpTypeOK,
                Statuses, Settled, Purchase
  <2>4. EscrowFollowsIntent'
    BY <2>1, <2>3 DEF MarketIInv, EscrowFollowsIntent, Purchase, MarketTypeOK
  <2>5. QED
    BY <2>1, <2>2, <2>4 DEF Books, NoStrandedEscrow
<1>12. CASE BootSim
  <2>1. /\ UNCHANGED <<status, request, escrow>>
        /\ \A k \in Keys : escrow[k] = "held" => status[k] = "pending"
    BY <1>12 DEF BootSim, Boot, Unfinished, escrowVars
  <2>2. Recorded' /\ EscrowFollowsIntent' /\ NoStrandedEscrow'
    BY <2>1 DEF MarketIInv, Recorded, EscrowFollowsIntent, NoStrandedEscrow,
                Purchase, MayAct
  <2>3. QED
    BY <2>2 DEF Books
<1>13. ASSUME NEW t \in Tamers, NEW s \in Souls, NEW sum \in Gifts, FundSoul(t, s, sum)
       PROVE  Books'
  BY <1>13, SameBooks DEF FundSoul, pumpVars, escrowVars
<1>14. CASE UNCHANGED vars
  BY <1>14, SameBooks DEF vars, pumpVars, escrowVars
<1>15. QED
  BY <1>1, <1>2, <1>3, <1>4, <1>5, <1>6, <1>7, <1>8, <1>9, <1>10, <1>11, <1>12,
     <1>13, <1>14 DEF Next, AdjudicateIntent, FailedIntent

-----------------------------------------------------------------------------
(* A wallet that is changed is that of one actor, or of the two ends of a  *)
(* gift, and what is taken was there.                                      *)
Wallets == essence \in [Actors -> Int] /\ \A a \in Actors : essence[a] >= 0

Shelves ==
    /\ inv \in [Actors -> [Items -> Int]]
    /\ \A a \in Actors, i \in Items : inv[a][i] >= 0

(* A payment to or from one wallet leaves every wallet a natural number. *)
LEMMA WalletMoves ==
    ASSUME Wallets, NEW a \in Actors, NEW sum \in Int, essence[a] + sum >= 0,
           essence' = [essence EXCEPT ![a] = @ + sum]
    PROVE  Wallets'
BY DEF Wallets

(* A released escrow goes back to a wallet. *)
LEMMA ReleaseKeeps ==
    ASSUME MarketIInv, NEW k \in Keys, Release(k)
    PROVE  Wallets'
<1>1. CASE escrow[k] = "held"
  <2>1. request[k].party \in Actors
    BY <1>1, PurchaseRequest DEF MarketIInv, EscrowFollowsIntent
  <2>2. amount[k] \in Nat
    BY DEF MarketIInv, MarketTypeOK
  <2>3. essence' = [essence EXCEPT ![request[k].party] = @ + amount[k]]
    BY <1>1 DEF Release
  <2>4. Wallets
    BY DEF Wallets, MarketIInv, MarketTypeOK, NothingOverdrawn
  <2>5. QED
    BY <2>1, <2>2, <2>3, <2>4 DEF Wallets
<1>2. CASE escrow[k] # "held"
  BY <1>2 DEF Release, Wallets, MarketIInv, MarketTypeOK, NothingOverdrawn
<1>3. QED
  BY <1>1, <1>2

(* Every step leaves every wallet a natural number. *)
LEMMA WalletsStep ==
    ASSUME MarketIInv, [Next]_vars
    PROVE  Wallets'
<1> USE DEF MarketIInv, MarketTypeOK, NothingOverdrawn
<1>0. Wallets
  BY DEF Wallets
<1>1. ASSUME UNCHANGED essence PROVE Wallets'
  BY <1>0, <1>1 DEF Wallets
<1>2. ASSUME NEW k \in Keys, NEW r \in Requests, EnqueueBuy(k, r) PROVE Wallets'
  <2>1. r.party \in Actors /\ Price(r.listing) \in Nat
    BY <1>2, RequestParts, ListingParts DEF EnqueueBuy
  <2>2. QED
    BY <1>0, <1>2, <2>1 DEF EnqueueBuy, Wallets
<1>3. ASSUME NEW k \in Keys, AdjudicateBuy(k) PROVE Wallets'
  <2> DEFINE row == market[request[k].listing]
             price == row.lot.price
  <2>1. request[k].listing \in Listings /\ Exists(request[k].listing)
    BY <1>3, PendingRequest, RequestParts DEF AdjudicateBuy, Settle
  <2>2. row.seller \in Actors /\ price \in Nat
    BY <2>1, ListingParts DEF Price
  <2>3. PICK tax \in Taxes(price) :
            essence' = [essence EXCEPT ![row.seller] = @ + price - tax]
    BY <1>3 DEF AdjudicateBuy, Pay, Price
  <2>4. tax \in 0..price
    BY DEF Taxes
  <2>5. essence[row.seller] \in Int /\ essence[row.seller] >= 0
    BY <2>2
  <2> HIDE DEF row, price
  <2>6. essence[row.seller] + price - tax = essence[row.seller] + (price - tax)
    BY <2>2, <2>4, <2>5
  <2>7. price - tax \in Int /\ essence[row.seller] + (price - tax) >= 0
    BY <2>2, <2>4, <2>5
  <2>8. essence' = [essence EXCEPT ![row.seller] = @ + (price - tax)]
    BY <2>3, <2>6
  <2>9. QED
    BY <1>0, <2>2, <2>7, <2>8, WalletMoves
<1>4. ASSUME NEW k \in Keys, Release(k) PROVE Wallets'
  BY <1>4, ReleaseKeeps
<1>5. ASSUME NEW k \in Keys, Reconcile(k) PROVE Wallets'
  <2>1. request[k].party \in Actors
    BY <1>5, PurchaseRequest DEF Reconcile, Unfinished, EscrowFollowsIntent
  <2>2. amount[k] \in Nat
    OBVIOUS
  <2>3. QED
    BY <1>0, <1>5, <2>1, <2>2 DEF Reconcile, Wallets
<1>6. ASSUME NEW t \in Tamers, NEW s \in Souls, NEW sum \in Gifts, FundSoul(t, s, sum)
      PROVE  Wallets'
  <2>1. t \in Actors /\ s \in Actors /\ s # t /\ sum \in Nat
    BY GiftsTyped, ActorsDisjoint DEF Actors
  <2>2. /\ essence[t] >= sum
        /\ essence' = [essence EXCEPT ![t] = @ - sum, ![s] = @ + sum]
    BY <1>6 DEF FundSoul
  <2>3. essence'[t] = essence[t] - sum /\ essence'[s] = essence[s] + sum
    BY <1>0, <2>1, <2>2 DEF Wallets
  <2>4. \A a \in Actors \ {s, t} : essence'[a] = essence[a]
    BY <1>0, <2>1, <2>2 DEF Wallets
  <2>5. \A a \in Actors : essence'[a] \in Int /\ essence'[a] >= 0
    BY <1>0, <2>1, <2>2, <2>3, <2>4 DEF Wallets
  <2>6. QED
    BY <1>0, <2>2, <2>5 DEF Wallets
<1>7. ASSUME NEW k \in Keys, Enqueue(k) PROVE Wallets'
  BY <1>1, <1>2, <1>7 DEF Enqueue, EnqueueList, EnqueueCancel, worldVars
<1>8. ASSUME NEW k \in Keys, AdjudicateIntent(k) \/ FailedIntent(k) PROVE Wallets'
  BY <1>1, <1>3, <1>4, <1>8
     DEF AdjudicateIntent, FailedIntent, AdjudicateList, RejectList,
         AdjudicateCancel, RejectCancel, RejectGone, RejectShort, Compensate,
         RejectUncompensated, LeavePending, worldVars
<1>9. ASSUME \/ \E k \in Keys : Resubmit(k)
             \/ BeginPass \/ StopTicking \/ CrashSim \/ BootSim \/ UNCHANGED vars
      PROVE  Wallets'
  BY <1>1, <1>9 DEF Resubmit, BeginPass, StopTicking, CrashSim, BootSim, worldVars, vars
<1>10. QED
  BY <1>5, <1>6, <1>7, <1>8, <1>9 DEF Next

(* What is put on a shelf leaves every inventory a natural number of each
   item. *)
LEMMA ShelfGains ==
    ASSUME Shelves, NEW a \in Actors, NEW i \in Items, NEW qty \in Nat,
           inv' = [inv EXCEPT ![a][i] = @ + qty]
    PROVE  Shelves'
<1>1. inv' \in [Actors -> [Items -> Int]]
  BY DEF Shelves
<1>2. ASSUME NEW b \in Actors, NEW j \in Items PROVE inv'[b][j] >= 0
  <2>1. inv[b][j] \in Int /\ inv[b][j] >= 0
    BY DEF Shelves
  <2>2. inv'[b][j] = inv[b][j] \/ inv'[b][j] = inv[b][j] + qty
    BY DEF Shelves
  <2>3. QED
    BY <2>1, <2>2
<1>3. QED
  BY <1>1, <1>2 DEF Shelves

(* Every step leaves every inventory a natural number of each item. *)
LEMMA ShelvesStep ==
    ASSUME MarketIInv, [Next]_vars
    PROVE  Shelves'
<1> USE DEF MarketIInv, MarketTypeOK, NothingOverdrawn
<1>0. Shelves
  BY DEF Shelves
<1>1. ASSUME UNCHANGED inv PROVE Shelves'
  BY <1>0, <1>1 DEF Shelves
<1>2. ASSUME NEW k \in Keys, AdjudicateList(k) PROVE Shelves'
  <2> DEFINE r == request[k]
  <2>1. r.party \in Actors /\ r.lot.item \in Items /\ r.lot.qty \in Nat
    BY <1>2, PendingRequest, RequestParts, LotParts DEF AdjudicateList, Settle
  <2>2. inv[r.party][r.lot.item] >= r.lot.qty
    BY <1>2 DEF AdjudicateList, CanList
  <2>3. inv' = [inv EXCEPT ![r.party][r.lot.item] = @ - r.lot.qty]
    BY <1>2 DEF AdjudicateList
  <2> HIDE DEF r
  <2>4. QED
    BY <1>0, <2>1, <2>2, <2>3 DEF Shelves
<1>3. ASSUME NEW k \in Keys, AdjudicateCancel(k) PROVE Shelves'
  <2> DEFINE row == market[request[k].listing]
  <2>1. request[k].listing \in Listings /\ Exists(request[k].listing)
    BY <1>3, PendingRequest, RequestParts DEF AdjudicateCancel, Settle, CanCancel
  <2>2. row.seller \in Actors /\ row.lot.item \in Items /\ row.lot.qty \in Nat
    BY <2>1, ListingParts
  <2>3. inv' = [inv EXCEPT ![row.seller][row.lot.item] = @ + row.lot.qty]
    BY <1>3 DEF AdjudicateCancel, HandOver
  <2> HIDE DEF row
  <2>4. QED
    BY <1>0, <2>2, <2>3, ShelfGains
<1>4. ASSUME NEW k \in Keys, AdjudicateBuy(k) PROVE Shelves'
  <2> DEFINE r == request[k]
             row == market[r.listing]
  <2>1. r.party \in Actors /\ r.listing \in Listings /\ Exists(r.listing)
    BY <1>4, PendingRequest, RequestParts DEF AdjudicateBuy, Settle
  <2>2. row.lot.item \in Items /\ row.lot.qty \in Nat
    BY <2>1, ListingParts
  <2>3. inv' = [inv EXCEPT ![r.party][row.lot.item] = @ + row.lot.qty]
    BY <1>4 DEF AdjudicateBuy, HandOver
  <2> HIDE DEF r, row
  <2>4. QED
    BY <1>0, <2>1, <2>2, <2>3, ShelfGains
<1>5. ASSUME NEW k \in Keys, Enqueue(k) \/ Resubmit(k) PROVE Shelves'
  BY <1>1, <1>5 DEF Enqueue, EnqueueList, EnqueueBuy, EnqueueCancel, Resubmit, worldVars
<1>6. ASSUME NEW k \in Keys, AdjudicateIntent(k) PROVE Shelves'
  BY <1>1, <1>2, <1>3, <1>4, <1>6
     DEF AdjudicateIntent, RejectList, RejectCancel, RejectGone, RejectShort, worldVars
<1>7. ASSUME NEW k \in Keys, FailedIntent(k) \/ Reconcile(k) PROVE Shelves'
  BY <1>1, <1>7 DEF FailedIntent, Compensate, RejectUncompensated, LeavePending,
                    Reconcile, worldVars
<1>8. ASSUME \/ BeginPass \/ StopTicking \/ CrashSim \/ BootSim \/ UNCHANGED vars
             \/ \E t \in Tamers, s \in Souls, sum \in Gifts : FundSoul(t, s, sum)
      PROVE  Shelves'
  BY <1>1, <1>8 DEF BeginPass, StopTicking, CrashSim, BootSim, FundSoul, worldVars, vars
<1>9. QED
  BY <1>5, <1>6, <1>7, <1>8 DEF Next

-----------------------------------------------------------------------------
(* Rows of one intent are posted together, when it is adjudicated.         *)
Posts(k, rows) ==
    /\ rows \in Seq(LedgerRows)
    /\ \A j \in DOMAIN rows : rows[j].intent = k
    /\ ledger' = ledger \o rows
    /\ k \in Keys =>
         /\ \A i, j \in DOMAIN rows : rows[i].entry = rows[j].entry => i = j
         /\ status[k] = "pending"
         /\ status' = [status EXCEPT ![k] = "adjudicated"]
    /\ k \notin Keys => UNCHANGED status

LedgerOK == ledger \in Seq(LedgerRows) /\ PostedOnce

(* Rows posted under an intent that had none keep the ledger right. *)
LEMMA PostingKeeps ==
    ASSUME LedgerOK, status \in [Keys -> Statuses], NEW k, NEW rows, Posts(k, rows)
    PROVE  LedgerOK'
<1> DEFINE m == Len(ledger)
           n == Len(rows)
<1>1. /\ m \in Nat /\ DOMAIN ledger = 1..m
      /\ n \in Nat /\ DOMAIN rows = 1..n
  BY LenProperties DEF LedgerOK, Posts
<1>2. ledger' \in Seq(LedgerRows) /\ DOMAIN ledger' = 1..(m + n)
  BY ConcatProperties, LenProperties DEF LedgerOK, Posts
<1>3. \A i \in 1..m : ledger'[i] = ledger[i]
  BY ConcatProperties DEF LedgerOK, Posts
<1>4. \A i \in 1..(m + n) : i \notin 1..m => i - m \in 1..n /\ ledger'[i] = rows[i - m]
  <2>1. \A i \in 1..(m + n) : i \notin 1..m => i - m \in 1..n /\ i > m
    BY <1>1
  <2>2. /\ ledger' = ledger \o rows
        /\ ledger \in Seq(LedgerRows) /\ rows \in Seq(LedgerRows)
    BY DEF LedgerOK, Posts
  <2>3. QED
    BY <2>1, <2>2, ConcatProperties
<1> HIDE DEF m, n
<1>5. \A i \in 1..m : ledger'[i].intent \in Keys =>
          status[ledger'[i].intent] = "adjudicated"
  BY <1>1, <1>3 DEF LedgerOK, PostedOnce
<1>6. \A i \in 1..(m + n) : i \notin 1..m => ledger'[i].intent = k
  BY <1>1, <1>4 DEF Posts
<1>7. \A i, j \in 1..(m + n) :
          ledger'[i].intent \in Keys /\ ledger'[i].intent = ledger'[j].intent
          => (i \in 1..m <=> j \in 1..m)
  BY <1>5, <1>6 DEF Posts
<1>8. \A i, j \in 1..m :
          /\ ledger'[i].intent \in Keys
          /\ ledger'[i].intent = ledger'[j].intent
          /\ ledger'[i].entry = ledger'[j].entry
          => i = j
  BY <1>1, <1>3 DEF LedgerOK, PostedOnce
<1>9. \A i, j \in 1..(m + n) :
          /\ i \notin 1..m /\ j \notin 1..m
          /\ ledger'[i].intent \in Keys
          /\ ledger'[i].entry = ledger'[j].entry
          => i = j
  <2> SUFFICES ASSUME NEW i \in 1..(m + n), NEW j \in 1..(m + n),
                      i \notin 1..m, j \notin 1..m,
                      ledger'[i].intent \in Keys,
                      ledger'[i].entry = ledger'[j].entry
               PROVE  i = j
    OBVIOUS
  <2>1. k \in Keys
    BY <1>6
  <2>2. \A a, b \in 1..n : rows[a].entry = rows[b].entry => a = b
    BY <1>1, <2>1 DEF Posts
  <2>3. i - m \in 1..n /\ j - m \in 1..n
    BY <1>4
  <2>4. rows[i - m].entry = rows[j - m].entry
    BY <1>4
  <2>5. i - m = j - m
    BY <2>2, <2>3, <2>4
  <2>6. QED
    BY <1>1, <2>5
<1>10. \A i \in 1..(m + n) : ledger'[i].intent \in Keys =>
          status'[ledger'[i].intent] = "adjudicated"
  BY <1>5, <1>6 DEF Posts
<1>11. PostedOnce'
  BY <1>2, <1>7, <1>8, <1>9, <1>10 DEF PostedOnce
<1>12. QED
  BY <1>2, <1>11 DEF LedgerOK

(* A step that posts nothing keeps the ledger right. *)
LEMMA SameLedger ==
    ASSUME MarketIInv, UNCHANGED ledger, [QuietNext]_pumpVars
    PROVE  LedgerOK'
<1>1. \A k \in Keys : status[k] = "adjudicated" => status'[k] = "adjudicated"
  BY QuietStepFinal DEF MarketIInv, MarketTypeOK, Settled
<1>2. QED
  BY <1>1 DEF MarketIInv, MarketTypeOK, LedgerOK, PostedOnce

(* Every step keeps the ledger right. *)
LEMMA LedgerStep ==
    ASSUME MarketIInv, [Next]_vars
    PROVE  LedgerOK'
<1>0. LedgerOK /\ status \in [Keys -> Statuses]
  BY DEF MarketIInv, MarketTypeOK, PumpTypeOK, LedgerOK
<1>1. ASSUME UNCHANGED ledger PROVE LedgerOK'
  BY <1>1, SameLedger, MarketStepPumps
<1>2. ASSUME NEW k \in Keys, AdjudicateList(k) \/ AdjudicateCancel(k) PROVE LedgerOK'
  <2>1. PICK a \in Actors : /\ ledger' = Append(ledger, Row("memo", k, a, 0))
                            /\ Settle(k, "adjudicated")
    BY <1>2, PendingRequest, RequestParts
       DEF AdjudicateList, AdjudicateCancel, Settle, MarketIInv
  <2> DEFINE row == Row("memo", k, a, 0)
  <2>2. row \in LedgerRows /\ row.intent = k
    BY LedgerRowTyped
  <2> HIDE DEF row
  <2>3. ledger' = ledger \o <<row>>
    BY <1>0, <2>1, <2>2, AppendIsConcat DEF LedgerOK, row
  <2>4. Posts(k, <<row>>)
    BY <2>1, <2>2, <2>3 DEF Posts, Settle
  <2>5. QED
    BY <1>0, <2>4, PostingKeeps
<1>3. ASSUME NEW k \in Keys, AdjudicateBuy(k) PROVE LedgerOK'
  <2> DEFINE seller == market[request[k].listing].seller
             price == market[request[k].listing].lot.price
  <2>1. request[k].party \in Actors /\ request[k].listing \in Listings
    BY <1>3, PendingRequest, RequestParts DEF AdjudicateBuy, Settle, MarketIInv
  <2>2. seller \in Actors /\ price \in Nat
    BY <1>3, <2>1, ListingParts DEF AdjudicateBuy, Price, MarketIInv
  <2>3. PICK tax \in Taxes(price) :
          ledger' = ledger \o << Row("debit", k, request[k].party, price),
                                 Row("credit", k, seller, price - tax),
                                 Row("tax", k, NoActor, tax) >>
    BY <1>3 DEF AdjudicateBuy, Pay, Posting, Price
  <2>4. tax \in Nat /\ price - tax \in Nat
    BY <2>2, TaxIsPart
  <2> DEFINE debit == Row("debit", k, request[k].party, price)
             credit == Row("credit", k, seller, price - tax)
             taxed == Row("tax", k, NoActor, tax)
  <2>5. /\ debit \in LedgerRows /\ debit.intent = k /\ debit.entry = "debit"
        /\ credit \in LedgerRows /\ credit.intent = k /\ credit.entry = "credit"
        /\ taxed \in LedgerRows /\ taxed.intent = k /\ taxed.entry = "tax"
    <3>1. debit \in LedgerRows /\ debit.intent = k /\ debit.entry = "debit"
      BY <2>1, <2>2, LedgerRowTyped
    <3>2. credit \in LedgerRows /\ credit.intent = k /\ credit.entry = "credit"
      BY <2>2, <2>4, LedgerRowTyped
    <3>3. taxed \in LedgerRows /\ taxed.intent = k /\ taxed.entry = "tax"
      BY <2>4, LedgerRowTyped
    <3>4. QED
      BY <3>1, <3>2, <3>3
  <2>6. Settle(k, "adjudicated") /\ ledger' = ledger \o <<debit, credit, taxed>>
    BY <1>3, <2>3 DEF AdjudicateBuy
  <2> HIDE DEF debit, credit, taxed
  <2>7. Posts(k, <<debit, credit, taxed>>)
    BY <2>5, <2>6 DEF Posts, Settle
  <2>8. QED
    BY <1>0, <2>7, PostingKeeps
<1>4. ASSUME NEW t \in Tamers, NEW s \in Souls, NEW sum \in Gifts, FundSoul(t, s, sum)
      PROVE  LedgerOK'
  <2> DEFINE debit == Row("debit", "fund-soul", t, sum)
             credit == Row("credit", "fund-soul", s, sum)
  <2>1. t \in Actors /\ s \in Actors /\ sum \in Nat
    BY GiftsTyped DEF Actors
  <2>2. /\ debit \in LedgerRows /\ debit.intent = "fund-soul"
        /\ credit \in LedgerRows /\ credit.intent = "fund-soul"
    BY <2>1, LedgerRowTyped
  <2>3. ledger' = ledger \o <<debit, credit>> /\ UNCHANGED status
    BY <1>4 DEF FundSoul, pumpVars
  <2> HIDE DEF debit, credit
  <2>4. Posts("fund-soul", <<debit, credit>>)
    BY <2>2, <2>3, FundKeyDistinct DEF Posts
  <2>5. QED
    BY <1>0, <2>4, PostingKeeps
<1>5. ASSUME NEW k \in Keys, Enqueue(k) \/ Resubmit(k) PROVE LedgerOK'
  BY <1>1, <1>5 DEF Enqueue, EnqueueList, EnqueueBuy, EnqueueCancel, Resubmit, worldVars
<1>6. ASSUME NEW k \in Keys, AdjudicateIntent(k) PROVE LedgerOK'
  BY <1>1, <1>2, <1>3, <1>6
     DEF AdjudicateIntent, RejectList, RejectCancel, RejectGone, RejectShort, worldVars
<1>7. ASSUME NEW k \in Keys, FailedIntent(k) \/ Reconcile(k) PROVE LedgerOK'
  BY <1>1, <1>7 DEF FailedIntent, Compensate, RejectUncompensated, LeavePending,
                    Reconcile, worldVars
<1>8. ASSUME BeginPass \/ StopTicking \/ CrashSim \/ BootSim \/ UNCHANGED vars PROVE LedgerOK'
  BY <1>1, <1>8 DEF BeginPass, StopTicking, CrashSim, BootSim, worldVars, vars
<1>9. QED
  BY <1>4, <1>5, <1>6, <1>7, <1>8 DEF Next

-----------------------------------------------------------------------------
(* The variables whose type no other lemma gives.                          *)
TablesTyped ==
    /\ request \in [Keys -> Requests \cup {NoRequest}]
    /\ escrow \in [Keys -> {"none", "held", "applied", "released"}]
    /\ amount \in [Keys -> Nat]
    /\ market \in [Listings -> ListingRows \cup {NoListing}]
    /\ fund \in Nat
    /\ noted \subseteq Souls
    /\ gifts \in Nat

(* Only souls are noted as changed. *)
LEMMA NotingSouls ==
    ASSUME noted \subseteq Souls, NEW a, NEW balance
    PROVE  Noting(a, balance) \subseteq Souls
BY DEF Noting

(* A release leaves every other table typed. *)
LEMMA ReleaseTables ==
    ASSUME TablesTyped, NEW k \in Keys, Release(k),
           UNCHANGED <<request, amount, fund, gifts>>,
           market' \in [Listings -> ListingRows \cup {NoListing}]
    PROVE  TablesTyped'
<1>1. noted' \subseteq Souls
  BY NotingSouls DEF Release, TablesTyped
<1>2. escrow' \in [Keys -> {"none", "held", "applied", "released"}]
  BY DEF Release, TablesTyped
<1>3. QED
  BY <1>1, <1>2 DEF TablesTyped

(* Every step leaves every other table typed. *)
LEMMA TablesStep ==
    ASSUME MarketIInv, [Next]_vars
    PROVE  TablesTyped'
<1>0. TablesTyped
  BY DEF MarketIInv, MarketTypeOK, TablesTyped
<1>1. ASSUME UNCHANGED <<escrowVars, market, fund, noted, gifts>> PROVE TablesTyped'
  BY <1>0, <1>1 DEF TablesTyped, escrowVars
<1>2. ASSUME NEW k \in Keys, NEW r \in Requests,
             EnqueueList(k, r) \/ EnqueueCancel(k, r)
      PROVE  TablesTyped'
  BY <1>0, <1>2 DEF TablesTyped, EnqueueList, EnqueueCancel, Record, worldVars
<1>3. ASSUME NEW k \in Keys, NEW r \in Requests, EnqueueBuy(k, r) PROVE TablesTyped'
  <2>1. Price(r.listing) \in Nat
    BY <1>3, RequestParts, ListingParts DEF EnqueueBuy, MarketIInv
  <2>2. noted' \subseteq Souls
    BY <1>0, <1>3, NotingSouls DEF TablesTyped, EnqueueBuy
  <2>3. QED
    BY <1>0, <1>3, <2>1, <2>2 DEF TablesTyped, EnqueueBuy, Record
<1>4. ASSUME NEW k \in Keys, AdjudicateList(k) PROVE TablesTyped'
  <2>1. /\ request[k].party \in Actors
        /\ request[k].lot \in Lots
        /\ request[k].listing \in ClientListings \cup {Minted}
    BY <1>4, PendingRequest, RequestParts DEF AdjudicateList, Settle, MarketIInv
  <2>2. [seller |-> request[k].party, lot |-> request[k].lot] \in ListingRows
    BY <2>1 DEF ListingRows
  <2>3. market' \in [Listings -> ListingRows \cup {NoListing}]
    BY <1>0, <1>4, <2>2 DEF AdjudicateList, TablesTyped
  <2>4. QED
    BY <1>0, <1>4, <2>3 DEF AdjudicateList, TablesTyped, escrowVars
<1>5. ASSUME NEW k \in Keys, AdjudicateCancel(k) PROVE TablesTyped'
  BY <1>0, <1>5 DEF AdjudicateCancel, HandOver, TablesTyped, escrowVars
<1>6. ASSUME NEW k \in Keys, AdjudicateBuy(k) PROVE TablesTyped'
  <2> DEFINE price == market[request[k].listing].lot.price
  <2>1. request[k].listing \in Listings
    BY <1>6, PendingRequest, RequestParts DEF AdjudicateBuy, Settle, MarketIInv
  <2>2. price \in Nat
    BY <1>6, <2>1, ListingParts DEF AdjudicateBuy, Price, MarketIInv
  <2>3. \E tax \in Taxes(price) : fund' = fund + tax
    BY <1>6 DEF AdjudicateBuy, Pay, Price
  <2>4. fund' \in Nat
    <3>1. PICK tax \in Taxes(price) : fund' = fund + tax
      BY <2>3
    <3>2. tax \in Nat /\ fund \in Nat
      BY <1>0, <2>2, TaxIsPart DEF TablesTyped
    <3>3. QED
      BY <3>1, <3>2
  <2>5. noted' \subseteq Souls
    BY <1>0, <1>6, NotingSouls DEF AdjudicateBuy, Pay, TablesTyped
  <2>6. QED
    BY <1>0, <1>6, <2>4, <2>5 DEF AdjudicateBuy, Pay, HandOver, TablesTyped
<1>7. ASSUME NEW k \in Keys, RejectGone(k) PROVE TablesTyped'
  BY <1>0, <1>7, ReleaseTables DEF RejectGone, TablesTyped
<1>8. ASSUME NEW k \in Keys, RejectShort(k) \/ Compensate(k) PROVE TablesTyped'
  BY <1>0, <1>8, ReleaseTables DEF RejectShort, Compensate, TablesTyped
<1>9. ASSUME NEW k \in Keys, Reconcile(k) PROVE TablesTyped'
  BY <1>0, <1>9 DEF Reconcile, TablesTyped
<1>10. ASSUME NEW t \in Tamers, NEW s \in Souls, NEW sum \in Gifts, FundSoul(t, s, sum)
       PROVE  TablesTyped'
  BY <1>0, <1>10, NotingSouls DEF FundSoul, TablesTyped, escrowVars
<1>11. ASSUME NEW k \in Keys,
              \/ Resubmit(k) \/ RejectList(k) \/ RejectCancel(k)
              \/ RejectUncompensated(k) \/ LeavePending(k)
       PROVE  TablesTyped'
  BY <1>1, <1>11 DEF Resubmit, RejectList, RejectCancel, RejectUncompensated,
                     LeavePending, worldVars
<1>12. ASSUME BeginPass \/ StopTicking \/ CrashSim \/ BootSim \/ UNCHANGED vars PROVE TablesTyped'
  BY <1>1, <1>12 DEF BeginPass, StopTicking, CrashSim, BootSim, worldVars, vars
<1>13. QED
  BY <1>2, <1>3, <1>4, <1>5, <1>6, <1>7, <1>8, <1>9, <1>10, <1>11, <1>12
     DEF Next, Enqueue, AdjudicateIntent, FailedIntent

-----------------------------------------------------------------------------
(* The market starts in the invariant. *)
LEMMA MarketInitInv == Init => MarketIInv
<1> SUFFICES ASSUME Init PROVE MarketIInv
  OBVIOUS
<1>1. PumpIInv /\ batch \subseteq Pending
  BY PumpInitInv DEF Init
<1>2. /\ status = [k \in Keys |-> "absent"]
      /\ request = [k \in Keys |-> NoRequest]
      /\ escrow = [k \in Keys |-> "none"]
      /\ ledger = <<>>
  BY DEF Init, PumpInit
<1>3. MarketTypeOK
  BY <1>1, StartTyped, EmptySeq DEF Init, MarketTypeOK, PumpIInv
<1>4. NothingOverdrawn
  BY StartTyped DEF Init, NothingOverdrawn
<1>5. Recorded /\ EscrowFollowsIntent /\ NoStrandedEscrow
  BY <1>2 DEF Recorded, EscrowFollowsIntent, NoStrandedEscrow, Purchase
<1>6. PostedOnce
  BY <1>2 DEF PostedOnce
<1>7. QED
  BY <1>1, <1>3, <1>4, <1>5, <1>6 DEF MarketIInv

(* Every step keeps the invariant of the market. *)
LEMMA MarketStepInv ==
    ASSUME MarketIInv, [Next]_vars
    PROVE  MarketIInv'
<1>1. PumpIInv' /\ (batch \subseteq Pending)'
  <2>1. [QuietNext]_pumpVars /\ [PumpNext]_pumpVars
    BY MarketStepPumps DEF PumpNext
  <2>2. QED
    BY <2>1, PumpStepInv, QuietStepInv DEF MarketIInv
<1>2. Books'
  BY BooksStep
<1>3. LedgerOK'
  BY LedgerStep
<1>4. Wallets' /\ Shelves'
  BY WalletsStep, ShelvesStep
<1>5. NothingOverdrawn'
  BY <1>4 DEF Wallets, Shelves, NothingOverdrawn
<1>6. MarketTypeOK'
  BY <1>1, <1>3, <1>4, TablesStep
     DEF MarketTypeOK, PumpIInv, LedgerOK, Wallets, Shelves, TablesTyped
<1>7. QED
  BY <1>1, <1>2, <1>3, <1>5, <1>6 DEF MarketIInv, Books, LedgerOK

(* Every reachable state of the market satisfies the invariant. *)
LEMMA MarketInvariant == Spec => []MarketIInv
BY MarketInitInv, MarketStepInv, PTL DEF Spec

(* Every table of the marketplace keeps its type; in particular the fund   *)
(* and every held amount stay natural numbers, whatever is listed, bought, *)
(* cancelled or given (market.py:281).                                     *)
THEOREM MarketTyped == Spec => []MarketTypeOK
<1>1. MarketIInv => MarketTypeOK
  BY DEF MarketIInv
<1>2. QED
  BY <1>1, MarketInvariant, PTL

(* No wallet and no inventory is ever overdrawn, by any interleaving of    *)
(* holds, sales, refunds, gifts, crashes and failed writes.                *)
THEOREM MarketSolvent == Spec => []NothingOverdrawn
<1>1. MarketIInv => NothingOverdrawn
  BY DEF MarketIInv
<1>2. QED
  BY <1>1, MarketInvariant, PTL

(* An escrow is held while its purchase is pending, used up exactly when   *)
(* the purchase goes through, and returned only when it does not: a buyer  *)
(* is never charged for a refused purchase and refunded for a granted one. *)
THEOREM PurchasesBacked == Spec => []EscrowFollowsIntent
<1>1. MarketIInv => EscrowFollowsIntent
  BY DEF MarketIInv
<1>2. QED
  BY <1>1, MarketInvariant, PTL

(* While no write has failed since the last boot, no essence is held for a *)
(* purchase that has been decided.                                         *)
THEOREM EscrowsReleased == Spec => []NoStrandedEscrow
<1>1. MarketIInv => NoStrandedEscrow
  BY DEF MarketIInv
<1>2. QED
  BY <1>1, MarketInvariant, PTL

(* No intent is ever posted to the ledger twice, and no refused one is.    *)
THEOREM LedgerPostedOnce == Spec => []PostedOnce
<1>1. MarketIInv => PostedOnce
  BY DEF MarketIInv
<1>2. QED
  BY <1>1, MarketInvariant, PTL

(* A listing, a purchase or a cancellation keeps its outcome, and an older *)
(* one is still pending behind a decided one only when its own writes      *)
(* failed at its turn (intents.py:368).                                    *)
THEOREM MarketDecidesInOrder == Spec => OutcomeFinal /\ []OldestFirst
BY MarketPumps, QuietPumps, QuietFinal, PumpOrdered, PTL

-----------------------------------------------------------------------------
(* The accounts.                                                           *)
LEMMA ActorsFinite == IsFiniteSet(Actors)
BY WorldFinite, FS_Union DEF Actors

-----------------------------------------------------------------------------
(* What is held for an actor changes with the row of one intent.           *)
HoldTypes ==
    /\ amount \in [Keys -> Nat]
    /\ request \in [Keys -> Requests \cup {NoRequest}]
    /\ escrow \in [Keys -> {"none", "held", "applied", "released"}]

(* The amounts held for an actor are integers over a finite set, and their
   sum is a natural number. *)
LEMMA HoldsFinite ==
    ASSUME HoldTypes, NEW a
    PROVE  /\ IsFiniteSet(Holds(a)) /\ Ints(amount, Holds(a))
           /\ Held(a) \in Nat
<1>1. IsFiniteSet(Holds(a))
  BY KeysFinite, FS_Subset DEF Holds
<1>2. Ints(amount, Holds(a)) /\ Nats(amount, Holds(a))
  BY DEF Holds, HoldTypes, Ints, Nats
<1>3. QED
  BY <1>1, <1>2, TotalNat DEF Held

(* The same holds of the same amounts have the same sum. *)
LEMMA SameHolds ==
    ASSUME HoldTypes,
           \A k \in Keys : escrow'[k] = "held" <=> escrow[k] = "held",
           \A k \in Keys : escrow[k] = "held" =>
               request'[k] = request[k] /\ amount'[k] = amount[k],
           NEW a
    PROVE  Held(a)' = Held(a)
<1>1. Holds(a)' = Holds(a)
  BY DEF Holds
<1>2. \A k \in Holds(a) : amount[k] = amount'[k]
  BY DEF Holds
<1>3. Total(amount, Holds(a)) = Total(amount', Holds(a))
  BY <1>2, HoldsFinite, TotalSame
<1>4. QED
  BY <1>1, <1>3 DEF Held

(* A new hold adds its amount to what is held for its buyer. *)
LEMMA HoldBegins ==
    ASSUME HoldTypes, HoldTypes', NEW k \in Keys, escrow[k] # "held",
           escrow' = [escrow EXCEPT ![k] = "held"],
           \A j \in Keys \ {k} : request'[j] = request[j] /\ amount'[j] = amount[j],
           NEW a
    PROVE  Held(a)' = Held(a) + IF request'[k].party = a THEN amount'[k] ELSE 0
<1>1. Holds(a) \ {k} = Holds(a)' \ {k}
  BY DEF Holds, HoldTypes
<1>2. \A j \in Holds(a) \ {k} : amount[j] = amount'[j]
  BY DEF Holds
<1>3. /\ IsFiniteSet(Holds(a)) /\ Ints(amount, Holds(a))
      /\ IsFiniteSet(Holds(a)') /\ Ints(amount', Holds(a)')
  <2>1. IsFiniteSet(Holds(a)') /\ Ints(amount', Holds(a)')
    BY KeysFinite, FS_Subset DEF HoldTypes, Holds, Ints
  <2>2. QED
    BY <2>1, HoldsFinite
<1>4. Total(amount', Holds(a)') =
        Total(amount, Holds(a)) - Part(amount, Holds(a), k) + Part(amount', Holds(a)', k)
  BY <1>1, <1>2, <1>3, TotalChange
<1>5. Part(amount, Holds(a), k) = 0
  BY DEF Part, Holds
<1>6. Part(amount', Holds(a)', k) = IF request'[k].party = a THEN amount'[k] ELSE 0
  BY DEF Part, Holds, HoldTypes
<1>7. Total(amount, Holds(a)) \in Int
  BY HoldsFinite DEF Held
<1>8. amount'[k] \in Int
  BY DEF HoldTypes
<1>9. QED
  BY <1>4, <1>5, <1>6, <1>7, <1>8 DEF Held

(* A hold that ends takes its amount from what is held for its buyer. *)
LEMMA HoldEnds ==
    ASSUME HoldTypes, NEW k \in Keys, escrow[k] = "held", NEW to, to # "held",
           escrow' = [escrow EXCEPT ![k] = to],
           UNCHANGED <<request, amount>>,
           NEW a
    PROVE  Held(a)' = Held(a) - IF request[k].party = a THEN amount[k] ELSE 0
<1>1. Holds(a) \ {k} = Holds(a)' \ {k}
  BY DEF Holds, HoldTypes
<1>2. /\ IsFiniteSet(Holds(a)) /\ Ints(amount, Holds(a))
      /\ IsFiniteSet(Holds(a)') /\ Ints(amount, Holds(a)')
  <2>1. IsFiniteSet(Holds(a)') /\ Ints(amount, Holds(a)')
    BY KeysFinite, FS_Subset DEF HoldTypes, Holds, Ints
  <2>2. QED
    BY <2>1, HoldsFinite
<1>3. Total(amount, Holds(a)') =
        Total(amount, Holds(a)) - Part(amount, Holds(a), k) + Part(amount, Holds(a)', k)
  BY <1>1, <1>2, TotalChange
<1>4. Part(amount, Holds(a)', k) = 0
  BY DEF Part, Holds, HoldTypes
<1>5. Part(amount, Holds(a), k) = IF request[k].party = a THEN amount[k] ELSE 0
  BY DEF Part, Holds
<1>6. Total(amount, Holds(a)) \in Int
  BY HoldsFinite DEF Held
<1>7. amount[k] \in Int
  BY DEF HoldTypes
<1>8. Held(a)' = Total(amount, Holds(a)')
  BY DEF Held
<1>9. QED
  BY <1>3, <1>4, <1>5, <1>6, <1>7, <1>8 DEF Held

-----------------------------------------------------------------------------
(* The moves.  Everything but a sale, a gift and the way of the items      *)
(* leaves what everybody owns alone.                                       *)
Still == UNCHANGED <<Own, inv, market, fund, ledger>>

Offers(k, seller, lot, l) ==
    /\ ~Exists(l)
    /\ inv[seller][lot.item] >= lot.qty
    /\ market' = [market EXCEPT ![l] = [seller |-> seller, lot |-> lot]]
    /\ inv' = [inv EXCEPT ![seller][lot.item] = @ - lot.qty]
    /\ ledger' = Append(ledger, Row("memo", k, seller, 0))
    /\ UNCHANGED <<Own, fund>>

TakesBack(k, by, l) ==
    /\ Exists(l)
    /\ HandOver(l, market[l].seller)
    /\ ledger' = Append(ledger, Row("memo", k, by, 0))
    /\ UNCHANGED <<Own, fund>>

SaleRows(k, buyer, seller, price, tax) ==
    << Row("debit", k, buyer, price),
       Row("credit", k, seller, price - tax),
       Row("tax", k, NoActor, tax) >>

(* The buyer pays what was held, the seller gets the price less the tax.   *)
Sells(k, l, buyer, tax) ==
    LET paid == [Own EXCEPT ![buyer] = @ - amount[k]] IN
    /\ Exists(l)
    /\ Own[buyer] >= amount[k]
    /\ amount[k] >= Price(l)
    /\ Own' = [paid EXCEPT ![market[l].seller] = @ + Price(l) - tax]
    /\ fund' = fund + tax
    /\ HandOver(l, buyer)
    /\ ledger' = ledger \o SaleRows(k, buyer, market[l].seller, Price(l), tax)

(* A listing is deleted by a purchase whose hold does not cover it.        *)
Loses(k, l) ==
    /\ Exists(l)
    /\ amount[k] < Price(l)
    /\ market' = [market EXCEPT ![l] = NoListing]
    /\ UNCHANGED <<Own, inv, fund, ledger>>

Gives(t, s, sum) ==
    LET paid == [Own EXCEPT ![t] = @ - sum] IN
    /\ t = Custodian[s]
    /\ Own[t] >= sum
    /\ Own' = [paid EXCEPT ![s] = @ + sum]
    /\ ledger' = ledger \o << Row("debit", "fund-soul", t, sum),
                              Row("credit", "fund-soul", s, sum) >>
    /\ UNCHANGED <<inv, market, fund>>

ListMove(k) ==
    LET r == request[k] IN
    r.kind = "market_list" /\ Offers(k, r.party, r.lot, ListingOf(k))

CancelMove(k) ==
    LET r == request[k] IN
    r.kind = "market_cancel" /\ TakesBack(k, r.by, r.listing)

SaleMove(k) ==
    LET r == request[k] IN
    /\ Purchase(k) /\ escrow[k] = "held"
    /\ \E tax \in 0..Price(r.listing) : Sells(k, r.listing, r.party, tax)

LossMove(k) ==
    Purchase(k) /\ escrow[k] = "held" /\ Loses(k, request[k].listing)

(* What an actor owns is the wallet and what is held for it, both numbers. *)
LEMMA OwnParts ==
    ASSUME MarketIInv
    PROVE  /\ HoldTypes
           /\ essence \in [Actors -> Nat]
           /\ Own \in [Actors -> Nat]
           /\ \A a \in Actors : Own[a] = essence[a] + Held(a) /\ Held(a) \in Nat
<1>1. HoldTypes
  BY DEF MarketIInv, MarketTypeOK, HoldTypes
<1>2. \A a \in Actors : Held(a) \in Nat
  BY <1>1, HoldsFinite
<1>3. essence \in [Actors -> Nat]
  BY DEF MarketIInv, MarketTypeOK, NothingOverdrawn
<1>4. QED
  BY <1>1, <1>2, <1>3 DEF Own

(* What the steps that leave every hold and every wallet alone come to.    *)
LEMMA SameOwn ==
    ASSUME MarketIInv, UNCHANGED essence,
           \A k \in Keys : escrow'[k] = "held" <=> escrow[k] = "held",
           \A k \in Keys : escrow[k] = "held" =>
               request'[k] = request[k] /\ amount'[k] = amount[k]
    PROVE  UNCHANGED Own
<1>1. \A a \in Actors : Held(a)' = Held(a)
  BY OwnParts, SameHolds
<1>2. QED
  BY <1>1 DEF Own

(* An escrow that is held is that of a purchase. *)
LEMMA BuyerOf ==
    ASSUME MarketIInv, NEW k \in Keys, escrow[k] = "held"
    PROVE  /\ Purchase(k)
           /\ request[k].party \in Actors
           /\ request[k].listing \in Listings
           /\ amount[k] \in Nat
<1>1. Purchase(k)
  BY DEF MarketIInv, EscrowFollowsIntent
<1>2. QED
  BY <1>1, PurchaseRequest DEF MarketIInv, MarketTypeOK

(* A refund: what leaves the hold is in the wallet.                        *)
LEMMA RefundOwn ==
    ASSUME MarketIInv, NEW k \in Keys, escrow[k] = "held",
           NEW to, to # "held", escrow' = [escrow EXCEPT ![k] = to],
           essence' = [essence EXCEPT ![request[k].party] = @ + amount[k]],
           UNCHANGED <<request, amount>>
    PROVE  UNCHANGED Own
<1>1. \A a \in Actors :
        Held(a)' = Held(a) - IF request[k].party = a THEN amount[k] ELSE 0
  BY OwnParts, HoldEnds
<1>2. request[k].party \in Actors /\ amount[k] \in Nat
  BY BuyerOf
<1>3. \A a \in Actors :
        essence'[a] = essence[a] + IF request[k].party = a THEN amount[k] ELSE 0
  BY <1>2, OwnParts
<1>4. \A a \in Actors : essence'[a] + Held(a)' = essence[a] + Held(a)
  BY <1>1, <1>2, <1>3, OwnParts
<1>5. QED
  BY <1>4 DEF Own

(* A release moves nothing from one owner to another. *)
LEMMA ReleaseOwn ==
    ASSUME MarketIInv, NEW k \in Keys, Release(k), UNCHANGED <<request, amount>>
    PROVE  UNCHANGED Own
<1>1. CASE escrow[k] = "held"
  BY <1>1, RefundOwn DEF Release
<1>2. CASE escrow[k] # "held"
  BY <1>2, SameOwn DEF Release
<1>3. QED
  BY <1>1, <1>2

(* Taking in a request moves nothing from one owner to another. *)
LEMMA EnqueueOwn ==
    ASSUME MarketIInv, [Next]_vars, NEW k \in Keys, NEW r \in Requests,
           EnqueueList(k, r) \/ EnqueueBuy(k, r) \/ EnqueueCancel(k, r)
    PROVE  Still
<1>1. /\ status[k] = "absent" /\ escrow[k] = "none"
      /\ request' = [request EXCEPT ![k] = r]
  BY DEF EnqueueList, EnqueueBuy, EnqueueCancel, Record, Insert, MarketIInv,
         Recorded, EscrowFollowsIntent, Purchase
<1>2. CASE EnqueueList(k, r) \/ EnqueueCancel(k, r)
  <2>1. UNCHANGED <<essence, escrow, amount, inv, market, fund, ledger>>
    BY <1>2 DEF EnqueueList, EnqueueCancel, worldVars
  <2>2. \A j \in Keys : escrow[j] = "held" => request'[j] = request[j]
    BY <1>1, OwnParts DEF HoldTypes
  <2>3. UNCHANGED Own
    BY <2>1, <2>2, SameOwn
  <2>4. QED
    BY <2>1, <2>3 DEF Still
<1>3. CASE EnqueueBuy(k, r)
  <2> DEFINE price == Price(r.listing)
  <2>1. r.party \in Actors /\ price \in Nat
    BY <1>3, RequestParts, ListingParts DEF EnqueueBuy, MarketIInv
  <2>2. /\ essence' = [essence EXCEPT ![r.party] = @ - price]
        /\ escrow' = [escrow EXCEPT ![k] = "held"]
        /\ amount' = [amount EXCEPT ![k] = price]
        /\ UNCHANGED <<inv, market, fund, ledger>>
    BY <1>3 DEF EnqueueBuy
  <2> HIDE DEF price
  <2>3. HoldTypes'
    BY TablesStep DEF TablesTyped, HoldTypes
  <2>4. /\ \A j \in Keys \ {k} : request'[j] = request[j] /\ amount'[j] = amount[j]
        /\ request'[k].party = r.party /\ amount'[k] = price
    BY <1>1, <2>2, OwnParts DEF HoldTypes
  <2>5. \A a \in Actors : Held(a)' = Held(a) + IF r.party = a THEN price ELSE 0
    <3> TAKE a \in Actors
    <3>1. HoldTypes /\ escrow[k] # "held"
      BY <1>1, OwnParts
    <3>2. \A j \in Keys \ {k} : request'[j] = request[j] /\ amount'[j] = amount[j]
      BY <2>4
    <3>3. Held(a)' = Held(a) + IF request'[k].party = a THEN amount'[k] ELSE 0
      BY <2>2, <2>3, <3>1, <3>2, HoldBegins
    <3>4. QED
      BY <2>4, <3>3
  <2>6. \A a \in Actors : essence'[a] = essence[a] - IF r.party = a THEN price ELSE 0
    BY <2>1, <2>2, OwnParts
  <2>7. \A a \in Actors : essence'[a] + Held(a)' = essence[a] + Held(a)
    BY <2>1, <2>5, <2>6, OwnParts
  <2>8. UNCHANGED Own
    BY <2>7 DEF Own
  <2>9. QED
    BY <2>2, <2>8 DEF Still
<1>4. QED
  BY <1>2, <1>3

(* An adjudicated listing is a move of a lot from a shelf to the market. *)
LEMMA ListOffers ==
    ASSUME MarketIInv, NEW k \in Keys, AdjudicateList(k)
    PROVE  ListMove(k)
<1>1. UNCHANGED Own
  BY SameOwn DEF AdjudicateList, escrowVars
<1>2. QED
  BY <1>1 DEF AdjudicateList, CanList, ListMove, Offers

(* An adjudicated cancel is a move of a lot back to a shelf. *)
LEMMA CancelTakesBack ==
    ASSUME MarketIInv, NEW k \in Keys, AdjudicateCancel(k)
    PROVE  CancelMove(k)
<1>1. UNCHANGED Own
  BY SameOwn DEF AdjudicateCancel, escrowVars
<1>2. QED
  BY <1>1 DEF AdjudicateCancel, CanCancel, CancelMove, TakesBack

(* An adjudicated purchase is a sale. *)
LEMMA BuySells ==
    ASSUME MarketIInv, NEW k \in Keys, AdjudicateBuy(k)
    PROVE  SaleMove(k)
<1> DEFINE l == request[k].listing
           buyer == request[k].party
           seller == market[l].seller
           price == Price(l)
<1>1. escrow[k] = "held" /\ amount[k] >= price /\ Exists(l)
  BY DEF AdjudicateBuy, Covered
<1>2. Purchase(k) /\ buyer \in Actors /\ l \in Listings /\ amount[k] \in Nat
  BY <1>1, BuyerOf
<1>3. seller \in Actors /\ price \in Nat
  BY <1>1, <1>2, ListingParts DEF MarketIInv
<1>4. PICK tax \in Taxes(price) : Pay(k, price, tax)
  BY DEF AdjudicateBuy
<1>5. tax \in 0..price
  BY DEF Taxes
<1>6. /\ escrow' = [escrow EXCEPT ![k] = "applied"]
      /\ essence' = [essence EXCEPT ![seller] = @ + price - tax]
      /\ fund' = fund + tax
      /\ Posting(k, price, tax)
      /\ HandOver(l, buyer)
      /\ UNCHANGED <<request, amount>>
  BY <1>4 DEF AdjudicateBuy, Pay
<1>7. ledger' = ledger \o SaleRows(k, buyer, seller, price, tax)
  BY <1>6 DEF Posting, SaleRows
<1> HIDE DEF buyer, seller, price
<1>8. \A a \in Actors : Held(a)' = Held(a) - IF buyer = a THEN amount[k] ELSE 0
  BY <1>1, <1>6, OwnParts, HoldEnds DEF buyer
<1>9. \A a \in Actors : Held(a)' \in Nat
  <2>1. \A a \in Actors : Ints(amount, Holds(a)') /\ Nats(amount, Holds(a)') /\ IsFiniteSet(Holds(a)')
    BY KeysFinite, FS_Subset, OwnParts DEF HoldTypes, Holds, Ints, Nats
  <2>2. \A a \in Actors : Held(a)' = Total(amount, Holds(a)')
    BY <1>6 DEF Held
  <2>3. QED
    BY <2>1, <2>2, TotalNat
<1>10. Held(buyer) >= amount[k] /\ Own[buyer] >= amount[k]
  BY <1>2, <1>8, <1>9, OwnParts
<1> DEFINE paid == [Own EXCEPT ![buyer] = @ - amount[k]]
           sold == [paid EXCEPT ![seller] = @ + price - tax]
<1>11. \A a \in Actors : sold[a] = essence'[a] + Held(a)'
  <2> TAKE a \in Actors
  <2>1. /\ Own[a] = essence[a] + Held(a)
        /\ essence[a] \in Int /\ Held(a) \in Int /\ Own \in [Actors -> Nat]
    BY OwnParts
  <2>2. paid[a] = essence[a] + Held(a)'
    BY <1>2, <1>8, <2>1
  <2>3. paid \in [Actors -> Int] /\ Held(a)' \in Int
    BY <1>2, <1>9, <2>1
  <2>4. CASE a = seller
    <3>1. essence'[a] = essence[a] + price - tax
      BY <1>3, <1>6, <2>4, OwnParts
    <3>2. sold[a] = paid[a] + price - tax
      BY <1>3, <2>3, <2>4
    <3> HIDE DEF paid, sold
    <3>3. QED
      BY <1>3, <1>5, <2>1, <2>2, <2>3, <3>1, <3>2
  <2>5. CASE a # seller
    <3>1. essence'[a] = essence[a]
      BY <1>3, <1>6, <2>5, OwnParts
    <3>2. sold[a] = paid[a]
      BY <1>3, <2>3, <2>5
    <3>3. QED
      BY <2>2, <3>1, <3>2
  <2>6. QED
    BY <2>4, <2>5
<1>12. Own' = sold
  <2>1. sold = [a \in Actors |-> sold[a]]
    BY OwnParts
  <2>2. Own' = [a \in Actors |-> essence'[a] + Held(a)']
    BY DEF Own
  <2> HIDE DEF sold
  <2>3. QED
    BY <1>11, <2>1, <2>2
<1>13. Sells(k, l, buyer, tax)
  BY <1>1, <1>6, <1>7, <1>10, <1>12 DEF Sells, seller, price
<1>14. QED
  BY <1>1, <1>2, <1>5, <1>13 DEF SaleMove, buyer, price

(* A gift to a soul moves its sum from the tamer to the soul. *)
LEMMA GiftGives ==
    ASSUME MarketIInv, NEW t \in Tamers, NEW s \in Souls, NEW sum \in Gifts,
           FundSoul(t, s, sum)
    PROVE  Gives(t, s, sum)
<1>1. t \in Actors /\ s \in Actors /\ t # s /\ sum \in Nat
  BY ActorsDisjoint, GiftsTyped DEF Actors
<1>2. /\ essence[t] >= sum
      /\ essence' = [essence EXCEPT ![t] = @ - sum, ![s] = @ + sum]
      /\ ledger' = ledger \o << Row("debit", "fund-soul", t, sum),
                                Row("credit", "fund-soul", s, sum) >>
      /\ UNCHANGED <<request, escrow, amount, inv, market, fund>>
  BY DEF FundSoul, escrowVars
<1>3. \A a \in Actors : Held(a)' = Held(a)
  BY <1>2, OwnParts, SameHolds
<1>4. Own[t] >= sum
  BY <1>1, <1>2, OwnParts
<1> DEFINE paid == [Own EXCEPT ![t] = @ - sum]
           given == [paid EXCEPT ![s] = @ + sum]
<1>5. \A a \in Actors : given[a] = essence'[a] + Held(a)'
  <2> TAKE a \in Actors
  <2>1. /\ Own[a] = essence[a] + Held(a) /\ Held(a)' = Held(a)
        /\ essence[a] \in Int /\ Held(a) \in Int
        /\ Own \in [Actors -> Nat] /\ essence \in [Actors -> Nat]
    BY <1>3, OwnParts
  <2>2. CASE a = t
    BY <1>1, <1>2, <2>1, <2>2
  <2>3. CASE a = s
    BY <1>1, <1>2, <2>1, <2>3
  <2>4. CASE a # t /\ a # s
    BY <1>1, <1>2, <2>1, <2>4
  <2>5. QED
    BY <2>2, <2>3, <2>4
<1>6. Own' = given
  <2>1. given = [a \in Actors |-> given[a]]
    BY OwnParts
  <2>2. Own' = [a \in Actors |-> essence'[a] + Held(a)']
    BY DEF Own
  <2> HIDE DEF given
  <2>3. QED
    BY <1>5, <2>1, <2>2
<1>7. t = Custodian[s]
  BY DEF FundSoul
<1>8. QED
  BY <1>2, <1>4, <1>6, <1>7 DEF Gives

Moved(k) ==
    /\ request[k] \in Requests
    /\ ListMove(k) \/ CancelMove(k) \/ SaleMove(k) \/ LossMove(k)

Moves ==
    \/ \E k \in Keys : Moved(k)
    \/ \E t \in Tamers, s \in Souls, sum \in Gifts : Gives(t, s, sum)

(* Every step of the market is one of these moves, or moves nothing. *)
LEMMA MarketStepMoves ==
    ASSUME MarketIInv, [Next]_vars
    PROVE  Still \/ Moves
<1>1. ASSUME UNCHANGED <<essence, escrow, request, amount, inv, market, fund, ledger>>
      PROVE  Still
  BY <1>1, SameOwn DEF Still
<1>2. ASSUME NEW k \in Keys, Enqueue(k) PROVE Still
  BY <1>2, EnqueueOwn DEF Enqueue
<1>3. ASSUME NEW k \in Keys, Resubmit(k) PROVE Still
  BY <1>1, <1>3 DEF Resubmit, escrowVars, worldVars
<1>4. ASSUME NEW k \in Keys, AdjudicateIntent(k) PROVE Still \/ Moves
  <2>1. status[k] = "pending" /\ request[k] \in Requests
    BY <1>4, PendingRequest
       DEF AdjudicateIntent, AdjudicateList, RejectList, AdjudicateCancel,
           RejectCancel, AdjudicateBuy, RejectGone, RejectShort, Settle, MarketIInv
  <2>2. CASE AdjudicateList(k)
    BY <2>1, <2>2, ListOffers DEF Moves, Moved
  <2>3. CASE AdjudicateCancel(k)
    BY <2>1, <2>3, CancelTakesBack DEF Moves, Moved
  <2>4. CASE AdjudicateBuy(k)
    BY <2>1, <2>4, BuySells DEF Moves, Moved
  <2>5. CASE RejectList(k) \/ RejectCancel(k)
    BY <1>1, <2>5 DEF RejectList, RejectCancel, escrowVars, worldVars
  <2>6. CASE RejectGone(k)
    <3>1. UNCHANGED <<request, amount, inv, market, fund, ledger>>
      BY <2>6 DEF RejectGone
    <3>2. CASE Release(k)
      BY <3>1, <3>2, ReleaseOwn DEF Still
    <3>3. CASE UNCHANGED <<essence, noted, escrow>>
      BY <1>1, <3>1, <3>3
    <3>4. QED
      BY <2>6, <3>2, <3>3 DEF RejectGone
  <2>7. CASE RejectShort(k)
    <3>1. /\ Release(k) /\ Exists(request[k].listing)
          /\ request[k].kind = "market_buy" /\ ~Covered(k)
          /\ market' = [market EXCEPT ![request[k].listing] = NoListing]
          /\ UNCHANGED <<request, amount, inv, fund, ledger>>
      BY <2>7 DEF RejectShort
    <3>2. Purchase(k)
      BY <2>1, <3>1, RequestParts DEF Purchase
    <3>3. escrow[k] = "held"
      BY <2>1, <3>2 DEF MarketIInv, EscrowFollowsIntent
    <3>4. amount[k] < Price(request[k].listing)
      <4>1. request[k].listing \in Listings /\ amount[k] \in Nat
        BY <3>3, BuyerOf
      <4>2. Price(request[k].listing) \in Nat
        BY <3>1, <4>1, ListingParts DEF MarketIInv
      <4>3. QED
        BY <3>1, <3>3, <4>1, <4>2 DEF Covered
    <3>5. UNCHANGED Own
      BY <3>1, ReleaseOwn
    <3>6. LossMove(k)
      BY <3>1, <3>2, <3>3, <3>4, <3>5 DEF LossMove, Loses
    <3>7. QED
      BY <2>1, <3>6 DEF Moves, Moved
  <2>8. QED
    BY <1>4, <2>2, <2>3, <2>4, <2>5, <2>6, <2>7 DEF AdjudicateIntent
<1>5. ASSUME NEW k \in Keys, FailedIntent(k) PROVE Still
  <2>1. CASE Compensate(k)
    BY <2>1, ReleaseOwn DEF Compensate, Still
  <2>2. CASE RejectUncompensated(k) \/ LeavePending(k)
    BY <1>1, <2>2 DEF RejectUncompensated, LeavePending, escrowVars, worldVars
  <2>3. QED
    BY <1>5, <2>1, <2>2 DEF FailedIntent
<1>6. ASSUME NEW k \in Keys, Reconcile(k) PROVE Still
  <2>1. /\ escrow[k] = "held" /\ status[k] # "pending"
        /\ UNCHANGED <<request, amount, inv, market, fund, ledger>>
    BY <1>6 DEF Reconcile, Unfinished
  <2>2. status[k] # "adjudicated"
    BY <2>1, BuyerOf DEF MarketIInv, EscrowFollowsIntent
  <2>3. /\ escrow' = [escrow EXCEPT ![k] = "released"]
        /\ essence' = [essence EXCEPT ![request[k].party] = @ + amount[k]]
    BY <1>6, <2>2 DEF Reconcile
  <2>4. QED
    BY <2>1, <2>3, RefundOwn DEF Still
<1>7. ASSUME BeginPass \/ StopTicking \/ CrashSim \/ BootSim \/ UNCHANGED vars
      PROVE  Still
  BY <1>1, <1>7 DEF BeginPass, StopTicking, CrashSim, BootSim, escrowVars, worldVars, vars
<1>8. ASSUME NEW t \in Tamers, NEW s \in Souls, NEW sum \in Gifts, FundSoul(t, s, sum)
      PROVE  Moves
  BY <1>8, GiftGives DEF Moves
<1>9. QED
  BY <1>2, <1>3, <1>4, <1>5, <1>6, <1>7, <1>8 DEF Next

-----------------------------------------------------------------------------
(* What moves do to the sums.  Essence: one wallet at a time.              *)
Purses(own) == own \in [Actors -> Int]

Adds(moved, own, a, sum) == moved = [own EXCEPT ![a] = @ + sum]

(* A sum added to one purse is added to the total of the purses. *)
LEMMA OwnAdds ==
    ASSUME NEW own, Purses(own), NEW a \in Actors, NEW sum \in Int,
           NEW moved, Adds(moved, own, a, sum)
    PROVE  /\ Purses(moved)
           /\ Total(own, Actors) \in Int
           /\ Total(moved, Actors) = Total(own, Actors) + sum
<1>1. moved[a] = own[a] + sum /\ own[a] \in Int /\ Purses(moved)
  BY DEF Purses, Adds
<1>2. Ints(own, Actors) /\ Ints(moved, Actors)
  BY <1>1 DEF Ints, Purses
<1>3. \A b \in Actors \ {a} : own[b] = moved[b]
  BY DEF Purses, Adds
<1>4. /\ Total(moved, Actors)
            = Total(own, Actors) - Part(own, Actors, a) + Part(moved, Actors, a)
      /\ Total(own, Actors) \in Int
  BY <1>2, <1>3, ActorsFinite, TotalChange
<1>5. Part(own, Actors, a) = own[a] /\ Part(moved, Actors, a) = own[a] + sum
  BY <1>1 DEF Part
<1>6. QED
  BY <1>1, <1>4, <1>5

(* A payment from one purse into another, possibly its own. *)
LEMMA OwnMoves ==
    ASSUME NEW own, Purses(own),
           NEW a \in Actors, NEW x \in Int, NEW b \in Actors, NEW y \in Int,
           NEW paid, Adds(paid, own, a, -x), NEW moved, Adds(moved, paid, b, y)
    PROVE  /\ Total(own, Actors) \in Int
           /\ Total(moved, Actors) = Total(own, Actors) - x + y
<1>1. -x \in Int
  OBVIOUS
<1>2. /\ Purses(paid)
      /\ Total(own, Actors) \in Int
      /\ Total(paid, Actors) = Total(own, Actors) + (-x)
  BY <1>1, OwnAdds
<1>3. Total(moved, Actors) = Total(paid, Actors) + y
  BY <1>2, OwnAdds
<1>4. QED
  BY <1>2, <1>3

(* A sale takes from the world what the buyer paid over the price, and the
   tax is gone from it at once. *)
LEMMA SaleEssence ==
    ASSUME MarketIInv, NEW k \in Keys, SaleMove(k)
    PROVE  /\ EssenceInWorld' = EssenceInWorld - amount[k] + Price(request[k].listing)
           /\ EssenceInWorld \in Int /\ amount[k] \in Int
           /\ amount[k] >= Price(request[k].listing)
           /\ Price(request[k].listing) \in Int
<1> DEFINE l == request[k].listing
           buyer == request[k].party
           seller == market[l].seller
           price == Price(l)
<1>1. PICK tax \in 0..price : Sells(k, l, buyer, tax)
  BY DEF SaleMove
<1>2. buyer \in Actors /\ l \in Listings /\ amount[k] \in Nat
  BY BuyerOf DEF SaleMove
<1>3. seller \in Actors /\ price \in Nat
  BY <1>1, <1>2, ListingParts DEF Sells, MarketIInv
<1>4. Own \in [Actors -> Int] /\ fund \in Int
  BY OwnParts DEF MarketIInv, MarketTypeOK
<1>5. PICK paid : paid = [Own EXCEPT ![buyer] = @ - amount[k]]
  OBVIOUS
<1>6. PICK net \in Int : net = price - tax
  BY <1>3
<1>7. /\ Own' = [paid EXCEPT ![seller] = @ + price - tax]
      /\ fund' = fund + tax
      /\ amount[k] >= price
  BY <1>1, <1>5 DEF Sells
<1> HIDE DEF price, seller, buyer
<1>8. Own' = [paid EXCEPT ![seller] = @ + net]
  <2>1. paid \in [Actors -> Int]
    BY <1>2, <1>4, <1>5
  <2>2. paid[seller] + net = paid[seller] + price - tax
    BY <1>3, <1>6, <2>1
  <2>3. QED
    BY <1>7, <2>2
<1>9. /\ Total(Own, Actors) \in Int
      /\ Total(Own', Actors) = Total(Own, Actors) - amount[k] + net
  <2>1. Purses(Own) /\ amount[k] \in Int
    BY <1>2, <1>4 DEF Purses
  <2>2. Adds(paid, Own, buyer, -amount[k]) /\ Adds(Own', paid, seller, net)
    BY <1>2, <1>4, <1>5, <1>8 DEF Adds
  <2>3. QED
    BY <1>2, <1>3, <2>1, <2>2, OwnMoves
<1>10. EssenceInWorld' = Total(Own, Actors) - amount[k] + net + fund'
  BY <1>8, <1>9 DEF EssenceInWorld
<1>11. QED
  BY <1>2, <1>3, <1>4, <1>6, <1>7, <1>9, <1>10 DEF EssenceInWorld, price

(* A gift leaves the essence in the world. *)
LEMMA GiftEssence ==
    ASSUME MarketIInv, NEW t \in Tamers, NEW s \in Souls, NEW sum \in Gifts,
           Gives(t, s, sum)
    PROVE  EssenceInWorld' = EssenceInWorld
<1>1. t \in Actors /\ s \in Actors /\ sum \in Int
  BY GiftsTyped DEF Actors
<1>2. Own \in [Actors -> Int] /\ fund \in Int
  BY OwnParts DEF MarketIInv, MarketTypeOK
<1>3. PICK paid : paid = [Own EXCEPT ![t] = @ - sum]
  OBVIOUS
<1>4. Own' = [paid EXCEPT ![s] = @ + sum] /\ fund' = fund
  BY <1>3 DEF Gives
<1>5. /\ Total(Own, Actors) \in Int
      /\ Total(Own', Actors) = Total(Own, Actors) - sum + sum
  <2>1. Purses(Own)
    BY <1>2 DEF Purses
  <2>2. Adds(paid, Own, t, -sum) /\ Adds(Own', paid, s, sum)
    BY <1>1, <1>2, <1>3, <1>4 DEF Adds
  <2>3. QED
    BY <1>1, <2>1, <2>2, OwnMoves
<1>6. Total(Own', Actors) = Total(Own, Actors)
  BY <1>1, <1>4, <1>5
<1>7. QED
  BY <1>4, <1>6 DEF EssenceInWorld

-----------------------------------------------------------------------------
(* Items: one shelf and one listing at a time.                             *)
Shelved(shelves, i) == Total([a \in Actors |-> shelves[a][i]], Actors)

ListedOf(listings, i) ==
    {l \in Listings : listings[l] # NoListing /\ listings[l].lot.item = i}

Reserved(listings, i) ==
    Total([l \in ListedOf(listings, i) |-> listings[l].lot.qty], ListedOf(listings, i))

QtyOf(row, i) == IF row # NoListing /\ row.lot.item = i THEN row.lot.qty ELSE 0

MarketFinite(listings) ==
    /\ listings \in [Listings -> ListingRows \cup {NoListing}]
    /\ IsFiniteSet({l \in Listings : listings[l] # NoListing})

(* The items in the world are those on shelves and those on the market. *)
LEMMA ItemCountSum ==
    ASSUME NEW shelves, NEW listings, NEW i
    PROVE  ItemCount(shelves, listings, i) = Shelved(shelves, i) + Reserved(listings, i)
BY DEF ItemCount, Shelved, Reserved, ListedOf

(* The quantity a listing adds of an item is a number. *)
LEMMA RowQty ==
    ASSUME NEW row \in ListingRows \cup {NoListing}, NEW i
    PROVE  /\ QtyOf(row, i) \in Nat
           /\ row # NoListing => row.lot.qty \in Nat
BY LotParts DEF QtyOf, ListingRows

Stocks(shelves) == shelves \in [Actors -> [Items -> Int]]

Stocked(more, shelves, a, it, sum) == more = [shelves EXCEPT ![a][it] = @ + sum]

(* A change of one shelf changes the count of one item by that much. *)
LEMMA ShelfChanges ==
    ASSUME NEW shelves, Stocks(shelves), NEW a \in Actors, NEW it \in Items,
           NEW sum \in Int, NEW more, Stocked(more, shelves, a, it, sum),
           NEW i \in Items
    PROVE  /\ Shelved(shelves, i) \in Int
           /\ Shelved(more, i) = Shelved(shelves, i) + IF i = it THEN sum ELSE 0
<1> DEFINE f == [b \in Actors |-> shelves[b][i]]
           g == [b \in Actors |-> more[b][i]]
<1>1. Stocks(more) /\ \A b \in Actors \ {a} : more[b] = shelves[b]
  BY DEF Stocks, Stocked
<1>2. more[a][i] = shelves[a][i] + (IF i = it THEN sum ELSE 0)
  BY DEF Stocks, Stocked
<1>3. Ints(f, Actors) /\ Ints(g, Actors)
  BY <1>1 DEF Ints, Stocks
<1>4. \A b \in Actors \ {a} : f[b] = g[b]
  BY <1>1
<1>5. Part(f, Actors, a) = shelves[a][i] /\ Part(g, Actors, a) = more[a][i]
  BY DEF Part
<1>6. shelves[a][i] \in Int /\ more[a][i] \in Int
  BY <1>1 DEF Stocks
<1> HIDE DEF f, g
<1>7. /\ Total(g, Actors) = Total(f, Actors) - Part(f, Actors, a) + Part(g, Actors, a)
      /\ Total(f, Actors) \in Int
  BY <1>3, <1>4, ActorsFinite, TotalChange
<1>8. Total(g, Actors) = Total(f, Actors) + IF i = it THEN sum ELSE 0
  BY <1>2, <1>5, <1>6, <1>7
<1>9. QED
  BY <1>7, <1>8 DEF Shelved, f, g

(* The quantities on the market are integers over a finite set. *)
LEMMA ReservedParts ==
    ASSUME NEW listings, MarketFinite(listings), NEW i
    PROVE  /\ IsFiniteSet(ListedOf(listings, i))
           /\ Ints([l \in ListedOf(listings, i) |-> listings[l].lot.qty],
                   ListedOf(listings, i))
           /\ Reserved(listings, i) \in Int
<1>1. IsFiniteSet(ListedOf(listings, i))
  <2>1. ListedOf(listings, i) \subseteq {l \in Listings : listings[l] # NoListing}
    BY DEF ListedOf
  <2>2. QED
    BY <2>1, FS_Subset DEF MarketFinite
<1>2. \A l \in ListedOf(listings, i) : listings[l].lot.qty \in Int
  BY RowQty DEF ListedOf, MarketFinite
<1>3. Ints([l \in ListedOf(listings, i) |-> listings[l].lot.qty], ListedOf(listings, i))
  BY <1>2 DEF Ints
<1>4. QED
  BY <1>1, <1>3, TotalInt DEF Reserved

Listed(new, listings, l, row) == new = [listings EXCEPT ![l] = row]

(* A listing put in the place of another changes the items on the market by
   the difference of their lots. *)
LEMMA ListingChanges ==
    ASSUME NEW listings, MarketFinite(listings), NEW l \in Listings,
           NEW row \in ListingRows \cup {NoListing},
           NEW new, Listed(new, listings, l, row), NEW i
    PROVE  /\ MarketFinite(new)
           /\ Reserved(listings, i) \in Int
           /\ Reserved(new, i) = Reserved(listings, i) - QtyOf(listings[l], i) + QtyOf(row, i)
<1> DEFINE S == ListedOf(listings, i)
           T == ListedOf(new, i)
           f == [m \in S |-> listings[m].lot.qty]
           g == [m \in T |-> new[m].lot.qty]
<1>1. /\ new[l] = row
      /\ \A m \in Listings \ {l} : new[m] = listings[m]
      /\ new \in [Listings -> ListingRows \cup {NoListing}]
  BY DEF MarketFinite, Listed
<1>2. MarketFinite(new)
  <2> DEFINE old == {m \in Listings : listings[m] # NoListing}
             now == {m \in Listings : new[m] # NoListing}
  <2>1. now \subseteq old \cup {l}
    BY <1>1
  <2>2. IsFiniteSet(old \cup {l})
    BY FS_AddElement DEF MarketFinite
  <2>3. IsFiniteSet(now)
    BY <2>1, <2>2, FS_Subset
  <2>4. QED
    BY <1>1, <2>3 DEF MarketFinite
<1>3. S \ {l} = T \ {l}
  BY <1>1 DEF ListedOf
<1>4. \A m \in S \ {l} : f[m] = g[m]
  BY <1>1, <1>3 DEF ListedOf
<1>5. Part(f, S, l) = QtyOf(listings[l], i)
  BY DEF Part, QtyOf, ListedOf
<1>6. Part(g, T, l) = QtyOf(row, i)
  BY <1>1 DEF Part, QtyOf, ListedOf
<1>7. /\ IsFiniteSet(S) /\ Ints(f, S)
      /\ IsFiniteSet(T) /\ Ints(g, T)
  BY <1>2, ReservedParts
<1>8. Reserved(listings, i) = Total(f, S) /\ Reserved(new, i) = Total(g, T)
  BY DEF Reserved
<1> HIDE DEF f, g, S, T
<1>9. /\ Total(g, T) = Total(f, S) - Part(f, S, l) + Part(g, T, l)
      /\ Total(f, S) \in Int
  BY <1>3, <1>4, <1>7, TotalChange
<1>10. QED
  BY <1>2, <1>5, <1>6, <1>8, <1>9

(* The lot of a listing moves between a shelf and the listing.             *)
LEMMA ListItems ==
    ASSUME MarketIInv, MarketFinite(market), NEW k \in Keys, request[k] \in Requests,
           ListMove(k)
    PROVE  /\ MarketFinite(market')
           /\ \A i \in Items : ItemsInWorld(i)' = ItemsInWorld(i)
<1> DEFINE seller == request[k].party
           lot == request[k].lot
           l == ListingOf(k)
           row == [seller |-> seller, lot |-> lot]
<1>1. /\ market[l] = NoListing
      /\ market' = [market EXCEPT ![l] = row]
      /\ inv' = [inv EXCEPT ![seller][lot.item] = @ - lot.qty]
      /\ request[k].kind = "market_list"
  BY DEF ListMove, Offers, Exists
<1>2. seller \in Actors /\ lot \in Lots /\ l \in Listings /\ row \in ListingRows
  BY <1>1, RequestParts DEF ListingOf, Listings, ListingRows
<1>3. lot.item \in Items /\ lot.qty \in Int
  BY <1>2, LotParts
<1>4. \A i \in Items : /\ QtyOf(market[l], i) = 0
                       /\ QtyOf(row, i) = IF i = lot.item THEN lot.qty ELSE 0
  BY <1>1, <1>2, ListingsNamed DEF QtyOf
<1>5. Stocks(inv) /\ Stocked(inv', inv, seller, lot.item, -lot.qty)
  BY <1>1, <1>2, <1>3 DEF Stocks, Stocked, MarketIInv, MarketTypeOK
<1>6. Listed(market', market, l, row)
  BY <1>1 DEF Listed
<1> HIDE DEF seller, lot, l, row
<1>7. MarketFinite(market')
  BY <1>2, <1>6, ListingChanges
<1>8. ASSUME NEW i \in Items PROVE ItemsInWorld(i)' = ItemsInWorld(i)
  <2>1. -lot.qty \in Int
    BY <1>3
  <2>2. /\ Shelved(inv, i) \in Int
        /\ Shelved(inv', i) = Shelved(inv, i) + IF i = lot.item THEN -lot.qty ELSE 0
    BY <1>2, <1>3, <1>5, <2>1, ShelfChanges
  <2>3. /\ Reserved(market, i) \in Int
        /\ Reserved(market', i)
             = Reserved(market, i) - QtyOf(market[l], i) + QtyOf(row, i)
    BY <1>2, <1>6, ListingChanges
  <2>4. /\ ItemsInWorld(i) = Shelved(inv, i) + Reserved(market, i)
        /\ ItemsInWorld(i)' = Shelved(inv', i) + Reserved(market', i)
    BY ItemCountSum DEF ItemsInWorld
  <2>5. QED
    BY <1>3, <1>4, <2>2, <2>3, <2>4
<1>9. QED
  BY <1>7, <1>8

(* Handing a listed lot over to an actor leaves the items in the world. *)
LEMMA HandOverItems ==
    ASSUME MarketIInv, MarketFinite(market), NEW l \in Listings, Exists(l),
           NEW to \in Actors, HandOver(l, to)
    PROVE  /\ MarketFinite(market')
           /\ \A i \in Items : ItemsInWorld(i)' = ItemsInWorld(i)
<1> DEFINE lot == market[l].lot
<1>1. /\ market' = [market EXCEPT ![l] = NoListing]
      /\ inv' = [inv EXCEPT ![to][lot.item] = @ + lot.qty]
  BY DEF HandOver
<1>2. lot.item \in Items /\ lot.qty \in Int
  BY ListingParts DEF MarketIInv
<1>3. \A i \in Items : /\ QtyOf(market[l], i) = IF i = lot.item THEN lot.qty ELSE 0
                       /\ QtyOf(NoListing, i) = 0
  BY DEF QtyOf, Exists
<1>4. Stocks(inv) /\ Stocked(inv', inv, to, lot.item, lot.qty)
  BY <1>1 DEF Stocks, Stocked, MarketIInv, MarketTypeOK
<1>5. Listed(market', market, l, NoListing)
  BY <1>1 DEF Listed
<1> HIDE DEF lot
<1>6. MarketFinite(market')
  BY <1>5, ListingChanges
<1>7. ASSUME NEW i \in Items PROVE ItemsInWorld(i)' = ItemsInWorld(i)
  <2>1. /\ Shelved(inv, i) \in Int
        /\ Shelved(inv', i) = Shelved(inv, i) + IF i = lot.item THEN lot.qty ELSE 0
    BY <1>2, <1>4, ShelfChanges
  <2>2. /\ Reserved(market, i) \in Int
        /\ Reserved(market', i)
             = Reserved(market, i) - QtyOf(market[l], i) + QtyOf(NoListing, i)
    BY <1>5, ListingChanges
  <2>3. /\ ItemsInWorld(i) = Shelved(inv, i) + Reserved(market, i)
        /\ ItemsInWorld(i)' = Shelved(inv', i) + Reserved(market', i)
    BY ItemCountSum DEF ItemsInWorld
  <2>4. QED
    BY <1>2, <1>3, <2>1, <2>2, <2>3
<1>8. QED
  BY <1>6, <1>7

(* A listing that a refused purchase deletes takes its lot with it.        *)
LEMMA LossItems ==
    ASSUME MarketIInv, MarketFinite(market), NEW k \in Keys, LossMove(k)
    PROVE  /\ MarketFinite(market')
           /\ \A i \in Items : ItemsInWorld(i)' <= ItemsInWorld(i)
<1> DEFINE l == request[k].listing
<1>1. /\ l \in Listings /\ Exists(l) /\ inv' = inv
      /\ market' = [market EXCEPT ![l] = NoListing]
  BY BuyerOf DEF LossMove, Loses
<1>2. Listed(market', market, l, NoListing)
  BY <1>1 DEF Listed
<1> HIDE DEF l
<1>3. MarketFinite(market')
  BY <1>1, <1>2, ListingChanges
<1>4. ASSUME NEW i \in Items PROVE ItemsInWorld(i)' <= ItemsInWorld(i)
  <2>1. Reserved(market, i) \in Int
    BY ReservedParts
  <2>2. Reserved(market', i) = Reserved(market, i) - QtyOf(market[l], i) + QtyOf(NoListing, i)
    BY <1>1, <1>2, ListingChanges
  <2>3. QtyOf(market[l], i) \in Nat /\ QtyOf(NoListing, i) = 0
    <3>1. market[l] \in ListingRows \cup {NoListing}
      BY <1>1 DEF MarketFinite
    <3>2. QED
      BY <3>1, RowQty DEF QtyOf
  <2>4. Shelved(inv, i) \in Int
    <3>1. Ints([a \in Actors |-> inv[a][i]], Actors)
      BY DEF Ints, MarketIInv, MarketTypeOK
    <3>2. QED
      BY <3>1, ActorsFinite, TotalInt DEF Shelved
  <2>5. /\ ItemsInWorld(i) = Shelved(inv, i) + Reserved(market, i)
        /\ ItemsInWorld(i)' = Shelved(inv, i) + Reserved(market', i)
    BY <1>1, ItemCountSum DEF ItemsInWorld
  <2>6. QED
    BY <2>1, <2>2, <2>3, <2>4, <2>5
<1>5. QED
  BY <1>3, <1>4

-----------------------------------------------------------------------------
(* The ledger: one row at a time.                                          *)
DeltaIn(rows, a) ==
    Total([i \in DOMAIN rows |-> Worth(rows[i])], {i \in DOMAIN rows : rows[i].actor = a})

WorthTo(row, a) == IF row.actor = a THEN Worth(row) ELSE 0

(* A row of the ledger is worth an integer. *)
LEMMA WorthInt ==
    ASSUME NEW row \in LedgerRows
    PROVE  Worth(row) \in Int
BY DEF LedgerRows, Worth

(* The rows of an actor are worth integers, over a finite set. *)
LEMMA DeltaParts ==
    ASSUME NEW rows \in Seq(LedgerRows), NEW a
    PROVE  /\ IsFiniteSet({i \in DOMAIN rows : rows[i].actor = a})
           /\ Ints([i \in DOMAIN rows |-> Worth(rows[i])],
                   {i \in DOMAIN rows : rows[i].actor = a})
           /\ DeltaIn(rows, a) \in Int
<1>1. IsFiniteSet(DOMAIN rows)
  BY LenProperties, FS_Interval
<1>2. IsFiniteSet({i \in DOMAIN rows : rows[i].actor = a})
  BY <1>1, FS_Subset
<1>3. \A i \in DOMAIN rows : Worth(rows[i]) \in Int
  BY WorthInt, ElementOfSeq, LenProperties
<1>4. Ints([i \in DOMAIN rows |-> Worth(rows[i])],
           {i \in DOMAIN rows : rows[i].actor = a})
  BY <1>3 DEF Ints
<1>5. QED
  BY <1>2, <1>4, TotalInt DEF DeltaIn

(* A row appended to the ledger adds its worth to its actor, and to no other. *)
LEMMA DeltaAppend ==
    ASSUME NEW rows \in Seq(LedgerRows), NEW row \in LedgerRows, NEW a
    PROVE  /\ Append(rows, row) \in Seq(LedgerRows)
           /\ DeltaIn(rows, a) \in Int /\ WorthTo(row, a) \in Int
           /\ DeltaIn(Append(rows, row), a) = DeltaIn(rows, a) + WorthTo(row, a)
<1> DEFINE new == Append(rows, row)
           n == Len(rows)
           S == {i \in DOMAIN rows : rows[i].actor = a}
           T == {i \in DOMAIN new : new[i].actor = a}
           f == [i \in DOMAIN rows |-> Worth(rows[i])]
           g == [i \in DOMAIN new |-> Worth(new[i])]
<1>1. /\ n \in Nat /\ DOMAIN rows = 1..n
      /\ new \in Seq(LedgerRows) /\ DOMAIN new = 1..(n + 1)
      /\ \A i \in 1..n : new[i] = rows[i]
      /\ new[n + 1] = row
  BY AppendProperties, LenProperties
<1> HIDE DEF new, n
<1>2. S \ {n + 1} = T \ {n + 1}
  BY <1>1
<1>3. \A i \in S \ {n + 1} : f[i] = g[i]
  BY <1>1
<1>4. /\ IsFiniteSet(S) /\ Ints(f, S) /\ IsFiniteSet(T) /\ Ints(g, T)
      /\ DeltaIn(rows, a) \in Int
  BY <1>1, DeltaParts
<1>5. n + 1 \notin S /\ (n + 1 \in T <=> row.actor = a) /\ g[n + 1] = Worth(row)
  BY <1>1
<1>6. Part(f, S, n + 1) = 0 /\ Part(g, T, n + 1) = WorthTo(row, a)
  BY <1>5 DEF Part, WorthTo
<1>7. DeltaIn(rows, a) = Total(f, S) /\ DeltaIn(new, a) = Total(g, T)
  BY DEF DeltaIn
<1>8. WorthTo(row, a) \in Int
  BY WorthInt DEF WorthTo
<1> HIDE DEF f, g, S, T
<1>9. Total(g, T) = Total(f, S) - Part(f, S, n + 1) + Part(g, T, n + 1)
  BY <1>2, <1>3, <1>4, TotalChange
<1>10. DeltaIn(new, a) = DeltaIn(rows, a) + WorthTo(row, a)
  BY <1>4, <1>6, <1>7, <1>8, <1>9
<1>11. QED
  BY <1>1, <1>4, <1>8, <1>10 DEF new

(* What an actor gained is read from the ledger, before and after a step. *)
LEMMA DeltaOfLedger ==
    /\ \A a : Delta(a) = DeltaIn(ledger, a)
    /\ \A a : Delta(a)' = DeltaIn(ledger', a)
BY DEF Delta, RowsOf, DeltaIn

(* What each kind of row is worth to each actor. *)
LEMMA RowWorth ==
    ASSUME NEW k, NEW a, NEW sum \in Nat, NEW b
    PROVE  /\ WorthTo(Row("debit", k, a, sum), b) = -(IF a = b THEN sum ELSE 0)
           /\ WorthTo(Row("credit", k, a, sum), b) = IF a = b THEN sum ELSE 0
           /\ WorthTo(Row("tax", k, a, sum), b) = 0
           /\ WorthTo(Row("memo", k, a, sum), b) = 0
BY DEF Row, WorthTo, Worth

(* A memo is worth nothing to anyone. *)
LEMMA MemoDelta ==
    ASSUME MarketIInv, NEW k \in Keys, NEW b \in Actors,
           ledger' = Append(ledger, Row("memo", k, b, 0)), NEW a
    PROVE  Delta(a)' = Delta(a)
<1> DEFINE row == Row("memo", k, b, 0)
<1>1. row \in LedgerRows /\ WorthTo(row, a) = 0
  BY LedgerRowTyped, RowWorth
<1>2. ledger \in Seq(LedgerRows)
  BY DEF MarketIInv, MarketTypeOK
<1> HIDE DEF row
<1>3. DeltaIn(ledger, a) \in Int /\ DeltaIn(ledger', a) = DeltaIn(ledger, a) + WorthTo(row, a)
  BY <1>1, <1>2, DeltaAppend DEF row
<1>4. QED
  BY <1>1, <1>3, DeltaOfLedger

(* The rows of a sale take the price from the buyer and give the seller what
   the tax leaves. *)
LEMMA SaleDelta ==
    ASSUME MarketIInv, NEW k \in Keys, NEW buyer \in Actors, NEW seller \in Actors,
           NEW price \in Nat, NEW tax \in 0..price,
           ledger' = ledger \o SaleRows(k, buyer, seller, price, tax),
           NEW a
    PROVE  /\ Delta(a) \in Int
           /\ Delta(a)' = Delta(a) - (IF buyer = a THEN price ELSE 0)
                            + (IF seller = a THEN price - tax ELSE 0)
<1> DEFINE debit == Row("debit", k, buyer, price)
           credit == Row("credit", k, seller, price - tax)
           taxed == Row("tax", k, NoActor, tax)
           one == Append(ledger, debit)
           two == Append(one, credit)
           three == Append(two, taxed)
           loss == IF buyer = a THEN price ELSE 0
           gain == IF seller = a THEN price - tax ELSE 0
<1>1. ledger \in Seq(LedgerRows)
  BY DEF MarketIInv, MarketTypeOK
<1>2. tax \in Nat /\ price - tax \in Nat
  OBVIOUS
<1>3. debit \in LedgerRows /\ WorthTo(debit, a) = -loss /\ loss \in Int
  <2>1. debit \in LedgerRows
    BY LedgerRowTyped
  <2>2. QED
    BY <2>1, RowWorth
<1>4. credit \in LedgerRows /\ WorthTo(credit, a) = gain /\ gain \in Int
  <2>1. credit \in LedgerRows
    BY <1>2, LedgerRowTyped
  <2>2. QED
    BY <1>2, <2>1, RowWorth
<1>5. taxed \in LedgerRows /\ WorthTo(taxed, a) = 0
  <2>1. taxed \in LedgerRows
    BY <1>2, LedgerRowTyped
  <2>2. QED
    BY <1>2, <2>1, RowWorth
<1> HIDE DEF debit, credit, taxed, loss, gain
<1>6. /\ one \in Seq(LedgerRows) /\ DeltaIn(ledger, a) \in Int
      /\ DeltaIn(one, a) = DeltaIn(ledger, a) + WorthTo(debit, a)
  BY <1>1, <1>3, DeltaAppend
<1>7. ledger' = three
  BY <1>1, <1>3, <1>4, <1>5 DEF debit, credit, taxed, SaleRows
<1> HIDE DEF one
<1>8. /\ two \in Seq(LedgerRows)
      /\ DeltaIn(two, a) = DeltaIn(one, a) + WorthTo(credit, a)
  BY <1>4, <1>6, DeltaAppend
<1> HIDE DEF two
<1>9. DeltaIn(three, a) = DeltaIn(two, a) + WorthTo(taxed, a)
  BY <1>5, <1>8, DeltaAppend
<1> HIDE DEF three
<1>10. DeltaIn(ledger', a) = DeltaIn(ledger, a) - loss + gain
  <2>1. DeltaIn(two, a) = DeltaIn(ledger, a) - loss + gain
    BY <1>3, <1>4, <1>6, <1>8
  <2>2. DeltaIn(three, a) = DeltaIn(two, a)
    BY <1>3, <1>4, <1>5, <1>6, <1>9, <2>1
  <2>3. QED
    BY <1>7, <2>1, <2>2
<1>11. QED
  BY <1>6, <1>10, DeltaOfLedger DEF loss, gain

(* The rows of a gift move its sum from the tamer to the soul. *)
LEMMA GiftDelta ==
    ASSUME MarketIInv, NEW t \in Actors, NEW s \in Actors, NEW sum \in Nat,
           ledger' = ledger \o << Row("debit", "fund-soul", t, sum),
                                  Row("credit", "fund-soul", s, sum) >>,
           NEW a
    PROVE  /\ Delta(a) \in Int
           /\ Delta(a)' = Delta(a) - (IF t = a THEN sum ELSE 0) + (IF s = a THEN sum ELSE 0)
<1> DEFINE debit == Row("debit", "fund-soul", t, sum)
           credit == Row("credit", "fund-soul", s, sum)
           one == Append(ledger, debit)
           two == Append(one, credit)
           loss == IF t = a THEN sum ELSE 0
           gain == IF s = a THEN sum ELSE 0
<1>1. ledger \in Seq(LedgerRows)
  BY DEF MarketIInv, MarketTypeOK
<1>2. debit \in LedgerRows /\ WorthTo(debit, a) = -loss /\ loss \in Int
  <2>1. debit \in LedgerRows
    BY LedgerRowTyped
  <2>2. QED
    BY <2>1, RowWorth
<1>3. credit \in LedgerRows /\ WorthTo(credit, a) = gain /\ gain \in Int
  <2>1. credit \in LedgerRows
    BY LedgerRowTyped
  <2>2. QED
    BY <2>1, RowWorth
<1> HIDE DEF debit, credit, loss, gain
<1>4. /\ one \in Seq(LedgerRows) /\ DeltaIn(ledger, a) \in Int
      /\ DeltaIn(one, a) = DeltaIn(ledger, a) + WorthTo(debit, a)
  BY <1>1, <1>2, DeltaAppend
<1>5. ledger' = two
  BY <1>1, <1>2, <1>3 DEF debit, credit
<1> HIDE DEF one
<1>6. DeltaIn(two, a) = DeltaIn(one, a) + WorthTo(credit, a)
  BY <1>3, <1>4, DeltaAppend
<1> HIDE DEF two
<1>7. DeltaIn(ledger', a) = DeltaIn(ledger, a) - loss + gain
  BY <1>2, <1>3, <1>4, <1>5, <1>6
<1>8. QED
  BY <1>4, <1>7, DeltaOfLedger DEF loss, gain

-----------------------------------------------------------------------------
(* When every listing has the id that was minted for it, an id is listed   *)
(* once: a purchase finds the listing it was made for, at the price that   *)
(* is held for it, or no listing.                                          *)
FreshIds == \A r \in Requests : r.kind = "market_list" => r.listing = Minted

OnceListed ==
    /\ \A l \in Keys : Exists(l) => status[l] = "adjudicated"
    /\ \A k \in Keys : Purchase(k) /\ request[k].listing \in Keys
                       => status[request[k].listing] = "adjudicated"
    /\ \A k \in Keys : escrow[k] = "held" /\ Exists(request[k].listing)
                       => amount[k] = Price(request[k].listing)

(* A step that lists nothing lists nothing twice. *)
LEMMA NothingListed ==
    ASSUME MarketIInv, OnceListed, [QuietNext]_pumpVars, UNCHANGED <<request, amount>>,
           \/ UNCHANGED market
           \/ \E l \in Listings : market' = [market EXCEPT ![l] = NoListing],
           \A k \in Keys : escrow'[k] = "held" => escrow[k] = "held"
    PROVE  OnceListed'
<1>1. \A k \in Keys : status[k] = "adjudicated" => status'[k] = "adjudicated"
  BY QuietStepFinal DEF MarketIInv, MarketTypeOK, Settled
<1>2. \A l \in Listings : market'[l] # NoListing => market'[l] = market[l]
  BY DEF MarketIInv, MarketTypeOK
<1>3. \A l \in Keys : Exists(l)' => status'[l] = "adjudicated"
  BY <1>1, <1>2 DEF OnceListed, Exists, Listings
<1>4. \A k \in Keys : Purchase(k)' /\ request'[k].listing \in Keys
                       => status'[request'[k].listing] = "adjudicated"
  BY <1>1 DEF OnceListed, Purchase
<1>5. \A k \in Keys : (escrow[k] = "held" /\ Exists(request[k].listing)
                         => amount[k] = Price(request[k].listing))'
  BY <1>2, BuyerOf DEF OnceListed, Exists, Price
<1>6. QED
  BY <1>3, <1>4, <1>5 DEF OnceListed

(* Taking in a request lists nothing twice. *)
LEMMA EnqueueOnce ==
    ASSUME MarketIInv, OnceListed, NEW k \in Keys, NEW r \in Requests,
           EnqueueList(k, r) \/ EnqueueBuy(k, r) \/ EnqueueCancel(k, r)
    PROVE  OnceListed'
<1>1. /\ status[k] = "absent" /\ escrow[k] = "none"
      /\ status' = [status EXCEPT ![k] = "pending"]
      /\ request' = [request EXCEPT ![k] = r]
      /\ UNCHANGED market
  BY DEF EnqueueList, EnqueueBuy, EnqueueCancel, Record, Insert, MarketIInv,
         Recorded, EscrowFollowsIntent, Purchase, worldVars
<1>2. \A l \in Keys : status[l] = "adjudicated" => status'[l] = "adjudicated"
  BY <1>1 DEF MarketIInv, MarketTypeOK, PumpTypeOK
<1>3. \A l \in Keys : Exists(l)' => status'[l] = "adjudicated"
  BY <1>1, <1>2 DEF OnceListed, Exists
<1>4. \A j \in Keys \ {k} : request'[j] = request[j]
  BY <1>1 DEF MarketIInv, MarketTypeOK
<1>5. request'[k] = r
  BY <1>1 DEF MarketIInv, MarketTypeOK
<1>6. r.kind = "market_buy" =>
        /\ Exists(r.listing)
        /\ escrow' = [escrow EXCEPT ![k] = "held"]
        /\ amount' = [amount EXCEPT ![k] = Price(r.listing)]
  BY DEF EnqueueList, EnqueueBuy, EnqueueCancel
<1>7. r.kind # "market_buy" => UNCHANGED <<escrow, amount>>
  BY DEF EnqueueList, EnqueueBuy, EnqueueCancel
<1>8. \A j \in Keys : Purchase(j)' /\ request'[j].listing \in Keys
                       => status'[request'[j].listing] = "adjudicated"
  BY <1>2, <1>4, <1>5, <1>6 DEF OnceListed, Purchase
<1>9. \A j \in Keys \ {k} : escrow'[j] = escrow[j] /\ amount'[j] = amount[j]
  BY <1>6, <1>7 DEF MarketIInv, MarketTypeOK
<1>10. escrow'[k] = "held" /\ Exists(r.listing) => amount'[k] = Price(r.listing)
  BY <1>1, <1>6, <1>7 DEF MarketIInv, MarketTypeOK
<1>11. \A j \in Keys : (escrow[j] = "held" /\ Exists(request[j].listing)
                         => amount[j] = Price(request[j].listing))'
  <2> TAKE j \in Keys
  <2>1. \A l : Exists(l)' <=> Exists(l)
    BY <1>1 DEF Exists
  <2>2. \A l : Price(l)' = Price(l)
    BY <1>1 DEF Price
  <2>3. CASE j = k
    BY <1>1, <1>5, <1>10, <2>3 DEF Exists, Price
  <2>4. CASE j # k
    BY <1>1, <1>4, <1>9, <2>4 DEF OnceListed, Exists, Price
  <2>5. QED
    BY <2>3, <2>4
<1>12. QED
  BY <1>3, <1>8, <1>11 DEF OnceListed

(* A fresh listing id is listed for the first time. *)
LEMMA ListOnce ==
    ASSUME FreshIds, MarketIInv, OnceListed, NEW k \in Keys, AdjudicateList(k)
    PROVE  OnceListed'
<1>1. /\ status[k] = "pending" /\ request[k] \in Requests
      /\ status' = [status EXCEPT ![k] = "adjudicated"]
      /\ request[k].kind = "market_list"
      /\ UNCHANGED <<request, escrow, amount>>
  BY PendingRequest DEF AdjudicateList, Settle, MarketIInv, escrowVars
<1>2. ListingOf(k) = k
  BY <1>1 DEF ListingOf, FreshIds
<1>3. \A l \in Listings \ {k} : market'[l] = market[l]
  BY <1>2 DEF AdjudicateList, MarketIInv, MarketTypeOK
<1>4. /\ status'[k] = "adjudicated"
      /\ \A l \in Keys \ {k} : status'[l] = status[l]
  BY <1>1 DEF MarketIInv, MarketTypeOK, PumpTypeOK
<1>5. \A l \in Keys : Exists(l)' => status'[l] = "adjudicated"
  BY <1>3, <1>4 DEF OnceListed, Exists, Listings
<1>6. \A j \in Keys : Purchase(j)' /\ request'[j].listing \in Keys
                      => status'[request'[j].listing] = "adjudicated"
  BY <1>1, <1>4 DEF OnceListed, Purchase
<1>7. \A j \in Keys : escrow[j] = "held" =>
        request[j].listing \in Listings \ {k}
  BY <1>1, BuyerOf DEF OnceListed
<1>8. \A j \in Keys : (escrow[j] = "held" /\ Exists(request[j].listing)
                         => amount[j] = Price(request[j].listing))'
  BY <1>1, <1>3, <1>7 DEF OnceListed, Exists, Price
<1>9. QED
  BY <1>5, <1>6, <1>8 DEF OnceListed

(* Where clients mint fresh ids, no step lists an id twice. *)
LEMMA OnceStep ==
    ASSUME FreshIds, MarketIInv, OnceListed, [Next]_vars
    PROVE  OnceListed'
<1>1. [QuietNext]_pumpVars
  BY MarketStepPumps
<1>2. ASSUME UNCHANGED <<request, amount, escrow, market>> PROVE OnceListed'
  BY <1>1, <1>2, NothingListed
<1>3. ASSUME NEW k \in Keys, Enqueue(k) PROVE OnceListed'
  BY <1>3, EnqueueOnce DEF Enqueue
<1>4. ASSUME NEW k \in Keys, AdjudicateIntent(k) PROVE OnceListed'
  <2>1. request[k] \in Requests
    BY <1>4, PendingRequest
       DEF AdjudicateIntent, AdjudicateList, RejectList, AdjudicateCancel,
           RejectCancel, AdjudicateBuy, RejectGone, RejectShort, Settle, MarketIInv
  <2>2. request[k].kind # "market_list" => request[k].listing \in Listings
    BY <2>1, RequestParts
  <2>3. CASE AdjudicateList(k)
    BY <2>3, ListOnce
  <2>4. CASE AdjudicateCancel(k)
    BY <1>1, <2>2, <2>4, NothingListed DEF AdjudicateCancel, HandOver, escrowVars
  <2>5. CASE AdjudicateBuy(k)
    <3>1. /\ UNCHANGED <<request, amount>>
          /\ market' = [market EXCEPT ![request[k].listing] = NoListing]
          /\ escrow' = [escrow EXCEPT ![k] = "applied"]
      BY <2>5 DEF AdjudicateBuy, HandOver
    <3>2. request[k].listing \in Listings
      BY <2>2, <2>5 DEF AdjudicateBuy
    <3>3. \A j \in Keys : escrow'[j] = "held" => escrow[j] = "held"
      BY <3>1 DEF MarketIInv, MarketTypeOK
    <3>4. QED
      BY <1>1, <3>1, <3>2, <3>3, NothingListed
  <2>6. CASE RejectGone(k) \/ RejectShort(k)
    <3>1. /\ UNCHANGED <<request, amount>>
          /\ \/ UNCHANGED market
             \/ market' = [market EXCEPT ![request[k].listing] = NoListing]
          /\ Release(k) \/ UNCHANGED escrow
      BY <2>6 DEF RejectGone, RejectShort
    <3>2. request[k].listing \in Listings
      BY <2>2, <2>6 DEF RejectGone, RejectShort
    <3>3. \A j \in Keys : escrow'[j] = "held" => escrow[j] = "held"
      BY <3>1 DEF Release, MarketIInv, MarketTypeOK
    <3>4. QED
      BY <1>1, <3>1, <3>2, <3>3, NothingListed
  <2>7. CASE RejectList(k) \/ RejectCancel(k)
    BY <1>2, <2>7 DEF RejectList, RejectCancel, escrowVars, worldVars
  <2>8. QED
    BY <1>4, <2>3, <2>4, <2>5, <2>6, <2>7 DEF AdjudicateIntent
<1>5. ASSUME NEW k \in Keys, Compensate(k) \/ Reconcile(k) PROVE OnceListed'
  <2>1. UNCHANGED <<request, amount, market>>
    BY <1>5 DEF Compensate, Reconcile
  <2>2. \A j \in Keys : escrow'[j] = "held" => escrow[j] = "held"
    BY <1>5 DEF Compensate, Release, Reconcile, MarketIInv, MarketTypeOK
  <2>3. QED
    BY <1>1, <2>1, <2>2, NothingListed
<1>6. ASSUME NEW k \in Keys, Resubmit(k) \/ RejectUncompensated(k) \/ LeavePending(k)
      PROVE  OnceListed'
  BY <1>2, <1>6 DEF Resubmit, RejectUncompensated, LeavePending, escrowVars, worldVars
<1>7. ASSUME BeginPass \/ StopTicking \/ CrashSim \/ BootSim \/ UNCHANGED vars
      PROVE  OnceListed'
  BY <1>2, <1>7 DEF BeginPass, StopTicking, CrashSim, BootSim, escrowVars, worldVars, vars
<1>8. ASSUME NEW t \in Tamers, NEW s \in Souls, NEW sum \in Gifts, FundSoul(t, s, sum)
      PROVE  OnceListed'
  BY <1>2, <1>8 DEF FundSoul, escrowVars
<1>9. QED
  BY <1>3, <1>4, <1>5, <1>6, <1>7, <1>8 DEF Next, FailedIntent

-----------------------------------------------------------------------------
(* The sums before anything has happened.                                  *)
LEMMA InitSums ==
    ASSUME Init
    PROVE  /\ Own = StartEssence
           /\ MarketFinite(market)
           /\ EssenceInWorld = Total(StartEssence, Actors)
           /\ \A i \in Items : ItemsInWorld(i) = StartItemsInWorld(i)
           /\ \A a \in Actors : Delta(a) = 0
           /\ OnceListed
<1>1. /\ essence = StartEssence /\ inv = StartItems /\ market = StartMarket
      /\ fund = 0 /\ ledger = <<>>
      /\ escrow = [k \in Keys |-> "none"] /\ request = [k \in Keys |-> NoRequest]
  BY DEF Init
<1>2. \A a : Holds(a) = {}
  BY <1>1 DEF Holds
<1>3. \A a : Held(a) = 0
  BY <1>2, TotalEmpty DEF Held
<1>4. Own = StartEssence
  BY <1>1, <1>3, StartTyped DEF Own
<1>5. MarketFinite(market)
  BY <1>1, StartTyped, WorldFinite DEF MarketFinite
<1>6. Total(StartEssence, Actors) \in Int
  <2>1. Ints(StartEssence, Actors)
    BY StartTyped DEF Ints
  <2>2. QED
    BY <2>1, ActorsFinite, TotalInt
<1>7. EssenceInWorld = Total(StartEssence, Actors)
  BY <1>1, <1>4, <1>6 DEF EssenceInWorld
<1>8. \A i \in Items : ItemsInWorld(i) = StartItemsInWorld(i)
  BY <1>1 DEF ItemsInWorld, StartItemsInWorld
<1>9. \A a : RowsOf(a) = {}
  BY <1>1 DEF RowsOf
<1>10. \A a : Delta(a) = 0
  BY <1>9, TotalEmpty DEF Delta
<1>11. OnceListed
  BY <1>1, StartTyped DEF OnceListed, Exists, Purchase
<1>12. QED
  BY <1>4, <1>5, <1>7, <1>8, <1>10, <1>11

(* A step that moves nothing leaves every sum. *)
LEMMA StillSums ==
    ASSUME Still
    PROVE  /\ MarketFinite(market)' <=> MarketFinite(market)
           /\ EssenceInWorld' = EssenceInWorld
           /\ \A i \in Items : ItemsInWorld(i)' = ItemsInWorld(i)
           /\ \A a \in Actors : Delta(a)' = Delta(a)
<1>1. /\ Own' = Own /\ inv' = inv /\ market' = market /\ fund' = fund
      /\ ledger' = ledger
  BY DEF Still
<1>2. EssenceInWorld' = EssenceInWorld
  BY <1>1 DEF EssenceInWorld
<1>3. \A i \in Items : ItemsInWorld(i)' = ItemsInWorld(i)
  BY <1>1 DEF ItemsInWorld
<1>4. \A a \in Actors : Delta(a)' = Delta(a)
  BY <1>1, DeltaOfLedger
<1>5. QED
  BY <1>1, <1>2, <1>3, <1>4

-----------------------------------------------------------------------------
(* Whatever ids the clients choose, the sums never grow.                   *)
SumsInt ==
    /\ EssenceInWorld \in Int
    /\ \A i \in Items : ItemsInWorld(i) \in Int

(* Every sum the accounts compare is an integer. *)
LEMMA SumsAreInt == MarketIInv /\ MarketFinite(market) => SumsInt
<1> SUFFICES ASSUME MarketIInv, MarketFinite(market) PROVE SumsInt
  OBVIOUS
<1>1. Ints(Own, Actors) /\ fund \in Int
  BY OwnParts DEF Ints, MarketIInv, MarketTypeOK
<1>2. EssenceInWorld \in Int
  BY <1>1, ActorsFinite, TotalInt DEF EssenceInWorld
<1>3. ASSUME NEW i \in Items PROVE ItemsInWorld(i) \in Int
  <2>1. Ints([a \in Actors |-> inv[a][i]], Actors)
    BY DEF Ints, MarketIInv, MarketTypeOK
  <2>2. Shelved(inv, i) \in Int
    BY <2>1, ActorsFinite, TotalInt DEF Shelved
  <2>3. Reserved(market, i) \in Int
    BY ReservedParts
  <2>4. QED
    BY <2>2, <2>3, ItemCountSum DEF ItemsInWorld
<1>4. QED
  BY <1>2, <1>3 DEF SumsInt

(* A sale and a cancel leave the items in the world. *)
LEMMA HandOverSums ==
    ASSUME MarketIInv, MarketFinite(market), NEW k \in Keys, request[k] \in Requests,
           CancelMove(k) \/ SaleMove(k)
    PROVE  /\ MarketFinite(market')
           /\ \A i \in Items : ItemsInWorld(i)' = ItemsInWorld(i)
<1>1. CASE CancelMove(k)
  <2>1. request[k].listing \in Listings /\ Exists(request[k].listing)
    BY <1>1, RequestParts DEF CancelMove, TakesBack
  <2>2. market[request[k].listing].seller \in Actors
    BY <2>1, ListingParts DEF MarketIInv
  <2>3. QED
    BY <1>1, <2>1, <2>2, HandOverItems DEF CancelMove, TakesBack
<1>2. CASE SaleMove(k)
  <2>1. /\ request[k].listing \in Listings /\ Exists(request[k].listing)
        /\ request[k].party \in Actors
        /\ HandOver(request[k].listing, request[k].party)
    BY <1>2, BuyerOf DEF SaleMove, Sells
  <2>2. QED
    BY <2>1, HandOverItems
<1>3. QED
  BY <1>1, <1>2

(* What the world starts with is summed up to integers. *)
LEMMA StartSums ==
    /\ Total(StartEssence, Actors) \in Int
    /\ \A i \in Items : StartItemsInWorld(i) \in Int
<1>1. Ints(StartEssence, Actors)
  BY StartTyped DEF Ints
<1>2. ASSUME NEW i \in Items PROVE StartItemsInWorld(i) \in Int
  <2>1. Ints([a \in Actors |-> StartItems[a][i]], Actors)
    BY StartTyped DEF Ints
  <2>2. Shelved(StartItems, i) \in Int
    BY <2>1, ActorsFinite, TotalInt DEF Shelved
  <2>3. MarketFinite(StartMarket)
    BY StartTyped, WorldFinite DEF MarketFinite
  <2>4. Reserved(StartMarket, i) \in Int
    BY <2>3, ReservedParts
  <2>5. QED
    BY <2>2, <2>4, ItemCountSum DEF StartItemsInWorld
<1>3. QED
  BY <1>1, <1>2, ActorsFinite, TotalInt

AccountsInv == MarketIInv /\ MarketFinite(market) /\ NothingCreated

NoGrowth ==
    /\ MarketFinite(market)'
    /\ EssenceInWorld' <= EssenceInWorld
    /\ \A i \in Items : ItemsInWorld(i)' <= ItemsInWorld(i)

(* Every step keeps the accounts. *)
LEMMA AccountsStep ==
    ASSUME AccountsInv, [Next]_vars
    PROVE  AccountsInv'
<1>1. MarketIInv'
  BY MarketStepInv DEF AccountsInv
<1>2. NoGrowth
  <2> USE DEF AccountsInv, NoGrowth
  <2>1. EssenceInWorld \in Int /\ \A i \in Items : ItemsInWorld(i) \in Int
    BY SumsAreInt DEF SumsInt
  <2>2. CASE Still
    BY <2>1, <2>2, StillSums
  <2>3. ASSUME NEW k \in Keys, Moved(k) PROVE NoGrowth
    <3>1. request[k] \in Requests
      BY <2>3 DEF Moved
    <3>2. CASE ListMove(k)
      <4>1. EssenceInWorld' = EssenceInWorld
        BY <3>2 DEF ListMove, Offers, EssenceInWorld
      <4>2. QED
        BY <2>1, <3>1, <3>2, <4>1, ListItems
    <3>3. CASE CancelMove(k)
      <4>1. EssenceInWorld' = EssenceInWorld
        BY <3>3 DEF CancelMove, TakesBack, EssenceInWorld
      <4>2. QED
        BY <2>1, <3>1, <3>3, <4>1, HandOverSums
    <3>4. CASE SaleMove(k)
      <4>1. EssenceInWorld' <= EssenceInWorld
        BY <3>4, SaleEssence
      <4>2. QED
        BY <2>1, <3>1, <3>4, <4>1, HandOverSums
    <3>5. CASE LossMove(k)
      <4>1. EssenceInWorld' = EssenceInWorld
        BY <3>5 DEF LossMove, Loses, EssenceInWorld
      <4>2. QED
        BY <2>1, <3>5, <4>1, LossItems
    <3>6. QED
      BY <2>3, <3>2, <3>3, <3>4, <3>5 DEF Moved
  <2>4. ASSUME NEW t \in Tamers, NEW s \in Souls, NEW sum \in Gifts, Gives(t, s, sum)
        PROVE  NoGrowth
    <3>1. EssenceInWorld' = EssenceInWorld
      BY <2>4, GiftEssence
    <3>2. UNCHANGED <<inv, market>>
      BY <2>4 DEF Gives
    <3>3. QED
      BY <2>1, <3>1, <3>2 DEF ItemsInWorld
  <2> HIDE DEF NoGrowth
  <2>5. QED
    BY <2>2, <2>3, <2>4, MarketStepMoves DEF Moves
<1>3. MarketFinite(market)'
  BY <1>2 DEF NoGrowth
<1>4. SumsInt /\ SumsInt'
  BY <1>1, <1>3, SumsAreInt, PTL DEF AccountsInv
<1>5. EssenceInWorld' <= Total(StartEssence, Actors)
  BY <1>2, <1>4, StartSums DEF NothingCreated, AccountsInv, SumsInt, NoGrowth
<1>6. ASSUME NEW i \in Items PROVE ItemsInWorld(i)' <= StartItemsInWorld(i)
  BY <1>2, <1>4, StartSums DEF NothingCreated, AccountsInv, SumsInt, NoGrowth
<1>7. QED
  BY <1>1, <1>3, <1>5, <1>6 DEF AccountsInv, NothingCreated

(* Whatever ids the clients choose, and however their listings, purchases, *)
(* cancellations, crashes and failed writes fall together, no step of the  *)
(* market makes essence or items out of nothing (market.py:24-34).         *)
THEOREM NothingFromNothing == Spec => []NothingCreated
<1>1. Init => AccountsInv
  <2> SUFFICES ASSUME Init PROVE AccountsInv
    OBVIOUS
  <2>1. MarketIInv
    BY MarketInitInv
  <2>2. MarketFinite(market) /\ NothingCreated
    BY InitSums, StartSums DEF NothingCreated
  <2>3. QED
    BY <2>1, <2>2 DEF AccountsInv
<1>2. AccountsInv => NothingCreated
  BY DEF AccountsInv
<1>3. QED
  BY <1>1, <1>2, AccountsStep, PTL DEF Spec

-----------------------------------------------------------------------------
(* With minted ids a purchase pays exactly the price of its listing, and   *)
(* no listing is lost.                                                     *)
BalancedInv ==
    /\ MarketIInv
    /\ MarketFinite(market)
    /\ OnceListed
    /\ EssenceConserved
    /\ ItemsConserved
    /\ LedgerExplainsWallets

(* What an actor owns is what its ledger rows explain.                     *)
OwnExplained == \A a \in Actors : Own[a] = StartEssence[a] + Delta(a)

(* The ledger explains the wallets exactly if it explains what each actor
   owns. *)
LEMMA ExplainedOwn == LedgerExplainsWallets <=> OwnExplained
BY DEF LedgerExplainsWallets, OwnExplained, Own

(* Where ids are listed once, a sale takes exactly what the buyer had held. *)
LEMMA ExactSale ==
    ASSUME OnceListed, NEW k \in Keys, SaleMove(k)
    PROVE  amount[k] = Price(request[k].listing)
BY DEF OnceListed, SaleMove, Sells

(* Where ids are listed once, no sale loses essence. *)
LEMMA NoLoss ==
    ASSUME MarketIInv, OnceListed, NEW k \in Keys
    PROVE  ~LossMove(k)
<1> SUFFICES ASSUME LossMove(k) PROVE FALSE
  OBVIOUS
<1>1. /\ amount[k] = Price(request[k].listing)
      /\ amount[k] < Price(request[k].listing)
  BY DEF OnceListed, LossMove, Loses
<1>2. amount[k] \in Nat
  BY BuyerOf DEF LossMove
<1>3. QED
  BY <1>1, <1>2

(* A sale at its held price is explained by the rows it posts. *)
LEMMA SaleExplained ==
    ASSUME MarketIInv, OnceListed, OwnExplained, NEW k \in Keys, SaleMove(k)
    PROVE  OwnExplained'
<1> DEFINE l == request[k].listing
           buyer == request[k].party
           seller == market[l].seller
           price == Price(l)
<1>1. PICK tax \in 0..price : Sells(k, l, buyer, tax)
  BY DEF SaleMove
<1>2. buyer \in Actors /\ l \in Listings /\ amount[k] = price
  BY BuyerOf, ExactSale DEF SaleMove
<1>3. seller \in Actors /\ price \in Nat
  BY <1>1, <1>2, ListingParts DEF Sells, MarketIInv
<1>4. PICK paid : paid = [Own EXCEPT ![buyer] = @ - price]
  OBVIOUS
<1>5. /\ Own' = [paid EXCEPT ![seller] = @ + price - tax]
      /\ ledger' = ledger \o SaleRows(k, buyer, seller, price, tax)
  BY <1>1, <1>2, <1>4 DEF Sells
<1>6. Own \in [Actors -> Int]
  BY OwnParts
<1> HIDE DEF price, seller, buyer
<1>7. ASSUME NEW a \in Actors PROVE Own'[a] = StartEssence[a] + Delta(a)'
  <2> DEFINE loss == IF buyer = a THEN price ELSE 0
             gain == IF seller = a THEN price - tax ELSE 0
  <2>1. Delta(a) \in Int /\ Delta(a)' = Delta(a) - loss + gain
    <3>1. tax \in 0..price /\ ledger' = ledger \o SaleRows(k, buyer, seller, price, tax)
      BY <1>1, <1>5 DEF price
    <3>2. QED
      BY <1>2, <1>3, <3>1, SaleDelta
  <2>2. loss \in Int /\ gain \in Int
    BY <1>3
  <2>3. paid[a] = Own[a] - loss /\ paid \in [Actors -> Int]
    BY <1>2, <1>3, <1>4, <1>6
  <2>4. Own'[a] = paid[a] + gain
    <3>1. CASE seller = a
      <4>1. Own'[a] = paid[a] + price - tax
        BY <1>3, <1>5, <2>3, <3>1
      <4>2. paid[a] \in Int /\ gain = price - tax
        BY <2>3, <3>1
      <4> HIDE DEF gain
      <4>3. QED
        BY <1>3, <4>1, <4>2
    <3>2. CASE seller # a
      BY <1>3, <1>5, <2>3, <3>2
    <3>3. QED
      BY <3>1, <3>2
  <2> HIDE DEF loss, gain
  <2>5. Own[a] = StartEssence[a] + Delta(a) /\ StartEssence[a] \in Int
    BY StartTyped DEF OwnExplained
  <2>6. QED
    BY <2>1, <2>2, <2>3, <2>4, <2>5
<1>8. QED
  BY <1>7 DEF OwnExplained

(* A gift is explained by the rows it posts. *)
LEMMA GiftExplained ==
    ASSUME MarketIInv, OwnExplained, NEW t \in Tamers, NEW s \in Souls, NEW sum \in Gifts,
           Gives(t, s, sum)
    PROVE  OwnExplained'
<1>1. t \in Actors /\ s \in Actors /\ sum \in Nat
  BY GiftsTyped DEF Actors
<1>2. PICK paid : paid = [Own EXCEPT ![t] = @ - sum]
  OBVIOUS
<1>3. /\ Own' = [paid EXCEPT ![s] = @ + sum]
      /\ ledger' = ledger \o << Row("debit", "fund-soul", t, sum),
                                Row("credit", "fund-soul", s, sum) >>
  BY <1>2 DEF Gives
<1>4. Own \in [Actors -> Int]
  BY OwnParts
<1>5. ASSUME NEW a \in Actors PROVE Own'[a] = StartEssence[a] + Delta(a)'
  <2> DEFINE loss == IF t = a THEN sum ELSE 0
             gain == IF s = a THEN sum ELSE 0
  <2>1. Delta(a) \in Int /\ Delta(a)' = Delta(a) - loss + gain
    <3>1. ledger' = ledger \o << Row("debit", "fund-soul", t, sum),
                                 Row("credit", "fund-soul", s, sum) >>
      BY <1>3
    <3>2. QED
      BY <1>1, <3>1, GiftDelta
  <2>2. loss \in Int /\ gain \in Int
    BY <1>1
  <2>3. paid[a] = Own[a] - loss /\ paid \in [Actors -> Int]
    BY <1>1, <1>2, <1>4
  <2>4. Own'[a] = paid[a] + gain
    BY <1>1, <1>3, <2>3
  <2> HIDE DEF loss, gain
  <2>5. Own[a] = StartEssence[a] + Delta(a) /\ StartEssence[a] \in Int
    BY StartTyped DEF OwnExplained
  <2>6. QED
    BY <2>1, <2>2, <2>3, <2>4, <2>5
<1>6. QED
  BY <1>5 DEF OwnExplained

Balanced ==
    /\ MarketFinite(market)'
    /\ EssenceInWorld' = EssenceInWorld
    /\ \A i \in Items : ItemsInWorld(i)' = ItemsInWorld(i)
    /\ OwnExplained'

(* A step that moves nothing and posts nothing of worth stays explained. *)
LEMMA SameExplained ==
    ASSUME OwnExplained, UNCHANGED Own, \A a \in Actors : Delta(a)' = Delta(a)
    PROVE  OwnExplained'
BY DEF OwnExplained

(* Each move of the market keeps the ledger and the wallets in balance. *)
LEMMA MovedBalances ==
    ASSUME MarketIInv, MarketFinite(market), OnceListed, OwnExplained,
           NEW k \in Keys, Moved(k)
    PROVE  Balanced
<1>1. request[k] \in Requests /\ EssenceInWorld \in Int
  BY SumsAreInt DEF Moved, SumsInt
<1>2. CASE ListMove(k)
  <2>1. UNCHANGED <<Own, fund>>
    BY <1>2 DEF ListMove, Offers
  <2>2. ledger' = Append(ledger, Row("memo", k, request[k].party, 0))
    BY <1>2 DEF ListMove, Offers
  <2>3. \A a \in Actors : Delta(a)' = Delta(a)
    BY <1>1, <2>2, RequestParts, MemoDelta
  <2>4. EssenceInWorld' = EssenceInWorld
    BY <2>1 DEF EssenceInWorld
  <2>5. QED
    BY <1>1, <1>2, <2>1, <2>3, <2>4, ListItems, SameExplained DEF Balanced
<1>3. CASE CancelMove(k)
  <2>1. UNCHANGED <<Own, fund>>
    BY <1>3 DEF CancelMove, TakesBack
  <2>2. ledger' = Append(ledger, Row("memo", k, request[k].by, 0))
    BY <1>3 DEF CancelMove, TakesBack
  <2>3. \A a \in Actors : Delta(a)' = Delta(a)
    BY <1>1, <2>2, RequestParts, MemoDelta
  <2>4. EssenceInWorld' = EssenceInWorld
    BY <2>1 DEF EssenceInWorld
  <2>5. QED
    BY <1>1, <1>3, <2>1, <2>3, <2>4, HandOverSums, SameExplained DEF Balanced
<1>4. CASE SaleMove(k)
  <2>1. EssenceInWorld' = EssenceInWorld
    BY <1>1, <1>4, SaleEssence, ExactSale
  <2>2. OwnExplained'
    BY <1>4, SaleExplained
  <2>3. QED
    BY <1>1, <1>4, <2>1, <2>2, HandOverSums DEF Balanced
<1>5. QED
  BY <1>2, <1>3, <1>4, NoLoss DEF Moved

(* Where clients mint fresh ids, every step keeps the balance. *)
LEMMA BalancedStep ==
    ASSUME FreshIds, BalancedInv, [Next]_vars
    PROVE  BalancedInv'
<1>1. MarketIInv' /\ OnceListed'
  BY MarketStepInv, OnceStep DEF BalancedInv
<1>2. OwnExplained
  BY ExplainedOwn DEF BalancedInv
<1>3. Balanced
  <2>1. CASE Still
    <3>1. UNCHANGED Own /\ \A a \in Actors : Delta(a)' = Delta(a)
      BY <2>1, StillSums DEF Still
    <3>2. OwnExplained'
      BY <1>2, <3>1, SameExplained
    <3>3. QED
      BY <2>1, <3>2, StillSums DEF Balanced, BalancedInv
  <2>2. ASSUME NEW k \in Keys, Moved(k) PROVE Balanced
    BY <1>2, <2>2, MovedBalances DEF BalancedInv
  <2>3. ASSUME NEW t \in Tamers, NEW s \in Souls, NEW sum \in Gifts, Gives(t, s, sum)
        PROVE  Balanced
    <3>1. EssenceInWorld' = EssenceInWorld
      BY <2>3, GiftEssence DEF BalancedInv
    <3>2. UNCHANGED <<inv, market>>
      BY <2>3 DEF Gives
    <3>3. OwnExplained'
      BY <1>2, <2>3, GiftExplained DEF BalancedInv
    <3>4. QED
      BY <3>1, <3>2, <3>3 DEF Balanced, BalancedInv, ItemsInWorld
  <2>4. QED
    BY <2>1, <2>2, <2>3, MarketStepMoves DEF Moves, BalancedInv
<1>4. EssenceConserved' /\ ItemsConserved' /\ MarketFinite(market)'
  BY <1>3 DEF Balanced, BalancedInv, EssenceConserved, ItemsConserved
<1>5. LedgerExplainsWallets'
  BY <1>3, ExplainedOwn, PTL DEF Balanced
<1>6. QED
  BY <1>1, <1>4, <1>5 DEF BalancedInv

(* The market starts in balance. *)
LEMMA BalancedInit ==
    ASSUME Init
    PROVE  BalancedInv
<1>1. MarketIInv
  BY MarketInitInv
<1>2. EssenceConserved /\ ItemsConserved /\ MarketFinite(market) /\ OnceListed
  BY InitSums DEF EssenceConserved, ItemsConserved
<1>3. OwnExplained
  BY InitSums, StartTyped DEF OwnExplained
<1>4. QED
  BY <1>1, <1>2, <1>3, ExplainedOwn DEF BalancedInv

(* Where clients mint fresh ids, every reachable state is in balance. *)
LEMMA BalancedInvariant ==
    ASSUME FreshIds
    PROVE  Spec => []BalancedInv
BY BalancedInit, BalancedStep, PTL DEF Spec

(* With minted ids no essence is lost either: wallets, open holds and the  *)
(* Essence Fund always add up to what the wallets started with             *)
(* (market.py:24-26).                                                      *)
THEOREM EssenceIsConserved ==
    ASSUME FreshIds
    PROVE  Spec => []EssenceConserved
<1>1. BalancedInv => EssenceConserved
  BY DEF BalancedInv
<1>2. QED
  BY <1>1, BalancedInvariant, PTL

(* And no item is: a lot is in an inventory or reserved by its listing.    *)
THEOREM ItemsAreConserved ==
    ASSUME FreshIds
    PROVE  Spec => []ItemsConserved
<1>1. BalancedInv => ItemsConserved
  BY DEF BalancedInv
<1>2. QED
  BY <1>1, BalancedInvariant, PTL

(* The ledger always explains the wallets: no step writes one without the  *)
(* other, whatever fails between them (market.py:748-749).                 *)
THEOREM LedgerIsTruth ==
    ASSUME FreshIds
    PROVE  Spec => []LedgerExplainsWallets
<1>1. BalancedInv => LedgerExplainsWallets
  BY DEF BalancedInv
<1>2. QED
  BY <1>1, BalancedInvariant, PTL

-----------------------------------------------------------------------------
(* The moves are the steps of Exchange.                                    *)
LEMMA SaleIsExchange ==
    ASSUME MarketIInv, OnceListed, NEW k \in Keys, SaleMove(k)
    PROVE  Promise!Sell(request[k].party, request[k].listing)
<1> DEFINE l == request[k].listing
           buyer == request[k].party
           seller == market[l].seller
           price == market[l].lot.price
<1>1. PICK tax \in 0..price : Sells(k, l, buyer, tax)
  BY DEF SaleMove, Price
<1>2. buyer \in Actors /\ l \in Listings /\ amount[k] = price /\ Exists(l)
  BY <1>1, BuyerOf, ExactSale DEF SaleMove, Price, Sells
<1>3. price \in Nat /\ fund \in Nat /\ seller \in Actors
  BY <1>2, ListingParts DEF Price, MarketIInv, MarketTypeOK
<1>4. /\ Own[buyer] >= price
      /\ Own' = [[Own EXCEPT ![buyer] = @ - price] EXCEPT ![seller] = @ + price - tax]
      /\ fund' = fund + tax
      /\ market' = [market EXCEPT ![l] = NoListing]
      /\ inv' = [inv EXCEPT ![buyer][market[l].lot.item] = @ + market[l].lot.qty]
  BY <1>1, <1>2 DEF Sells, HandOver, Price
<1>5. fund' \in fund .. fund + price /\ fund' - fund = tax
  <2>1. fund' = fund + tax /\ tax \in 0..price
    BY <1>1, <1>4
  <2> HIDE DEF price, seller, buyer, l
  <2>2. tax \in Nat /\ tax <= price
    BY <1>3, <2>1
  <2>3. QED
    BY <1>3, <2>1, <2>2
<1>6. market[l] # NoListing
  BY <1>2 DEF Exists
<1> HIDE DEF price, seller
<1>7. Own' = [[Own EXCEPT ![buyer] = @ - price] EXCEPT ![seller] = @ + price - (fund' - fund)]
  BY <1>4, <1>5
<1>8. QED
  BY <1>4, <1>5, <1>6, <1>7 DEF Promise!Sell, price, seller

(* Every step of the market is a step of the abstract exchange, or a stutter
   of it. *)
LEMMA MarketStepExchanges ==
    ASSUME FreshIds, BalancedInv, [Next]_vars
    PROVE  [Promise!Next]_(Promise!exchangeVars)
<1>1. CASE Still
  BY <1>1 DEF Still, Promise!exchangeVars
<1>2. ASSUME NEW k \in Keys, Moved(k) PROVE Promise!Next
  <2> DEFINE r == request[k]
  <2>1. r \in Requests
    BY <1>2 DEF Moved
  <2>2. CASE ListMove(k)
    <3>1. Promise!Offer(r.party, r.lot, ListingOf(k))
      BY <2>2 DEF ListMove, Offers, Exists, Promise!Offer
    <3>2. r.kind = "market_list"
      BY <2>2 DEF ListMove
    <3>3. /\ r.party \in Actors /\ ListingOf(k) \in Listings
          /\ r.lot \in OfferedLots
      BY <2>1, <3>2, RequestParts DEF ListingOf, Listings, OfferedLots
    <3>4. QED
      BY <3>1, <3>3 DEF Promise!Next
  <2>3. CASE CancelMove(k)
    <3>1. Promise!TakeBack(r.listing)
      BY <2>3 DEF CancelMove, TakesBack, HandOver, Exists, Promise!TakeBack
    <3>2. r.listing \in Listings
      BY <2>1, <2>3, RequestParts DEF CancelMove
    <3>3. QED
      BY <3>1, <3>2 DEF Promise!Next
  <2>4. CASE SaleMove(k)
    <3>1. Promise!Sell(r.party, r.listing)
      BY <2>4, SaleIsExchange DEF BalancedInv
    <3>2. r.party \in Actors /\ r.listing \in Listings
      BY <2>4, BuyerOf DEF SaleMove, BalancedInv
    <3>3. QED
      BY <3>1, <3>2 DEF Promise!Next
  <2>5. QED
    BY <1>2, <2>2, <2>3, <2>4, NoLoss DEF Moved, BalancedInv
<1>3. ASSUME NEW t \in Tamers, NEW s \in Souls, NEW sum \in Gifts, Gives(t, s, sum)
      PROVE  Promise!Next
  <2>1. t # s /\ t \in Actors /\ s \in Actors /\ Own \in [Actors -> Nat]
    BY ActorsDisjoint, OwnParts DEF Actors, BalancedInv
  <2>2. t = Custodian[s] /\ Own[t] >= sum /\ UNCHANGED <<inv, market, fund>>
    BY <1>3 DEF Gives
  <2>3. Own'[s] = Own[s] + sum /\ Own' = [Own EXCEPT ![t] = @ - sum, ![s] = Own'[s]]
    BY <1>3, <2>1 DEF Gives
  <2>4. Promise!Give(s, sum)
    BY <2>2, <2>3 DEF Promise!Give
  <2>5. QED
    BY <2>4 DEF Promise!Next
<1>4. QED
  BY <1>1, <1>2, <1>3, MarketStepMoves DEF Moves, BalancedInv

(* Seen through what actors own, the whole protocol, with its intents,     *)
(* holds, refunds, crashes and boot sweeps, is an exchange in which a sale *)
(* is one indivisible step (market.py:1-35).                               *)
THEOREM MarketImplementsExchange ==
    ASSUME FreshIds
    PROVE  Spec => SalesAreExchanges
<1>1. Init => Promise!Init
  <2> SUFFICES ASSUME Init PROVE Promise!Init
    OBVIOUS
  <2>1. Own = StartEssence
    BY InitSums
  <2>2. QED
    BY <2>1 DEF Init, Promise!Init
<1>2. BalancedInv /\ [Next]_vars => [Promise!Next]_(Promise!exchangeVars)
  BY MarketStepExchanges
<1>3. QED
  BY <1>1, <1>2, BalancedInvariant, PTL DEF Spec, SalesAreExchanges, Promise!Spec

-----------------------------------------------------------------------------
(* An audit that repairs nothing, and has summed up for actors only.       *)
LookingOn ==
    /\ audit.repair = FALSE
    /\ Unread \subseteq Actors
    /\ DOMAIN baseline = Actors

(* No audit is under way at first. *)
LEMMA LookingOnInit == AuditInit => LookingOn
BY DEF AuditInit, LookingOn, Resting, Unread

(* An audit that repairs nothing goes on so. *)
LEMMA LookingOnStep ==
    ASSUME RepairModes \subseteq {FALSE}, LookingOn, [AuditNext]_auditVars
    PROVE  LookingOn'
<1>1. DOMAIN Resting.sums = {} /\ Resting.repair = FALSE
  BY DEF Resting
<1>2. ASSUME NEW repair \in RepairModes, SumLedger(repair) PROVE LookingOn'
  <2>1. /\ audit'.repair = FALSE /\ DOMAIN audit'.sums = Audited
        /\ baseline' = baseline
    BY <1>2 DEF SumLedger
  <2>2. Audited \subseteq Actors
    BY WatchedActors DEF Audited
  <2>3. QED
    BY <2>1, <2>2 DEF LookingOn, Unread
<1>3. ASSUME NEW a \in Unread, CheckWallet(a) PROVE LookingOn'
  <2>1. DOMAIN baseline' = Actors
    BY <1>3 DEF CheckWallet, LookingOn
  <2>2. \/ audit' = Resting
        \/ audit'.repair = FALSE /\ DOMAIN audit'.sums = Unread \ {a}
    <3> DEFINE rest == Unread \ {a}
               writes == \/ audit.writing
                         \/ audit.repair /\ Drifted(a)
                         \/ baseline[a] = NoBaseline
    <3>1. \/ audit' = Resting
          \/ audit' = [repair |-> audit.repair, sums |-> [b \in rest |-> audit.sums[b]],
                       writing |-> writes]
      BY <1>3, Zenon DEF CheckWallet
    <3> HIDE DEF rest, writes
    <3>2. \/ audit' = Resting
          \/ audit'.repair = audit.repair /\ DOMAIN audit'.sums = rest
      BY <3>1
    <3>3. QED
      BY <3>2 DEF LookingOn, rest
  <2>3. QED
    BY <1>1, <2>1, <2>2 DEF LookingOn, Unread
<1>4. CASE UNCHANGED <<audit, baseline>>
  BY <1>4 DEF LookingOn, Unread
<1>5. QED
  BY <1>2, <1>3, <1>4 DEF AuditNext, auditVars

(* An audit that repairs nothing leaves the tables of the market alone.    *)
LEMMA AuditsLookOn ==
    ASSUME LookingOn, [AuditNext]_auditVars
    PROVE  [Next]_vars
<1>1. ASSUME NEW repair \in RepairModes, SumLedger(repair) PROVE UNCHANGED vars
  BY <1>1 DEF SumLedger
<1>2. ASSUME NEW a \in Unread, CheckWallet(a) PROVE UNCHANGED vars
  BY <1>2 DEF CheckWallet, LookingOn, vars, worldVars
<1>3. QED
  BY <1>1, <1>2 DEF AuditNext, auditVars

(* Where the audit never repairs, it reports only an actor with a hold     *)
(* open, a baseline that was moved, or a row that its sum has missed.      *)
LEMMA AuditStepBlames ==
    ASSUME BalancedInv, LookingOn, NEW a \in Unread, CheckWallet(a), Drifted(a)
    PROVE  \/ Held(a) > 0
           \/ baseline'[a] # StartEssence[a]
           \/ audit.sums[a] # Delta(a)
<1>1. a \in Actors /\ essence[a] # BaselineOf(a) + audit.sums[a]
  BY DEF LookingOn, Drifted, Expected
<1>2. baseline'[a] = BaselineOf(a)
  BY <1>1 DEF CheckWallet, LookingOn
<1>3. essence[a] + Held(a) = StartEssence[a] + Delta(a)
  BY <1>1 DEF BalancedInv, LedgerExplainsWallets
<1>4. Held(a) \in Nat /\ essence[a] \in Int
  BY <1>1, OwnParts DEF BalancedInv
<1>5. QED
  BY <1>1, <1>2, <1>3, <1>4

(* An audit that repairs nothing blames nobody but an actor with essence   *)
(* held at that moment, or when its baseline was captured, or one for whom *)
(* something was posted between the sum and the read of its wallet: tables *)
(* written by the market and the gifts alone have no other drift           *)
(* (market.py:805-859).                                                    *)
THEOREM AuditsBlameHolds ==
    ASSUME FreshIds, RepairModes \subseteq {FALSE}
    PROVE  AuditSpec => AuditBlamesHolds
<1>1. AuditInit => BalancedInv /\ LookingOn
  BY BalancedInit, LookingOnInit DEF AuditInit
<1>2. BalancedInv /\ LookingOn /\ [AuditNext]_auditVars => (BalancedInv /\ LookingOn)'
  BY LookingOnStep, AuditsLookOn, BalancedStep DEF BalancedInv
<1>3. BalancedInv /\ LookingOn /\ [AuditNext]_auditVars
      => [\A a \in Unread :
             CheckWallet(a) /\ Drifted(a)
             => \/ Held(a) > 0
                \/ baseline'[a] # StartEssence[a]
                \/ audit.sums[a] # Delta(a)]_auditVars
  BY AuditStepBlames
<1>4. QED
  BY <1>1, <1>2, <1>3, PTL DEF AuditSpec, AuditBlamesHolds
=============================================================================
