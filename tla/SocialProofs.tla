---------------------------- MODULE SocialProofs ----------------------------
(***************************************************************************)
(* Proofs about the message board (Social), for any souls, tamers,         *)
(* messages, requests, prices and bounds, and any number of intents.       *)
(*                                                                         *)
(* Every step of the board is a step of the pump, so the pump's invariant  *)
(* carries over.  On top of it the inductive invariant BooksInv ties each  *)
(* row of `intents` to its request, its escrow and its debit; ThreadInv    *)
(* keeps the parents of the messages free of cycles, which is what makes   *)
(* the depth of a message and the tree of the board well defined; and      *)
(* MarksInv says what edits and deletions have done.                       *)
(***************************************************************************)
EXTENDS Social, IntentPumpProofs, SumTheorems

(* The tables hold what their columns say.                                 *)
TablesOK ==
    /\ request \in [Keys -> Requests \cup {NoRequest}]
    /\ escrow \in [Keys -> {"none", "held", "applied", "released"}]
    /\ essence \in [Souls -> Nat]
    /\ debits \in [Keys -> Nat]
    /\ board \in [Messages -> MessageType \cup {NoMessage}]
    /\ spent \in [Souls -> Nat]

Paid(k) == request[k] # NoRequest /\ Paying(request[k])

(* A row comes with its request; a paying one has an escrow, held while it *)
(* is pending and used up when it goes through, and the debit is the       *)
(* price.                                                                  *)
RowOK(k) ==
    /\ request[k] = NoRequest <=> status[k] = "absent"
    /\ ~Paid(k) => escrow[k] = "none"
    /\ Paid(k) /\ status[k] = "pending" => escrow[k] = "held"
    /\ Paid(k) /\ status[k] = "adjudicated" => escrow[k] = "applied"
    /\ Paid(k) /\ status[k] = "rejected" => escrow[k] \in {"held", "released"}
    /\ debits[k] = IF escrow[k] = "applied" THEN Price[k] ELSE 0

(* A key is on the board when its post or reply went through.              *)
PublishedOK(k) ==
    Exists(k) <=> status[k] = "adjudicated" /\ request[k].kind \in PaidKinds

BooksInv == TablesOK /\ \A k \in Keys : RowOK(k) /\ PublishedOK(k)

(* d gives each message the length of the chain of parents above it.       *)
Depths(d) ==
    /\ d \in [Messages -> Nat]
    /\ \A m \in Messages :
         d[m] = IF ~Exists(m) \/ board[m].parent = NoParent THEN 0
                ELSE 1 + d[board[m].parent]

ThreadInv ==
    /\ \A m \in Messages :
         Exists(m) /\ board[m].parent # NoParent
         => board[m].parent \in Messages /\ Exists(board[m].parent)
    /\ \E d : Depths(d) /\ \A m \in Messages : d[m] <= MaxDepth

(* What edits and deletions have done to a message.                        *)
MarksOK(m) ==
    /\ ~Exists(m) => Done("social_edit", m) = {} /\ Done("social_delete", m) = {}
    /\ Exists(m) => (board[m].deleted <=> Done("social_delete", m) # {})
    /\ Exists(m) /\ Done("social_edit", m) \cap late = {}
         => board[m].body \in LastBody(m)

MarksInv == \A m \in Messages : MarksOK(m)

-----------------------------------------------------------------------------
(* Every step of the board is a step of the intent queue, none of whose    *)
(* handlers raises after its commit, or leaves the queue alone.            *)
LEMMA SocialStepPumps == [SocialNext]_socialVars => [QuietNext]_pumpVars
<1> SUFFICES ASSUME [SocialNext]_socialVars PROVE QuietNext \/ UNCHANGED pumpVars
  OBVIOUS
<1>1. ASSUME NEW k \in Keys, NEW outcome \in Settled, Settle(k, outcome), NoFault
      PROVE  QuietNext
  BY <1>1 DEF QuietNext, Adjudicate
<1>2. ASSUME NEW k \in Keys, Settle(k, "rejected"), Fault PROVE QuietNext
  BY <1>2 DEF QuietNext, RejectInternal, Settle
<1>3. ASSUME NEW k \in Keys, NEW r \in Requests, EnqueueMessage(k, r) \/ EnqueueMutation(k, r)
      PROVE  QuietNext
  BY <1>3 DEF EnqueueMessage, EnqueueMutation, Record, QuietNext
<1>4. ASSUME NEW k \in Keys, Resubmit(k) \/ LeavePending(k) PROVE QuietNext
  BY <1>4 DEF Resubmit, LeavePending, QuietNext
<1>5. ASSUME NEW k \in Keys, Publish(k) \/ Edit(k) \/ Delete(k) \/ Refuse(k)
      PROVE  QuietNext
  <2>1. \E outcome \in Settled : Settle(k, outcome) /\ NoFault
    BY <1>5 DEF Publish, Edit, Delete, Refuse, Settled
  <2>2. QED
    BY <1>1, <2>1
<1>6. ASSUME NEW k \in Keys, Compensate(k) \/ RejectUncompensated(k) PROVE QuietNext
  BY <1>2, <1>6 DEF Compensate, RejectUncompensated
<1>7. CASE BeginPass \/ CrashSim \/ BootSim
  BY <1>7 DEF BeginPass, CrashSim, BootSim, QuietNext
<1>8. ASSUME \/ \E k \in Keys : Reconcile(k)
             \/ \E s \in Souls : Drain(s)
             \/ UNCHANGED socialVars
      PROVE  UNCHANGED pumpVars
  BY <1>8 DEF Reconcile, Drain, socialVars
<1>9. QED
  BY <1>3, <1>4, <1>5, <1>6, <1>7, <1>8 DEF SocialNext

(* The message board runs on the intent queue, and none of its handlers    *)
(* raises after its commit: each of its behaviours is one of such a pump,  *)
(* so what is proved of that pump holds of the board.                      *)
THEOREM SocialPumps == SocialSpec => QuietSpec
<1>1. SocialInit => PumpInit
  BY DEF SocialInit
<1>2. QED
  BY <1>1, SocialStepPumps, PTL DEF SocialSpec, QuietSpec

(* An edit, a post or a refusal that was decided stays decided, and the    *)
(* intents of the board are decided in the order of their acknowledgement, *)
(* those a failed write put off excepted (social.py:574).                  *)
THEOREM SocialDecidesInOrder == SocialSpec => OutcomeFinal /\ []OldestFirst
BY SocialPumps, QuietPumps, QuietFinal, PumpOrdered, PTL

-----------------------------------------------------------------------------
(* What a request is.                                                      *)
LEMMA RequestIs ==
    ASSUME NEW r \in Requests
    PROVE  /\ r # NoRequest /\ r.author \in Authors /\ r.by \in Authors
           /\ r.kind \in {"social_post", "social_reply", "social_edit", "social_delete"}
           /\ r.kind = "social_post" => r.target = NoParent
           /\ r.kind # "social_post" => r.target \in Messages
BY SocialConstants DEF RequestType

(* The kinds that cost essence are the post and the reply, at a positive
   price. *)
LEMMA PaidKindsAre ==
    /\ PaidKinds = {"social_post", "social_reply"}
    /\ \A kind \in PaidKinds : Cost[kind] \in Nat /\ Cost[kind] > 0
BY SocialConstants DEF PaidKinds, Cost

(* No soul is a tamer, and every soul may author. *)
LEMMA SoulsNotTamers == Souls \cap Tamers = {} /\ Souls \subseteq Authors
BY SocialConstants DEF Authors

(* A message is on the board or not; nothing on it is NoMessage.           *)
LEMMA MessageIs ==
    ASSUME NEW msg \in MessageType
    PROVE  msg # NoMessage
BY SocialConstants

(* What is paid for has a price and a soul to pay it.                      *)
LEMMA PaidIs ==
    ASSUME TablesOK, NEW k \in Keys, Paid(k)
    PROVE  /\ request[k] \in Requests /\ request[k].author \in Souls
           /\ request[k].kind \in PaidKinds
           /\ Price[k] = Cost[request[k].kind] /\ Price[k] \in Nat /\ Price[k] > 0
<1>1. request[k] \in Requests /\ request[k].author \in Souls /\ request[k].kind \in PaidKinds
  BY DEF TablesOK, Paid, Paying
<1>2. Price[k] = Cost[request[k].kind]
  BY DEF Price, Paid
<1>3. QED
  BY <1>1, <1>2, PaidKindsAre

(* An intent without a row takes part in nothing.                          *)
LEMMA NoRowNoBooks ==
    ASSUME BooksInv, NEW k \in Keys, status[k] = "absent"
    PROVE  /\ request[k] = NoRequest /\ ~Paid(k) /\ escrow[k] = "none" /\ debits[k] = 0
           /\ ~Exists(k)
BY DEF BooksInv, RowOK, PublishedOK, Paid

-----------------------------------------------------------------------------
(* The purse of a soul, when the books change for one intent only: what    *)
(* the purse lost is held for the intent or debited for it.                *)
HeldAt(s, k) == IF Paid(k) /\ request[k].author = s /\ escrow[k] = "held" THEN Price[k] ELSE 0
PaidAt(s, k) == IF Paid(k) /\ request[k].author = s THEN debits[k] ELSE 0

OnlyAt(k) ==
    \A j \in Keys \ {k} :
        /\ request'[j] = request[j] /\ escrow'[j] = escrow[j] /\ debits'[j] = debits[j]

(* The prices held for a soul and the debits of a soul are integers over
   finite sets, and one intent has its own part of each. *)
LEMMA PriceInts ==
    ASSUME TablesOK, NEW s \in Souls, NEW k
    PROVE  /\ IsFiniteSet(HeldFor(s)) /\ IsFiniteSet(PaidBy(s))
           /\ Ints(Price, HeldFor(s)) /\ Ints(debits, PaidBy(s))
           /\ k \in Keys => /\ Part(Price, HeldFor(s), k) = HeldAt(s, k)
                            /\ Part(debits, PaidBy(s), k) = PaidAt(s, k)
<1>1. IsFiniteSet(HeldFor(s)) /\ IsFiniteSet(PaidBy(s))
  <2>1. HeldFor(s) \subseteq Keys /\ PaidBy(s) \subseteq Keys
    BY DEF HeldFor, PaidBy
  <2>2. QED
    BY <2>1, KeysFinite, FS_Subset
<1>2. Ints(Price, HeldFor(s))
  <2>1. ASSUME NEW j \in HeldFor(s) PROVE Price[j] \in Int
    <3>1. j \in Keys /\ Paid(j)
      BY DEF HeldFor, PaidBy, Paid
    <3>2. QED
      BY <3>1, PaidIs
  <2>2. QED
    BY <2>1 DEF Ints
<1>3. Ints(debits, PaidBy(s))
  BY DEF TablesOK, PaidBy, Ints
<1>4. k \in Keys => /\ Part(Price, HeldFor(s), k) = HeldAt(s, k)
                    /\ Part(debits, PaidBy(s), k) = PaidAt(s, k)
  BY DEF Part, HeldAt, PaidAt, HeldFor, PaidBy, Paid
<1>5. QED
  BY <1>1, <1>2, <1>3, <1>4

SumsSound ==
    \A s \in Souls, k \in Keys :
        /\ IsFiniteSet(HeldFor(s)) /\ IsFiniteSet(PaidBy(s))
        /\ Ints(Price, HeldFor(s)) /\ Ints(debits, PaidBy(s))
        /\ Part(Price, HeldFor(s), k) = HeldAt(s, k)
        /\ Part(debits, PaidBy(s), k) = PaidAt(s, k)

(* Typed tables have integer sums. *)
LEMMA SumsAreSound == TablesOK => SumsSound
BY PriceInts DEF SumsSound

(* Typed tables after a step have integer sums. *)
LEMMA SumsStaySound == TablesOK' => SumsSound'
<1>1. (TablesOK => SumsSound)'
  BY SumsAreSound, PTL
<1>2. QED
  BY <1>1

(* The account of a soul, and what of it hangs on one intent.              *)
Account(s) ==
    essence[s] + Total(Price, HeldFor(s)) + Total(debits, PaidBy(s)) + spent[s]

AccountAt(s, k) == essence[s] + HeldAt(s, k) + PaidAt(s, k) + spent[s]

AccountsTyped ==
    \A s \in Souls, k \in Keys :
        /\ essence[s] \in Nat /\ spent[s] \in Nat
        /\ HeldAt(s, k) \in Int /\ PaidAt(s, k) \in Int

(* What a soul has, has held and has paid are integers. *)
LEMMA AccountsAreTyped == TablesOK => AccountsTyped
<1> SUFFICES ASSUME TablesOK, NEW s \in Souls, NEW k \in Keys
             PROVE  /\ essence[s] \in Nat /\ spent[s] \in Nat
                    /\ HeldAt(s, k) \in Int /\ PaidAt(s, k) \in Int
  BY DEF AccountsTyped
<1>1. Paid(k) => Price[k] \in Nat
  BY PaidIs
<1>2. HeldAt(s, k) \in Int
  BY <1>1 DEF HeldAt
<1>3. PaidAt(s, k) \in Int
  BY DEF PaidAt, TablesOK
<1>4. QED
  BY <1>2, <1>3 DEF TablesOK

(* Nothing of a purse is lost.                                             *)
AccountsHold == \A s \in Souls : Account(s) = StartEssence[s]

SocialIInv == PumpIInv /\ BooksInv /\ AccountsHold /\ ThreadInv /\ MarksInv

(* A step at one intent that leaves that intent's part of the account leaves
   the soul's account. *)
LEMMA AccountMoves ==
    ASSUME TablesOK, TablesOK', NEW s \in Souls, NEW k \in Keys, OnlyAt(k),
           AccountAt(s, k)' = AccountAt(s, k)
    PROVE  Account(s)' = Account(s)
<1>1. SumsSound /\ SumsSound'
  BY SumsAreSound, SumsStaySound
<1>2. \A j \in Keys \ {k} :
        /\ Paid(j)' <=> Paid(j)
        /\ request'[j] = request[j] /\ escrow'[j] = escrow[j] /\ debits'[j] = debits[j]
  BY DEF OnlyAt, Paid
<1>3. /\ HeldFor(s) \ {k} = HeldFor(s)' \ {k}
      /\ PaidBy(s) \ {k} = PaidBy(s)' \ {k}
  BY <1>2 DEF HeldFor, PaidBy, Paid
<1>4. \A j \in HeldFor(s) \ {k} : Price[j] = Price'[j]
  <2>1. ASSUME NEW j \in HeldFor(s) \ {k} PROVE Price[j] = Price'[j]
    <3>1. j \in Keys \ {k} /\ Paid(j) /\ Paid(j)' /\ request'[j] = request[j]
      BY <1>2 DEF HeldFor, PaidBy, Paid
    <3>2. QED
      BY <3>1 DEF Price, Paid
  <2>2. QED
    BY <2>1
<1>5. \A j \in PaidBy(s) \ {k} : debits[j] = debits'[j]
  BY <1>2 DEF PaidBy
<1>6. /\ IsFiniteSet(HeldFor(s)) /\ IsFiniteSet(HeldFor(s)')
      /\ Ints(Price, HeldFor(s)) /\ Ints(Price', HeldFor(s)')
      /\ IsFiniteSet(PaidBy(s)) /\ IsFiniteSet(PaidBy(s)')
      /\ Ints(debits, PaidBy(s)) /\ Ints(debits', PaidBy(s)')
      /\ Part(Price, HeldFor(s), k) = HeldAt(s, k)
      /\ Part(Price', HeldFor(s)', k) = HeldAt(s, k)'
      /\ Part(debits, PaidBy(s), k) = PaidAt(s, k)
      /\ Part(debits', PaidBy(s)', k) = PaidAt(s, k)'
  BY <1>1 DEF SumsSound, Part, Ints
<1> DEFINE H == Total(Price, HeldFor(s))
           Hn == Total(Price', HeldFor(s)')
           D == Total(debits, PaidBy(s))
           Dn == Total(debits', PaidBy(s)')
<1>7. Hn = H - HeldAt(s, k) + HeldAt(s, k)' /\ H \in Int /\ Hn \in Int
  BY <1>3, <1>4, <1>6, TotalChange
<1>8. Dn = D - PaidAt(s, k) + PaidAt(s, k)' /\ D \in Int /\ Dn \in Int
  BY <1>3, <1>5, <1>6, TotalChange
<1>9. (TablesOK => AccountsTyped)'
  BY AccountsAreTyped, PTL
<1>10. /\ essence[s] \in Int /\ spent[s] \in Int
       /\ essence'[s] \in Int /\ spent'[s] \in Int
       /\ HeldAt(s, k) \in Int /\ PaidAt(s, k) \in Int
       /\ HeldAt(s, k)' \in Int /\ PaidAt(s, k)' \in Int
  BY <1>9, AccountsAreTyped DEF AccountsTyped
<1>11. /\ Account(s) = essence[s] + H + D + spent[s]
       /\ Account(s)' = essence'[s] + Hn + Dn + spent'[s]
  BY DEF Account
<1>12. essence'[s] + HeldAt(s, k)' + PaidAt(s, k)' + spent'[s]
         = essence[s] + HeldAt(s, k) + PaidAt(s, k) + spent[s]
  BY DEF AccountAt
<1> HIDE DEF H, Hn, D, Dn
<1>13. QED
  BY <1>7, <1>8, <1>10, <1>11, <1>12

-----------------------------------------------------------------------------
(* The books, step by step.                                                *)
PursesSame == \A s \in Souls : Account(s)' = Account(s)

(* A step at one intent keeps the books if that intent's row is right after
   it. *)
LEMMA BooksAt ==
    ASSUME BooksInv, TablesOK', NEW k \in Keys, OnlyAt(k),
           \A j \in Keys \ {k} : status'[j] = status[j] /\ (Exists(j)' <=> Exists(j)),
           RowOK(k)', PublishedOK(k)'
    PROVE  BooksInv'
<1>1. ASSUME NEW j \in Keys \ {k} PROVE RowOK(j)' /\ PublishedOK(j)'
  <2>1. RowOK(j) /\ PublishedOK(j)
    BY DEF BooksInv
  <2>2. /\ request'[j] = request[j] /\ escrow'[j] = escrow[j] /\ debits'[j] = debits[j]
        /\ status'[j] = status[j] /\ (Exists(j)' <=> Exists(j))
    BY DEF OnlyAt
  <2>3. Paid(j)' <=> Paid(j)
    BY <2>2 DEF Paid
  <2>4. escrow[j] = "applied" => Price'[j] = Price[j]
    <3>1. escrow[j] = "applied" => Paid(j)
      BY <2>1 DEF RowOK
    <3>2. Paid(j) => Price'[j] = Price[j]
      BY <2>2, <2>3 DEF Price, Paid
    <3>3. QED
      BY <3>1, <3>2
  <2>5. RowOK(j)'
    BY <2>1, <2>2, <2>3, <2>4 DEF RowOK
  <2>6. PublishedOK(j)'
    BY <2>1, <2>2 DEF PublishedOK
  <2>7. QED
    BY <2>5, <2>6
<1>2. QED
  BY <1>1 DEF BooksInv

(* An acknowledgement takes the price from the purse and holds it.         *)
LEMMA EnqueueBooks ==
    ASSUME PumpTypeOK, BooksInv, NEW k \in Keys, NEW r \in Requests, Record(k, r),
           IF Paying(r) THEN Hold(k, r) ELSE UNCHANGED <<escrow, essence>>
    PROVE  BooksInv' /\ PursesSame
<1>1. /\ status[k] = "absent" /\ status' = [status EXCEPT ![k] = "pending"]
      /\ request' = [request EXCEPT ![k] = r]
      /\ UNCHANGED <<debits, board, spent>>
  BY DEF Record, Insert
<1>2. /\ request[k] = NoRequest /\ ~Paid(k) /\ escrow[k] = "none" /\ debits[k] = 0
      /\ ~Exists(k)
  BY <1>1, NoRowNoBooks
<1>3. TablesOK
  BY DEF BooksInv
<1>4. Paying(r) => r.author \in Souls /\ r.kind \in PaidKinds /\ Cost[r.kind] \in Nat
  BY PaidKindsAre DEF Paying
<1>5. TablesOK'
  <2>1. request' \in [Keys -> Requests \cup {NoRequest}]
    BY <1>1, <1>3 DEF TablesOK
  <2>2. essence' \in [Souls -> Nat]
    BY <1>3, <1>4 DEF TablesOK, Hold
  <2>3. escrow' \in [Keys -> {"none", "held", "applied", "released"}]
    BY <1>3 DEF TablesOK, Hold
  <2>4. QED
    BY <1>1, <1>3, <2>1, <2>2, <2>3 DEF TablesOK
<1>6. OnlyAt(k)
  BY <1>1, <1>3 DEF OnlyAt, TablesOK, Hold
<1>7. /\ request'[k] = r /\ status'[k] = "pending" /\ debits'[k] = 0
      /\ escrow'[k] = IF Paying(r) THEN "held" ELSE "none"
  BY <1>1, <1>2, <1>3 DEF TablesOK, PumpTypeOK, Hold
<1>8. Paid(k)' <=> Paying(r)
  BY <1>7, RequestIs DEF Paid
<1>9. RowOK(k)' /\ PublishedOK(k)'
  BY <1>1, <1>2, <1>7, <1>8, RequestIs DEF RowOK, PublishedOK, Exists
<1>10. BooksInv'
  BY <1>1, <1>5, <1>6, <1>9, BooksAt DEF PumpTypeOK, Exists
<1>11. ASSUME NEW s \in Souls PROVE Account(s)' = Account(s)
  <2>1. HeldAt(s, k) = 0 /\ PaidAt(s, k) = 0 /\ PaidAt(s, k)' = 0
    BY <1>2, <1>7 DEF HeldAt, PaidAt
  <2>2. HeldAt(s, k)' = IF Paying(r) /\ r.author = s THEN Cost[r.kind] ELSE 0
    BY <1>7, <1>8, RequestIs DEF HeldAt, Price, Paid
  <2>3. essence'[s] = IF Paying(r) /\ r.author = s THEN essence[s] - Cost[r.kind]
                      ELSE essence[s]
    BY <1>3, <1>4 DEF TablesOK, Hold
  <2>4. spent' = spent /\ essence[s] \in Nat /\ spent[s] \in Nat
    BY <1>1, <1>3 DEF TablesOK
  <2>5. AccountAt(s, k)' = AccountAt(s, k)
    BY <1>4, <2>1, <2>2, <2>3, <2>4 DEF AccountAt
  <2>6. QED
    BY <1>3, <1>5, <1>6, <2>5, AccountMoves
<1>12. QED
  BY <1>10, <1>11 DEF PursesSame

(* A post or reply that appears turns what is held into a debit.           *)
LEMMA PublishBooks ==
    ASSUME PumpTypeOK, BooksInv, NEW k \in Keys, Publish(k)
    PROVE  BooksInv' /\ PursesSame
<1> DEFINE r == request[k]
<1>1. /\ status[k] = "pending" /\ status' = [status EXCEPT ![k] = "adjudicated"]
      /\ r.kind \in PaidKinds /\ Charge(k)
      /\ board' = [board EXCEPT ![k] = [parent |-> r.target, author |-> r.author,
                                       deleted |-> FALSE, body |-> k]]
      /\ UNCHANGED <<late, request, spent>>
  BY DEF Publish, Settle
<1>2. TablesOK /\ RowOK(k)
  BY DEF BooksInv
<1>3. r \in Requests /\ r # NoRequest
  BY <1>1, <1>2 DEF RowOK, TablesOK
<1>4. /\ Paid(k) <=> Paying(r)
      /\ Paid(k)' <=> Paid(k)
  BY <1>1, <1>3 DEF Paid
<1>5. Paid(k) => /\ Price[k] \in Nat /\ Price[k] = Cost[r.kind] /\ escrow[k] = "held"
                 /\ debits[k] = 0
  BY <1>1, <1>2, PaidIs DEF RowOK
<1>6. Price'[k] = Price[k]
  BY <1>1 DEF Price
<1> DEFINE msg == [parent |-> r.target, author |-> r.author, deleted |-> FALSE, body |-> k]
<1>7. msg \in MessageType /\ msg # NoMessage /\ k \in Messages
  <2>1. r.target \in Messages \cup {NoParent} /\ r.author \in Authors
    BY <1>3, RequestIs
  <2>2. k \in Messages
    BY DEF Messages
  <2>3. msg \in MessageType
    BY <2>1, <2>2 DEF MessageType
  <2>4. QED
    BY <2>2, <2>3, MessageIs
<1> HIDE DEF msg
<1>8. board' = [board EXCEPT ![k] = msg]
  BY <1>1 DEF msg
<1>9. TablesOK'
  <2>1. escrow' \in [Keys -> {"none", "held", "applied", "released"}]
    BY <1>1, <1>2 DEF Charge, TablesOK, moneyVars
  <2>2. debits' \in [Keys -> Nat]
    BY <1>1, <1>2, PaidKindsAre DEF Charge, TablesOK, moneyVars
  <2>3. board' \in [Messages -> MessageType \cup {NoMessage}]
    BY <1>2, <1>7, <1>8 DEF TablesOK
  <2>4. essence' = essence
    BY <1>1 DEF Charge, moneyVars
  <2>5. QED
    BY <1>1, <1>2, <2>1, <2>2, <2>3, <2>4 DEF TablesOK
<1>10. OnlyAt(k)
  BY <1>1, <1>2 DEF OnlyAt, Charge, TablesOK, moneyVars
<1>11. /\ status'[k] = "adjudicated" /\ request'[k] = r /\ essence' = essence
       /\ escrow'[k] = IF Paid(k) THEN "applied" ELSE escrow[k]
       /\ debits'[k] = IF Paid(k) THEN Price[k] ELSE debits[k]
  BY <1>1, <1>2, <1>4, <1>5 DEF Charge, TablesOK, moneyVars, PumpTypeOK
<1>12. Exists(k)' /\ \A j \in Keys \ {k} : Exists(j)' <=> Exists(j)
  BY <1>2, <1>7, <1>8 DEF Exists, TablesOK, Messages
<1>13. RowOK(k)'
  BY <1>2, <1>3, <1>4, <1>6, <1>11 DEF RowOK
<1>14. PublishedOK(k)'
  BY <1>1, <1>11, <1>12 DEF PublishedOK
<1>15. BooksInv'
  BY <1>1, <1>9, <1>10, <1>12, <1>13, <1>14, BooksAt DEF PumpTypeOK
<1>16. ASSUME NEW s \in Souls PROVE Account(s)' = Account(s)
  <2>1. HeldAt(s, k)' = 0
    BY <1>2, <1>4, <1>11 DEF HeldAt, RowOK
  <2>2. PaidAt(s, k)' = HeldAt(s, k) + PaidAt(s, k)
    BY <1>1, <1>4, <1>5, <1>11 DEF HeldAt, PaidAt
  <2>3. HeldAt(s, k) \in Int /\ PaidAt(s, k) \in Int /\ essence[s] \in Int /\ spent[s] \in Int
    BY <1>2, AccountsAreTyped DEF AccountsTyped
  <2>4. essence'[s] = essence[s] /\ spent'[s] = spent[s]
    BY <1>1, <1>11
  <2>5. AccountAt(s, k)' = AccountAt(s, k)
    BY <2>1, <2>2, <2>3, <2>4 DEF AccountAt
  <2>6. QED
    BY <1>2, <1>9, <1>10, <2>5, AccountMoves
<1>17. QED
  BY <1>15, <1>16 DEF PursesSame

(* A refusal gives back what is held, or leaves it to the next boot.       *)
LEMMA ReleaseBooks ==
    ASSUME PumpTypeOK, BooksInv, NEW k \in Keys, status[k] \in {"pending", "rejected"},
           status' = [status EXCEPT ![k] = "rejected"],
           Release(k) \/ UNCHANGED moneyVars,
           UNCHANGED <<request, board, spent>>
    PROVE  BooksInv' /\ PursesSame
<1> DEFINE r == request[k]
<1>1. TablesOK /\ RowOK(k) /\ PublishedOK(k)
  BY DEF BooksInv
<1>2. escrow[k] = "held" => Paid(k)
  BY <1>1 DEF RowOK
<1>3. Paid(k) => /\ Price[k] \in Nat /\ Price[k] = Cost[r.kind] /\ r.author \in Souls
  BY <1>1, PaidIs
<1> DEFINE back == escrow'[k] = "released" /\ escrow[k] = "held"
<1>4. \/ /\ escrow[k] = "held"
         /\ essence' = [essence EXCEPT ![r.author] = @ + Cost[r.kind]]
         /\ escrow' = [escrow EXCEPT ![k] = "released"]
         /\ UNCHANGED debits
      \/ UNCHANGED moneyVars
  BY DEF Release
<1>5. TablesOK' /\ OnlyAt(k)
  <2>1. CASE UNCHANGED moneyVars
    BY <1>1, <2>1 DEF TablesOK, OnlyAt, moneyVars
  <2>2. CASE escrow[k] = "held" /\ essence' = [essence EXCEPT ![r.author] = @ + Cost[r.kind]]
             /\ escrow' = [escrow EXCEPT ![k] = "released"] /\ UNCHANGED debits
    <3>1. essence' \in [Souls -> Nat]
      BY <1>1, <1>2, <1>3, <2>2 DEF TablesOK
    <3>2. QED
      BY <1>1, <2>2, <3>1 DEF TablesOK, OnlyAt
  <2>3. QED
    BY <1>4, <2>1, <2>2
<1>6. Paid(k)' <=> Paid(k)
  BY DEF Paid
<1>7. status'[k] = "rejected" /\ debits'[k] = debits[k]
      /\ escrow'[k] \in {escrow[k], "released"}
      /\ (escrow'[k] # escrow[k] => escrow[k] = "held")
  BY <1>1, <1>4 DEF PumpTypeOK, TablesOK, moneyVars
<1>8. RowOK(k)'
  BY <1>1, <1>6, <1>7 DEF RowOK
<1>9. PublishedOK(k)'
  BY <1>1, <1>7 DEF PublishedOK, Exists
<1>10. BooksInv'
  BY <1>5, <1>8, <1>9, BooksAt DEF PumpTypeOK, Exists
<1>11. ASSUME NEW s \in Souls PROVE Account(s)' = Account(s)
  <2>1. PaidAt(s, k)' = PaidAt(s, k)
    BY <1>6, <1>7 DEF PaidAt
  <2>2. HeldAt(s, k) \in Int /\ PaidAt(s, k) \in Int /\ essence[s] \in Int /\ spent[s] \in Int
    BY <1>1, AccountsAreTyped DEF AccountsTyped
  <2>3. AccountAt(s, k)' = AccountAt(s, k)
    <3>1. CASE UNCHANGED moneyVars
      <4>1. HeldAt(s, k)' = HeldAt(s, k)
        BY <1>6, <3>1 DEF HeldAt, Price, moneyVars
      <4>2. QED
        BY <2>1, <3>1, <4>1 DEF AccountAt, moneyVars
    <3>2. CASE escrow[k] = "held" /\ essence' = [essence EXCEPT ![r.author] = @ + Cost[r.kind]]
               /\ escrow' = [escrow EXCEPT ![k] = "released"]
      <4>1. HeldAt(s, k)' = 0
        BY <1>1, <3>2 DEF HeldAt, TablesOK
      <4>2. HeldAt(s, k) = IF r.author = s THEN Cost[r.kind] ELSE 0
        BY <1>2, <1>3, <3>2 DEF HeldAt
      <4>3. essence'[s] = IF r.author = s THEN essence[s] + Cost[r.kind] ELSE essence[s]
        BY <1>1, <3>2 DEF TablesOK
      <4>4. Cost[r.kind] \in Int
        BY <1>2, <1>3, <3>2
      <4>5. QED
        BY <2>1, <2>2, <4>1, <4>2, <4>3, <4>4 DEF AccountAt
    <3>3. QED
      BY <1>4, <3>1, <3>2
  <2>4. QED
    BY <1>1, <1>5, <2>3, AccountMoves
<1>12. QED
  BY <1>10, <1>11 DEF PursesSame

(* A step that touches neither escrows nor purses, and on the board only   *)
(* what messages say.                                                      *)
LEMMA SameBooks ==
    ASSUME BooksInv, UNCHANGED <<request, moneyVars>>, spent' = spent,
           TablesOK',
           \A j \in Keys : Exists(j)' <=> Exists(j),
           \A j \in Keys : status'[j] = status[j] \/
                           /\ status[j] = "pending" /\ status'[j] = "adjudicated"
                           /\ request[j].kind \notin PaidKinds
    PROVE  BooksInv' /\ PursesSame
<1>1. \A j \in Keys : Paid(j)' <=> Paid(j)
  BY DEF Paid
<1>2. Price' = Price
  BY DEF Price
<1>3. ASSUME NEW j \in Keys PROVE RowOK(j)' /\ PublishedOK(j)'
  <2>1. RowOK(j) /\ PublishedOK(j)
    BY DEF BooksInv
  <2>2. status'[j] # status[j] => ~Paid(j)
    BY DEF Paid, Paying
  <2>3. RowOK(j)'
    BY <1>1, <1>2, <2>1, <2>2 DEF RowOK, moneyVars
  <2>4. PublishedOK(j)'
    BY <2>1 DEF PublishedOK
  <2>5. QED
    BY <2>3, <2>4
<1>4. ASSUME NEW s \in Souls PROVE Account(s)' = Account(s)
  <2>1. PaidBy(s)' = PaidBy(s) /\ HeldFor(s)' = HeldFor(s)
    BY DEF PaidBy, HeldFor, moneyVars
  <2>2. QED
    BY <1>2, <2>1 DEF Account, moneyVars
<1>5. QED
  BY <1>3, <1>4 DEF BooksInv, PursesSame

(* Edits and deletions change what a message says and nothing else.        *)
LEMMA MarkBooks ==
    ASSUME PumpTypeOK, BooksInv, NEW k \in Keys, Edit(k) \/ Delete(k)
    PROVE  /\ BooksInv' /\ PursesSame
           /\ request[k].target \in Messages /\ Exists(request[k].target)
           /\ request[k].kind \in {"social_edit", "social_delete"}
           /\ \A m \in Messages \ {request[k].target} : board'[m] = board[m]
           /\ \A m \in Messages : Exists(m)' <=> Exists(m)
           /\ \A m \in Messages : Exists(m) => board'[m].parent = board[m].parent
           /\ Edit(k) => /\ board'[request[k].target].body = k
                         /\ \A m \in Messages : Exists(m) => board'[m].deleted = board[m].deleted
           /\ Delete(k) => /\ board'[request[k].target].deleted = TRUE
                           /\ \A m \in Messages : Exists(m) => board'[m].body = board[m].body
<1> DEFINE t == request[k].target
           row == [board[t] EXCEPT !.body = k]
           gone == [board[t] EXCEPT !.deleted = TRUE]
<1>1. /\ status[k] = "pending" /\ status' = [status EXCEPT ![k] = "adjudicated"]
      /\ UNCHANGED <<request, moneyVars, spent>>
      /\ request[k].kind \in {"social_edit", "social_delete"} /\ MayMutate(request[k])
  BY DEF Edit, Delete, Settle
<1>2. TablesOK /\ RowOK(k)
  BY DEF BooksInv
<1>3. t \in Messages /\ Exists(t)
  <2>1. request[k] \in Requests
    BY <1>1, <1>2 DEF RowOK, TablesOK
  <2>2. QED
    BY <1>1, <2>1, RequestIs DEF MayMutate
<1>4. board[t] \in MessageType
  BY <1>2, <1>3 DEF TablesOK, Exists
<1>5. /\ row \in MessageType /\ row.parent = board[t].parent
      /\ row.deleted = board[t].deleted /\ row.body = k
      /\ gone \in MessageType /\ gone.parent = board[t].parent
      /\ gone.deleted = TRUE /\ gone.body = board[t].body
  BY <1>4 DEF MessageType, Messages
<1>6. /\ Edit(k) => board' = [board EXCEPT ![t] = row]
      /\ Delete(k) => board' = [board EXCEPT ![t] = gone]
  BY DEF Edit, Delete, Erased
<1>7. row # NoMessage /\ gone # NoMessage
  BY <1>5, MessageIs
<1> HIDE DEF row, gone
<1>8. \A m \in Messages \ {t} : board'[m] = board[m]
  BY <1>2, <1>6 DEF TablesOK
<1>9. (Edit(k) => board'[t] = row) /\ (Delete(k) => board'[t] = gone)
  BY <1>2, <1>3, <1>6 DEF TablesOK
<1>10. board' \in [Messages -> MessageType \cup {NoMessage}]
  BY <1>2, <1>5, <1>6 DEF TablesOK
<1>11. \A m \in Messages : Exists(m)' <=> Exists(m)
  BY <1>3, <1>7, <1>8, <1>9 DEF Exists
<1>12. TablesOK'
  BY <1>1, <1>2, <1>10 DEF TablesOK, moneyVars
<1>13. BooksInv' /\ PursesSame
  <2>1. \A j \in Keys : status'[j] = status[j] \/
                        /\ status[j] = "pending" /\ status'[j] = "adjudicated"
                        /\ request[j].kind \notin PaidKinds
    BY <1>1, PaidKindsAre DEF PumpTypeOK
  <2>2. \A j \in Keys : Exists(j)' <=> Exists(j)
    BY <1>11 DEF Messages
  <2>3. spent' = spent
    BY <1>1
  <2>4. QED
    BY <1>1, <1>12, <2>1, <2>2, <2>3, SameBooks
<1>14. /\ \A m \in Messages : Exists(m) => board'[m].parent = board[m].parent
       /\ Edit(k) => \A m \in Messages : Exists(m) => board'[m].deleted = board[m].deleted
       /\ Delete(k) => \A m \in Messages : Exists(m) => board'[m].body = board[m].body
  BY <1>5, <1>8, <1>9
<1>15. QED
  BY <1>1, <1>3, <1>5, <1>8, <1>9, <1>11, <1>13, <1>14

-----------------------------------------------------------------------------
(* The threads.  While parents are on the board and some function gives    *)
(* the lengths of the chains, the recursion of message_depth has that      *)
(* function for its only solution.                                         *)
DepthRecursion(f) ==
    f = [m \in Messages |-> IF ~Exists(m) \/ board[m].parent = NoParent THEN 0
                            ELSE 1 + f[board[m].parent]]

ParentsStand ==
    \A m \in Messages :
        Exists(m) /\ board[m].parent # NoParent
        => board[m].parent \in Messages /\ Exists(board[m].parent)

(* The depth of a message is the one the table of depths gives. *)
LEMMA DepthIs ==
    ASSUME ParentsStand, NEW d, Depths(d)
    PROVE  Depth = d
<1>1. DepthRecursion(d)
  <2>1. d = [m \in Messages |-> d[m]]
    BY DEF Depths
  <2>2. [m \in Messages |-> d[m]]
        = [m \in Messages |-> IF ~Exists(m) \/ board[m].parent = NoParent THEN 0
                              ELSE 1 + d[board[m].parent]]
    BY DEF Depths
  <2>3. QED
    BY <2>1, <2>2 DEF DepthRecursion
<1>2. Depth = CHOOSE f : DepthRecursion(f)
  BY DEF Depth, DepthRecursion
<1>3. PICK f : f = Depth /\ DepthRecursion(f)
  BY <1>1, <1>2
<1>4. \A m \in Messages :
        f[m] = IF ~Exists(m) \/ board[m].parent = NoParent THEN 0
               ELSE 1 + f[board[m].parent]
  BY <1>3 DEF DepthRecursion
<1> DEFINE Wrong == {n \in Nat : \E m \in Messages : d[m] = n /\ f[m] # d[m]}
<1>5. ASSUME Wrong # {} PROVE FALSE
  <2>1. PICK n \in Wrong : \A i \in Wrong : n <= i
    <3>1. Wrong \subseteq Nat
      OBVIOUS
    <3> HIDE DEF Wrong
    <3>2. QED
      BY <1>5, <3>1, Least
  <2>2. PICK m \in Messages : d[m] = n /\ f[m] # d[m]
    BY <2>1
  <2>3. Exists(m) /\ board[m].parent # NoParent
    BY <1>4, <2>2 DEF Depths
  <2> DEFINE p == board[m].parent
  <2>4. p \in Messages
    BY <2>3 DEF ParentsStand
  <2>5. d[m] = 1 + d[p] /\ f[m] = 1 + f[p] /\ d[p] \in Nat
    BY <1>4, <2>3, <2>4 DEF Depths
  <2>6. d[p] \in Wrong
    BY <2>2, <2>4, <2>5
  <2> HIDE DEF Wrong, p
  <2>7. QED
    BY <2>1, <2>2, <2>5, <2>6
<1>6. \A m \in Messages : f[m] = d[m]
  BY <1>5 DEF Depths
<1>7. f = d
  BY <1>3, <1>6 DEF DepthRecursion, Depths
<1>8. QED
  BY <1>3, <1>7

(* The tree of the board has the messages of depth n at its level n.       *)
LevelRecursion(f) ==
    f = [n \in Nat |-> IF n = 0 THEN Roots ELSE UNION {RepliesTo(m) : m \in f[n - 1]}]

AtDepth(d) == [n \in Nat |-> {m \in Messages : Exists(m) /\ d[m] = n}]

(* The recursion of the levels puts each message at its depth. *)
LEMMA LevelsAre ==
    ASSUME ParentsStand, NoParent \notin Messages, NEW d, Depths(d)
    PROVE  LevelRecursion(AtDepth(d))
<1> DEFINE L == AtDepth(d)
<1>1. \A m \in Messages :
        /\ d[m] \in Nat
        /\ Exists(m) => d[m] = IF board[m].parent = NoParent THEN 0
                               ELSE 1 + d[board[m].parent]
  BY DEF Depths
<1>2. \A n \in Nat : L[n] = {m \in Messages : Exists(m) /\ d[m] = n}
  BY DEF AtDepth
<1>3. ASSUME NEW m \in Messages, Exists(m)
      PROVE  /\ d[m] = 0 <=> board[m].parent \notin {p \in Messages : Exists(p)}
             /\ d[m] # 0 => /\ board[m].parent \in Messages /\ Exists(board[m].parent)
                            /\ d[board[m].parent] = d[m] - 1
  <2>1. CASE board[m].parent = NoParent
    BY <1>1, <1>3, <2>1
  <2>2. CASE board[m].parent # NoParent
    <3>1. board[m].parent \in Messages /\ Exists(board[m].parent)
      BY <1>3, <2>2 DEF ParentsStand
    <3>2. d[m] = 1 + d[board[m].parent] /\ d[board[m].parent] \in Nat
      BY <1>1, <1>3, <2>2, <3>1
    <3>3. QED
      BY <3>1, <3>2
  <2>3. QED
    BY <2>1, <2>2
<1>4. L[0] = Roots
  BY <1>2, <1>3 DEF Roots
<1>5. ASSUME NEW n \in Nat, n # 0
      PROVE  L[n] = UNION {RepliesTo(m) : m \in L[n - 1]}
  <2>1. n - 1 \in Nat /\ L[n - 1] = {m \in Messages : Exists(m) /\ d[m] = n - 1}
    BY <1>2, <1>5
  <2>2. ASSUME NEW m \in L[n]
        PROVE  m \in UNION {RepliesTo(p) : p \in L[n - 1]}
    <3>1. m \in Messages /\ Exists(m) /\ d[m] = n
      BY <1>2, <2>2
    <3>2. board[m].parent \in L[n - 1] /\ m \in RepliesTo(board[m].parent)
      BY <1>3, <1>5, <2>1, <3>1 DEF RepliesTo
    <3> HIDE DEF L
    <3>3. QED
      BY <3>2
  <2>3. ASSUME NEW p \in L[n - 1], NEW m \in RepliesTo(p)
        PROVE  m \in L[n]
    <3>1. p \in Messages /\ Exists(p) /\ d[p] = n - 1
      BY <2>1
    <3>2. m \in Messages /\ Exists(m) /\ board[m].parent = p
      BY DEF RepliesTo
    <3>3. d[m] = 1 + d[p]
      BY <1>1, <3>1, <3>2
    <3>4. d[m] = n
      BY <3>1, <3>3
    <3>5. QED
      BY <1>2, <3>2, <3>4
  <2> HIDE DEF L
  <2>4. QED
    BY <2>2, <2>3
<1>6. L = [n \in Nat |-> L[n]]
  BY DEF AtDepth
<1> HIDE DEF L
<1>7. L = [n \in Nat |-> IF n = 0 THEN Roots ELSE UNION {RepliesTo(m) : m \in L[n - 1]}]
  BY <1>4, <1>5, <1>6
<1>8. QED
  BY <1>7 DEF LevelRecursion, L

(* The rebuilt thread is every message at its depth. *)
LEMMA TreeIs ==
    ASSUME ParentsStand, NoParent \notin Messages, NEW d, Depths(d)
    PROVE  Tree = AtDepth(d)
<1> DEFINE L == AtDepth(d)
<1>1. LevelRecursion(L)
  BY LevelsAre
<1>2. Tree = CHOOSE f : LevelRecursion(f)
  BY DEF Tree, LevelRecursion
<1>3. PICK f : f = Tree /\ LevelRecursion(f)
  BY <1>1, <1>2
<1> HIDE DEF L
<1>4. /\ \A n \in Nat : f[n] = IF n = 0 THEN Roots
                               ELSE UNION {RepliesTo(m) : m \in f[n - 1]}
      /\ \A n \in Nat : L[n] = IF n = 0 THEN Roots
                               ELSE UNION {RepliesTo(m) : m \in L[n - 1]}
  BY <1>1, <1>3 DEF LevelRecursion
<1> DEFINE Wrong == {n \in Nat : f[n] # L[n]}
<1>5. ASSUME Wrong # {} PROVE FALSE
  <2>1. PICK n \in Wrong : \A i \in Wrong : n <= i
    <3>1. Wrong \subseteq Nat
      OBVIOUS
    <3> HIDE DEF Wrong
    <3>2. QED
      BY <1>5, <3>1, Least
  <2>2. n \in Nat /\ f[n] # L[n]
    BY <2>1
  <2>3. n # 0
    BY <1>4, <2>2
  <2>4. n - 1 \in Nat /\ f[n - 1] = L[n - 1]
    BY <2>1, <2>2, <2>3
  <2>5. f[n] = L[n]
    BY <1>4, <2>2, <2>3, <2>4
  <2>6. QED
    BY <2>2, <2>5
<1>6. \A n \in Nat : f[n] = L[n]
  BY <1>5
<1>7. f = [n \in Nat |-> f[n]] /\ L = [n \in Nat |-> L[n]]
  BY <1>1, <1>3 DEF LevelRecursion
<1>8. f = L
  BY <1>6, <1>7
<1>9. QED
  BY <1>3, <1>8 DEF L

(* Every message of the board is shown, and no deeper than the cap.        *)
LEMMA EveryMessageShows ==
    ASSUME ThreadInv, NEW m \in Messages, Exists(m)
    PROVE  \E n \in 0..MaxDepth : m \in Tree[n]
<1>1. PICK d : Depths(d) /\ \A p \in Messages : d[p] <= MaxDepth
  BY DEF ThreadInv
<1>2. Tree = AtDepth(d)
  BY <1>1, TreeIs, SocialConstants DEF ThreadInv, ParentsStand
<1>3. d[m] \in Nat /\ d[m] <= MaxDepth
  BY <1>1 DEF Depths
<1>4. m \in Tree[d[m]]
  BY <1>2, <1>3 DEF AtDepth
<1>5. QED
  BY <1>3, <1>4, SocialConstants

(* A step that keeps who is on the board and under whom.                   *)
LEMMA SameThreads ==
    ASSUME ThreadInv,
           \A m \in Messages : Exists(m)' <=> Exists(m),
           \A m \in Messages : Exists(m) => board'[m].parent = board[m].parent
    PROVE  ThreadInv'
<1>1. PICK d : Depths(d) /\ \A m \in Messages : d[m] <= MaxDepth
  BY DEF ThreadInv
<1>2. Depths(d)'
  BY <1>1 DEF Depths
<1>3. QED
  BY <1>1, <1>2 DEF ThreadInv

(* What is published hangs under a message of the board, and nothing hangs *)
(* under it yet.                                                           *)
LEMMA PublishThreads ==
    ASSUME BooksInv, ThreadInv, NEW k \in Keys, Publish(k)
    PROVE  ThreadInv'
<1> DEFINE t == request[k].target
<1>1. /\ status[k] = "pending" /\ request[k].kind \in PaidKinds
      /\ request[k].kind = "social_reply" => MayReplyTo(t)
      /\ board' = [board EXCEPT ![k] = [parent |-> t, author |-> request[k].author,
                                       deleted |-> FALSE, body |-> k]]
  BY DEF Publish, Settle, CanApply
<1>2. board \in [Messages -> MessageType \cup {NoMessage}] /\ k \in Messages
  BY DEF BooksInv, TablesOK, Messages
<1>3. ~Exists(k)
  BY <1>1 DEF BooksInv, PublishedOK
<1>4. request[k] \in Requests
  BY <1>1 DEF BooksInv, RowOK, TablesOK
<1>5. PICK d : Depths(d) /\ \A m \in Messages : d[m] <= MaxDepth
  BY DEF ThreadInv
<1>6. t = NoParent \/ /\ t \in Messages /\ Exists(t) /\ d[t] + 1 <= MaxDepth
  <2>1. CASE request[k].kind = "social_post"
    BY <1>4, <2>1, RequestIs
  <2>2. CASE request[k].kind = "social_reply"
    <3>1. t \in Messages
      BY <1>4, <2>2, RequestIs
    <3>2. Depth = d
      BY <1>5, DepthIs DEF ThreadInv, ParentsStand
    <3>3. QED
      BY <1>1, <2>2, <3>1, <3>2 DEF MayReplyTo
  <2>3. QED
    BY <1>1, <2>1, <2>2, PaidKindsAre
<1>7. /\ board'[k].parent = t /\ Exists(k)'
      /\ \A m \in Messages \ {k} : board'[m] = board[m] /\ (Exists(m)' <=> Exists(m))
  <2> DEFINE msg == [parent |-> t, author |-> request[k].author, deleted |-> FALSE, body |-> k]
  <2>1. t \in Messages \cup {NoParent} /\ request[k].author \in Authors
    BY <1>4, <1>6, RequestIs
  <2>2. msg \in MessageType
    BY <1>2, <2>1 DEF MessageType
  <2>3. msg # NoMessage
    BY <2>2, MessageIs
  <2>4. msg.parent = t
    OBVIOUS
  <2>5. board' = [board EXCEPT ![k] = msg]
    BY <1>1
  <2> HIDE DEF msg
  <2>6. QED
    BY <1>2, <2>3, <2>4, <2>5 DEF Exists
<1>8. \A m \in Messages : Exists(m) => board[m].parent # k
  BY <1>2, <1>3, SocialConstants DEF ThreadInv
<1> HIDE DEF t
<1>9. PICK e : /\ e[k] = (IF t = NoParent THEN 0 ELSE 1 + d[t])
               /\ e \in [Messages -> Nat]
               /\ \A m \in Messages \ {k} : e[m] = d[m]
  <2> DEFINE f == [m \in Messages |-> IF m = k THEN (IF t = NoParent THEN 0 ELSE 1 + d[t])
                                      ELSE d[m]]
  <2>1. /\ f[k] = (IF t = NoParent THEN 0 ELSE 1 + d[t])
        /\ f \in [Messages -> Nat]
        /\ \A m \in Messages \ {k} : f[m] = d[m]
    BY <1>2, <1>5, <1>6 DEF Depths
  <2> HIDE DEF f
  <2>2. QED
    BY <2>1
<1>10. t # k
  BY <1>2, <1>3, <1>6, SocialConstants
<1>11. Depths(e)'
  <2>1. ASSUME NEW m \in Messages
        PROVE  e[m] = IF ~Exists(m)' \/ board'[m].parent = NoParent THEN 0
                      ELSE 1 + e[board'[m].parent]
    <3>1. CASE m = k
      BY <1>6, <1>7, <1>9, <1>10, <3>1
    <3>2. CASE m # k
      <4>1. d[m] = IF ~Exists(m) \/ board[m].parent = NoParent THEN 0
                   ELSE 1 + d[board[m].parent]
        BY <1>5 DEF Depths
      <4>2. Exists(m) /\ board[m].parent # NoParent => board[m].parent \in Messages \ {k}
        BY <1>8 DEF ThreadInv
      <4>3. QED
        BY <1>7, <1>9, <3>2, <4>1, <4>2
    <3>3. QED
      BY <3>1, <3>2
  <2>2. QED
    BY <1>9, <2>1 DEF Depths
<1>12. \A m \in Messages : e[m] <= MaxDepth
  <2>1. MaxDepth \in Nat
    BY SocialConstants
  <2>2. e[k] <= MaxDepth
    BY <1>5, <1>6, <1>9, <2>1 DEF Depths
  <2>3. QED
    BY <1>5, <1>9, <2>2
<1>13. ASSUME NEW m \in Messages, Exists(m)', board'[m].parent # NoParent
       PROVE  board'[m].parent \in Messages /\ board'[board'[m].parent] # NoMessage
  <2>0. \A p \in Messages : Exists(p) => board'[p] # NoMessage
    BY <1>7 DEF Exists
  <2>1. CASE m = k
    BY <1>6, <1>7, <1>13, <2>0, <2>1
  <2>2. CASE m # k
    <3>1. board[m].parent \in Messages /\ Exists(board[m].parent)
      BY <1>7, <1>13, <2>2 DEF ThreadInv
    <3>2. QED
      BY <1>7, <2>0, <2>2, <3>1
  <2>3. QED
    BY <2>1, <2>2
<1>14. QED
  BY <1>11, <1>12, <1>13 DEF ThreadInv, Exists

-----------------------------------------------------------------------------
(* What edits and deletions did.                                           *)
MarkKinds == {"social_edit", "social_delete"}

Applied(k, kind, m) ==
    status[k] = "adjudicated" /\ request[k].kind = kind /\ request[k].target = m

(* A message whose edits, deletions and text stay keeps its marks.         *)
LEMMA MarksSame ==
    ASSUME NEW m \in Messages, MarksOK(m), board'[m] = board[m],
           \A kind \in MarkKinds : Done(kind, m)' = Done(kind, m),
           \A k \in Keys : status[k] = "adjudicated" => born'[k] = born[k],
           late \subseteq late'
    PROVE  MarksOK(m)'
<1>1. /\ Done("social_edit", m)' = Done("social_edit", m)
      /\ Done("social_delete", m)' = Done("social_delete", m)
  BY DEF MarkKinds
<1>2. \A k \in Done("social_edit", m) : born'[k] = born[k]
  BY DEF Done
<1> DEFINE E == Done("social_edit", m)
<1>3. LastBody(m)' = LastBody(m)
  <2>1. LastBody(m)' = IF Done("social_edit", m)' = {} THEN {m}
                       ELSE {k \in Done("social_edit", m)' :
                               \A j \in Done("social_edit", m)' : born'[j] <= born'[k]}
    BY DEF LastBody
  <2>2. LastBody(m) = IF E = {} THEN {m}
                      ELSE {k \in E : \A j \in E : born[j] <= born[k]}
    BY DEF LastBody
  <2> HIDE DEF E
  <2>3. \A k \in E : born'[k] = born[k]
    BY <1>2 DEF E
  <2>4. {k \in E : \A j \in E : born'[j] <= born'[k]} = {k \in E : \A j \in E : born[j] <= born[k]}
    BY <2>3
  <2>5. Done("social_edit", m)' = E
    BY <1>1 DEF E
  <2>6. QED
    BY <2>1, <2>2, <2>4, <2>5
<1>4. QED
  BY <1>1, <1>3 DEF MarksOK, Exists

(* As long as what was decided stays, and nothing else is decided for the  *)
(* message, its edits and deletions stay.                                  *)
LEMMA DoneSame ==
    ASSUME NEW kind, NEW m,
           \A k \in Keys : Applied(k, kind, m)' <=> Applied(k, kind, m)
    PROVE  Done(kind, m)' = Done(kind, m)
BY DEF Done, Applied

(* Applying one more intent to a message adds it to what was done to it. *)
LEMMA DoneMore ==
    ASSUME NEW kind, NEW m, NEW i \in Keys,
           \A k \in Keys \ {i} : Applied(k, kind, m)' <=> Applied(k, kind, m),
           Applied(i, kind, m)'
    PROVE  Done(kind, m)' = Done(kind, m) \cup {i}
BY DEF Done, Applied

(* A step that decides nothing for the better.                             *)
LEMMA IdleMarks ==
    ASSUME MarksInv, UNCHANGED board, late \subseteq late',
           \A k \in Keys : status'[k] = "adjudicated" <=> status[k] = "adjudicated",
           \A k \in Keys : status[k] = "adjudicated"
                             => request'[k] = request[k] /\ born'[k] = born[k]
    PROVE  MarksInv'
<1>1. ASSUME NEW m \in Messages, NEW kind PROVE Done(kind, m)' = Done(kind, m)
  BY DoneSame DEF Applied
<1>2. QED
  BY <1>1, MarksSame DEF MarksInv

(* What an adjudication adds to the applied intents: that one, and no other. *)
LEMMA DecidedFacts ==
    ASSUME PumpTypeOK, NEW k \in Keys, Settle(k, "adjudicated"), UNCHANGED request,
           NEW kind, NEW m
    PROVE  /\ \A j \in Keys \ {k} : Applied(j, kind, m)' <=> Applied(j, kind, m)
           /\ ~Applied(k, kind, m)
           /\ Applied(k, kind, m)' <=> request[k].kind = kind /\ request[k].target = m
           /\ born' = born
BY DEF PumpTypeOK, Settle, Applied

(* A message that appears has no marks yet.                                *)
LEMMA PublishMarks ==
    ASSUME PumpTypeOK, BooksInv, MarksInv, NEW k \in Keys, Publish(k)
    PROVE  MarksInv'
<1>1. /\ Settle(k, "adjudicated") /\ UNCHANGED <<late, request, spent>>
      /\ status[k] = "pending" /\ request[k].kind \in PaidKinds
      /\ board' = [board EXCEPT ![k] = [parent |-> request[k].target,
                       author |-> request[k].author, deleted |-> FALSE, body |-> k]]
  BY DEF Publish, Settle
<1>2. board \in [Messages -> MessageType \cup {NoMessage}] /\ k \in Messages
  BY DEF BooksInv, TablesOK, Messages
<1>3. ~Exists(k)
  BY <1>1 DEF BooksInv, PublishedOK
<1>4. ASSUME NEW m \in Messages, NEW kind \in MarkKinds
      PROVE  Done(kind, m)' = Done(kind, m)
  <2>1. ~Applied(k, kind, m)'
    BY <1>1, DecidedFacts, PaidKindsAre DEF MarkKinds
  <2>2. QED
    BY <1>1, <2>1, DecidedFacts, DoneSame
<1>5. ASSUME NEW m \in Messages, m # k PROVE MarksOK(m)'
  <2>1. board'[m] = board[m]
    BY <1>1, <1>2, <1>5
  <2>2. MarksOK(m) /\ born' = born /\ late' = late
    BY <1>1 DEF MarksInv, Settle
  <2>3. QED
    BY <1>4, <2>1, <2>2, MarksSame
<1>6. MarksOK(k)'
  <2>1. Done("social_edit", k)' = {} /\ Done("social_delete", k)' = {}
    BY <1>2, <1>3, <1>4 DEF MarksInv, MarksOK, MarkKinds
  <2>2. LastBody(k)' = {k}
    BY <2>1 DEF LastBody
  <2>3. board'[k].deleted = FALSE /\ board'[k].body = k
    BY <1>1, <1>2
  <2>4. QED
    BY <2>1, <2>2, <2>3 DEF MarksOK
<1>7. QED
  BY <1>5, <1>6 DEF MarksInv

(* A deletion leaves its tombstone, and what the message said.             *)
LEMMA DeleteMarks ==
    ASSUME PumpTypeOK, BooksInv, MarksInv, NEW k \in Keys, Delete(k)
    PROVE  MarksInv'
<1>0. PICK t : t = request[k].target
  OBVIOUS
<1>1. /\ t \in Messages /\ Exists(t)
      /\ \A m \in Messages \ {t} : board'[m] = board[m]
      /\ \A m \in Messages : Exists(m)' <=> Exists(m)
      /\ board'[t].deleted = TRUE /\ board'[t].body = board[t].body
  BY <1>0, MarkBooks
<1>2. /\ Settle(k, "adjudicated") /\ UNCHANGED <<late, request, spent>> /\ born' = born
      /\ request[k].kind = "social_delete"
  BY DEF Delete, Settle
<1>3. ASSUME NEW m \in Messages
      PROVE  Done("social_edit", m)' = Done("social_edit", m)
  <2>1. /\ \A j \in Keys \ {k} : Applied(j, "social_edit", m)'
                                 <=> Applied(j, "social_edit", m)
        /\ ~Applied(k, "social_edit", m)
        /\ Applied(k, "social_edit", m)'
             <=> request[k].kind = "social_edit" /\ request[k].target = m
    BY <1>2, DecidedFacts
  <2>2. ~Applied(k, "social_edit", m)'
    BY <1>2, <2>1
  <2>3. QED
    BY <2>1, <2>2, DoneSame
<1>4. ASSUME NEW m \in Messages, m # t PROVE MarksOK(m)'
  <2>1. Done("social_delete", m)' = Done("social_delete", m)
    BY <1>0, <1>2, <1>4, DecidedFacts, DoneSame
  <2>2. QED
    BY <1>1, <1>2, <1>3, <1>4, <2>1, MarksSame DEF MarksInv, MarkKinds
<1>5. MarksOK(t)'
  <2>1. Done("social_delete", t)' = Done("social_delete", t) \cup {k}
    BY <1>0, <1>2, DecidedFacts, DoneMore
  <2>2. LastBody(t)' = LastBody(t)
    BY <1>1, <1>2, <1>3 DEF LastBody
  <2>3. QED
    BY <1>1, <1>2, <1>3, <2>1, <2>2 DEF MarksInv, MarksOK
<1>6. QED
  BY <1>4, <1>5 DEF MarksInv

(* The edit that is decided is the last one acknowledged of those that     *)
(* went through: an older one still pending has been put off.              *)
LEMMA EditMarks ==
    ASSUME PumpIInv, BooksInv, MarksInv, NEW k \in Keys, Edit(k)
    PROVE  MarksInv'
<1> PumpTypeOK
  BY DEF PumpIInv
<1>0. PICK t : t = request[k].target
  OBVIOUS
<1>1. /\ t \in Messages /\ Exists(t)
      /\ \A m \in Messages \ {t} : board'[m] = board[m]
      /\ \A m \in Messages : Exists(m)' <=> Exists(m)
      /\ board'[t].body = k /\ board'[t].deleted = board[t].deleted
  BY <1>0, MarkBooks
<1>2. /\ Settle(k, "adjudicated") /\ UNCHANGED <<late, request, spent>> /\ born' = born
      /\ request[k].kind = "social_edit" /\ status[k] = "pending"
  BY DEF Edit, Settle
<1>3. ASSUME NEW m \in Messages
      PROVE  Done("social_delete", m)' = Done("social_delete", m)
  <2>1. /\ \A j \in Keys \ {k} : Applied(j, "social_delete", m)'
                                 <=> Applied(j, "social_delete", m)
        /\ ~Applied(k, "social_delete", m)
        /\ Applied(k, "social_delete", m)'
             <=> request[k].kind = "social_delete" /\ request[k].target = m
    BY <1>2, DecidedFacts
  <2>2. ~Applied(k, "social_delete", m)'
    BY <1>2, <2>1
  <2>3. QED
    BY <2>1, <2>2, DoneSame
<1>4. ASSUME NEW m \in Messages, m # t PROVE MarksOK(m)'
  <2>1. Done("social_edit", m)' = Done("social_edit", m)
    BY <1>0, <1>2, <1>4, DecidedFacts, DoneSame
  <2>2. QED
    BY <1>1, <1>2, <1>3, <1>4, <2>1, MarksSame DEF MarksInv, MarkKinds
<1>5. Done("social_edit", t)' = Done("social_edit", t) \cup {k}
  BY <1>0, <1>2, DecidedFacts, DoneMore
<1>6. ASSUME k \notin late PROVE k \in LastBody(t)'
  <2>1. ASSUME NEW j \in Done("social_edit", t) PROVE born[j] <= born[k]
    <3>1. j \in Rows \ Pending /\ k \in Pending
      BY <1>2 DEF Done, Rows, Pending
    <3>2. ~(born[k] < born[j])
      BY <1>6, <3>1 DEF PumpIInv, QueueInv
    <3>3. born[j] \in Nat /\ born[k] \in Nat
      BY DEF PumpTypeOK, Done
    <3>4. QED
      BY <3>2, <3>3
  <2>2. born[k] <= born[k]
    BY DEF PumpTypeOK
  <2>3. QED
    BY <1>2, <1>5, <2>1, <2>2 DEF LastBody
<1>7. MarksOK(t)'
  <2>1. k \in Done("social_edit", t)'
    BY <1>5
  <2>2. Done("social_edit", t)' \cap late' = {} => board'[t].body \in LastBody(t)'
    BY <1>1, <1>2, <1>6, <2>1
  <2>3. QED
    BY <1>1, <1>3, <2>2 DEF MarksInv, MarksOK
<1>8. QED
  BY <1>4, <1>7 DEF MarksInv

-----------------------------------------------------------------------------
(* The invariant, at first and after every step.                           *)
LEMMA SocialInitInv == SocialInit => SocialIInv
<1> SUFFICES ASSUME SocialInit PROVE SocialIInv
  OBVIOUS
<1>1. /\ PumpInit /\ request = [k \in Keys |-> NoRequest]
      /\ escrow = [k \in Keys |-> "none"] /\ essence = StartEssence
      /\ debits = [k \in Keys |-> 0]
      /\ spent = [s \in Souls |-> 0]
  BY DEF SocialInit
<1>2. PICK t \in Tamers :
        board = [m \in Messages |->
                   IF m \in Legacy
                   THEN [parent |-> NoParent, author |-> t, deleted |-> FALSE, body |-> m]
                   ELSE NoMessage]
  BY DEF SocialInit
<1>3. \A m \in Messages :
        /\ m \in Legacy => /\ board[m] \in MessageType /\ Exists(m)
                           /\ board[m].parent = NoParent /\ board[m].deleted = FALSE
                           /\ board[m].body = m
        /\ m \notin Legacy => board[m] = NoMessage /\ ~Exists(m)
  <2>1. ASSUME NEW m \in Messages, m \in Legacy
        PROVE  /\ board[m] \in MessageType
               /\ board[m].parent = NoParent /\ board[m].deleted = FALSE /\ board[m].body = m
    BY <1>2, <2>1 DEF MessageType, Authors
  <2>2. ASSUME NEW m \in Messages, m \notin Legacy PROVE board[m] = NoMessage
    BY <1>2, <2>2
  <2>3. QED
    BY <2>1, <2>2, MessageIs DEF Exists
<1>4. PumpIInv
  BY <1>1, PumpInitInv
<1>5. TablesOK
  <2>1. board \in [Messages -> MessageType \cup {NoMessage}]
    <3>1. board = [m \in Messages |-> board[m]]
      BY <1>2
    <3>2. \A m \in Messages : board[m] \in MessageType \cup {NoMessage}
      BY <1>3
    <3>3. QED
      BY <3>1, <3>2
  <2>2. spent \in [Souls -> Nat]
    BY <1>1
  <2>3. QED
    BY <1>1, <2>1, <2>2, SocialConstants DEF TablesOK
<1>6. \A k \in Keys : status[k] = "absent" /\ request[k] = NoRequest /\ escrow[k] = "none"
                      /\ debits[k] = 0 /\ ~Paid(k)
  BY <1>1 DEF PumpInit, Paid
<1>7. \A k \in Keys : ~Exists(k)
  BY <1>3, SocialConstants DEF Messages
<1>8. BooksInv
  BY <1>5, <1>6, <1>7 DEF BooksInv, RowOK, PublishedOK
<1>9. AccountsHold
  <2>1. ASSUME NEW s \in Souls PROVE Account(s) = StartEssence[s]
    <3>1. PaidBy(s) = {} /\ HeldFor(s) = {}
      BY <1>6 DEF PaidBy, HeldFor
    <3>2. Total(Price, HeldFor(s)) = 0 /\ Total(debits, PaidBy(s)) = 0
      BY <3>1, TotalEmpty
    <3>3. essence[s] = StartEssence[s] /\ spent[s] = 0 /\ StartEssence[s] \in Nat
      BY <1>1, SocialConstants
    <3>4. QED
      BY <3>2, <3>3 DEF Account
  <2>2. QED
    BY <2>1 DEF AccountsHold
<1>10. ThreadInv
  <2>1. PICK d : d \in [Messages -> Nat] /\ \A m \in Messages : d[m] = 0
    <3> DEFINE zero == [m \in Messages |-> 0]
    <3>1. zero \in [Messages -> Nat] /\ \A m \in Messages : zero[m] = 0
      OBVIOUS
    <3> HIDE DEF zero
    <3>2. QED
      BY <3>1
  <2>2. Depths(d)
    BY <1>3, <2>1 DEF Depths
  <2>3. MaxDepth >= 0
    BY SocialConstants
  <2>4. QED
    BY <1>3, <2>1, <2>2, <2>3 DEF ThreadInv
<1>11. MarksInv
  <2>1. ASSUME NEW m \in Messages, NEW kind PROVE Done(kind, m) = {}
    BY <1>6 DEF Done
  <2>2. QED
    BY <1>3, <2>1 DEF MarksInv, MarksOK, LastBody
<1>12. QED
  BY <1>4, <1>8, <1>9, <1>10, <1>11 DEF SocialIInv

(* What another part of the program takes is written down as spent.        *)
LEMMA DrainBooks ==
    ASSUME BooksInv, NEW s \in Souls, Drain(s)
    PROVE  BooksInv' /\ PursesSame
<1>1. /\ essence' = [essence EXCEPT ![s] = @ - 1] /\ essence[s] > 0
      /\ spent' = [spent EXCEPT ![s] = @ + 1]
      /\ UNCHANGED <<status, request, escrow, debits, board>>
  BY DEF Drain, pumpVars
<1>2. TablesOK
  BY DEF BooksInv
<1>3. spent \in [Souls -> Nat] /\ spent' \in [Souls -> Nat]
  BY <1>1, <1>2 DEF TablesOK
<1>4. TablesOK'
  BY <1>1, <1>2, <1>3 DEF TablesOK
<1>5. \A k \in Keys : Paid(k)' <=> Paid(k)
  BY <1>1 DEF Paid
<1>6. Price' = Price
  BY <1>1 DEF Price
<1>7. BooksInv'
  <2>1. ASSUME NEW k \in Keys PROVE RowOK(k)' /\ PublishedOK(k)'
    BY <1>1, <1>5, <1>6 DEF BooksInv, RowOK, PublishedOK, Exists
  <2>2. QED
    BY <1>4, <2>1 DEF BooksInv
<1>8. ASSUME NEW a \in Souls PROVE Account(a)' = Account(a)
  <2>1. PaidBy(a)' = PaidBy(a) /\ HeldFor(a)' = HeldFor(a)
    BY <1>1 DEF PaidBy, HeldFor
  <2>2. PICK held, paid : held = Total(Price, HeldFor(a)) /\ paid = Total(debits, PaidBy(a))
    OBVIOUS
  <2>3. held \in Int /\ paid \in Int
    <3>1. /\ IsFiniteSet(HeldFor(a)) /\ Ints(Price, HeldFor(a))
          /\ IsFiniteSet(PaidBy(a)) /\ Ints(debits, PaidBy(a))
      BY <1>2, PriceInts
    <3>2. QED
      BY <2>2, <3>1, TotalInt
  <2>4. /\ Account(a) = essence[a] + held + paid + spent[a]
        /\ Account(a)' = essence'[a] + held + paid + spent'[a]
    BY <1>1, <1>6, <2>1, <2>2 DEF Account
  <2>5. /\ essence[a] \in Int /\ spent[a] \in Int
        /\ essence'[a] = IF a = s THEN essence[a] - 1 ELSE essence[a]
        /\ spent'[a] = IF a = s THEN spent[a] + 1 ELSE spent[a]
    BY <1>1, <1>2, <1>3 DEF TablesOK
  <2>6. QED
    BY <2>3, <2>4, <2>5
<1>9. QED
  BY <1>7, <1>8 DEF PursesSame

(* A step that leaves the intents, the money and the board alone.          *)
LEMMA IdleInv ==
    ASSUME SocialIInv, UNCHANGED <<status, born, request, moneyVars, board>>,
           spent' = spent, late \subseteq late',
           spent' \in [Souls -> Nat]
    PROVE  BooksInv' /\ PursesSame /\ ThreadInv' /\ MarksInv'
<1>1. TablesOK'
  BY DEF SocialIInv, BooksInv, TablesOK, moneyVars
<1>2. \A k \in Keys : Exists(k)' <=> Exists(k)
  BY DEF Exists
<1>3. BooksInv' /\ PursesSame
  BY <1>1, <1>2, SameBooks DEF SocialIInv
<1>4. ThreadInv'
  BY SameThreads DEF SocialIInv, Exists
<1>5. MarksInv'
  BY IdleMarks DEF SocialIInv
<1>6. QED
  BY <1>3, <1>4, <1>5

(* An intent that is rejected, or whose escrow a boot finds.               *)
LEMMA RejectInv ==
    ASSUME SocialIInv, NEW k \in Keys, status[k] \in {"pending", "rejected"},
           status' = [status EXCEPT ![k] = "rejected"],
           Release(k) \/ UNCHANGED moneyVars,
           UNCHANGED <<born, late, request, board, spent>>
    PROVE  BooksInv' /\ PursesSame /\ ThreadInv' /\ MarksInv'
<1>1. PumpTypeOK
  BY DEF SocialIInv, PumpIInv
<1>2. BooksInv' /\ PursesSame
  BY <1>1, ReleaseBooks DEF SocialIInv
<1>3. ThreadInv'
  BY SameThreads DEF SocialIInv, Exists
<1>4. \A j \in Keys : status'[j] = "adjudicated" <=> status[j] = "adjudicated"
  BY <1>1 DEF PumpTypeOK
<1>5. MarksInv'
  BY <1>4, IdleMarks DEF SocialIInv
<1>6. QED
  BY <1>2, <1>3, <1>5

(* Taking in a message or a change of one keeps every part of the invariant. *)
LEMMA EnqueueInv ==
    ASSUME SocialIInv, NEW k \in Keys, NEW r \in Requests,
           EnqueueMessage(k, r) \/ EnqueueMutation(k, r)
    PROVE  BooksInv' /\ PursesSame /\ ThreadInv' /\ MarksInv'
<1>1. PumpTypeOK
  BY DEF SocialIInv, PumpIInv
<1>2. Record(k, r) /\ IF Paying(r) THEN Hold(k, r) ELSE UNCHANGED <<escrow, essence>>
  BY DEF EnqueueMessage, EnqueueMutation, Paying
<1>3. BooksInv' /\ PursesSame
  BY <1>1, <1>2, EnqueueBooks DEF SocialIInv
<1>4. UNCHANGED board
  BY <1>2 DEF Record
<1>5. ThreadInv'
  BY <1>4, SameThreads DEF SocialIInv, Exists
<1>6. /\ \A j \in Keys : status'[j] = "adjudicated" <=> status[j] = "adjudicated"
      /\ \A j \in Keys : status[j] = "adjudicated"
                           => request'[j] = request[j] /\ born'[j] = born[j]
      /\ late' = late
  <2>1. /\ status[k] = "absent" /\ status' = [status EXCEPT ![k] = "pending"]
        /\ born' = [born EXCEPT ![k] = Cardinality(Rows) + 1]
        /\ request' = [request EXCEPT ![k] = r] /\ late' = late
    BY <1>2 DEF Record, Insert
  <2>2. status \in [Keys -> Statuses] /\ born \in [Keys -> Nat]
        /\ request \in [Keys -> Requests \cup {NoRequest}]
    BY <1>1 DEF PumpTypeOK, SocialIInv, BooksInv, TablesOK
  <2>3. QED
    BY <2>1, <2>2
<1>7. MarksInv'
  BY <1>4, <1>6, IdleMarks DEF SocialIInv
<1>8. QED
  BY <1>3, <1>5, <1>7

(* A boot finishes only what was refused: what goes through leaves no      *)
(* escrow held.                                                            *)
LEMMA ReconcileInv ==
    ASSUME SocialIInv, NEW k \in Keys, Reconcile(k)
    PROVE  BooksInv' /\ PursesSame /\ ThreadInv' /\ MarksInv'
<1>1. PumpTypeOK /\ RowOK(k)
  BY DEF SocialIInv, PumpIInv, BooksInv
<1>2. escrow[k] = "held" /\ status[k] # "pending" /\ status[k] \in Statuses
      /\ UNCHANGED <<pumpVars, request, board, spent>>
  BY <1>1 DEF Reconcile, Unfinished, PumpTypeOK
<1>3. Paid(k)
  BY <1>1, <1>2 DEF RowOK
<1>4. status[k] = "rejected"
  BY <1>1, <1>2, <1>3 DEF RowOK, Paid, Statuses, Settled
<1>5. Release(k)
  BY <1>4 DEF Reconcile
<1>6. status' = [status EXCEPT ![k] = "rejected"] /\ UNCHANGED <<born, late>>
  BY <1>1, <1>2, <1>4 DEF PumpTypeOK, pumpVars
<1>7. QED
  BY <1>2, <1>4, <1>5, <1>6, RejectInv

(* Every step keeps the invariant of the board. *)
LEMMA SocialStepInv ==
    ASSUME SocialIInv, [SocialNext]_socialVars
    PROVE  SocialIInv'
<1> DEFINE Kept == BooksInv' /\ PursesSame /\ ThreadInv' /\ MarksInv'
<1>1. PumpTypeOK
  BY DEF SocialIInv, PumpIInv
<1>2. PumpIInv'
  BY SocialStepPumps, PumpStepInv DEF SocialIInv, PumpNext
<1>3. spent \in [Souls -> Nat]
  BY DEF SocialIInv, BooksInv, TablesOK
<1>4. ASSUME NEW k \in Keys, NEW r \in Requests, EnqueueMessage(k, r) \/ EnqueueMutation(k, r)
      PROVE  Kept
  BY <1>4, EnqueueInv
<1>5. ASSUME NEW k \in Keys, Publish(k) PROVE Kept
  BY <1>1, <1>5, PublishBooks, PublishThreads, PublishMarks DEF SocialIInv
<1>6. ASSUME NEW k \in Keys, Edit(k) \/ Delete(k) PROVE Kept
  <2>1. BooksInv' /\ PursesSame
    BY <1>1, <1>6, MarkBooks DEF SocialIInv
  <2>2. /\ \A m \in Messages : Exists(m)' <=> Exists(m)
        /\ \A m \in Messages : Exists(m) => board'[m].parent = board[m].parent
    BY <1>1, <1>6, MarkBooks DEF SocialIInv
  <2>3. ThreadInv'
    BY <2>2, SameThreads DEF SocialIInv
  <2>4. MarksInv'
    BY <1>1, <1>6, EditMarks, DeleteMarks DEF SocialIInv
  <2>5. QED
    BY <2>1, <2>3, <2>4
<1>7. ASSUME NEW k \in Keys, Refuse(k) \/ Compensate(k) \/ RejectUncompensated(k)
      PROVE  Kept
  <2>1. /\ status[k] = "pending" /\ status' = [status EXCEPT ![k] = "rejected"]
        /\ UNCHANGED <<born, late, request, board, spent>>
        /\ Release(k) \/ UNCHANGED moneyVars
    BY <1>7 DEF Refuse, Compensate, RejectUncompensated, Settle
  <2>2. QED
    BY <2>1, RejectInv
<1>8. ASSUME NEW k \in Keys, Reconcile(k) PROVE Kept
  BY <1>8, ReconcileInv
<1>9. ASSUME NEW k \in Keys, LeavePending(k) PROVE Kept
  <2>1. /\ late' = late \cup {k}
        /\ UNCHANGED <<status, born, request, moneyVars, board, spent>>
    BY <1>9 DEF LeavePending, Postpone
  <2>2. spent' = spent /\ late \subseteq late'
        /\ spent' \in [Souls -> Nat]
    BY <1>3, <2>1
  <2>3. QED
    BY <2>1, <2>2, IdleInv
<1>10. ASSUME \/ \E k \in Keys : Resubmit(k)
              \/ BeginPass \/ CrashSim \/ BootSim \/ UNCHANGED socialVars
       PROVE  Kept
  <2>1. UNCHANGED <<status, born, late, request, moneyVars, board, spent>>
    BY <1>10 DEF Resubmit, Retry, BeginPass, PumpBegin, CrashSim, Crash, BootSim, Boot,
                 socialVars, pumpVars
  <2>2. QED
    BY <1>3, <2>1, IdleInv
<1>11. ASSUME NEW s \in Souls, Drain(s) PROVE Kept
  <2>1. UNCHANGED <<status, born, late, request, board>>
    BY <1>11 DEF Drain, pumpVars
  <2>2. BooksInv' /\ PursesSame
    BY <1>11, DrainBooks DEF SocialIInv
  <2>3. ThreadInv'
    BY <2>1, SameThreads DEF SocialIInv, Exists
  <2>4. MarksInv'
    BY <2>1, IdleMarks DEF SocialIInv
  <2>5. QED
    BY <2>2, <2>3, <2>4
<1>12. Kept
  BY <1>4, <1>5, <1>6, <1>7, <1>8, <1>9, <1>10, <1>11 DEF SocialNext
<1>13. AccountsHold'
  BY <1>12 DEF SocialIInv, AccountsHold, PursesSame
<1>14. QED
  BY <1>1, <1>2, <1>12, <1>13 DEF SocialIInv

(* Every reachable state of the board satisfies the invariant. *)
LEMMA SocialInvariant == SocialSpec => []SocialIInv
BY SocialInitInv, SocialStepInv, PTL DEF SocialSpec

-----------------------------------------------------------------------------
(* The invariant explains every purse. *)
LEMMA PursesAdd ==
    ASSUME SocialIInv
    PROVE  PurseExplained
<1> SUFFICES ASSUME NEW s \in Souls
             PROVE  /\ Account(s) = StartEssence[s]
                    /\ \A k \in PaidBy(s) : debits[k] > 0 <=> Exists(k)
  BY DEF PurseExplained, Account
<1>1. Account(s) = StartEssence[s]
  BY DEF SocialIInv, AccountsHold
<1>2. ASSUME NEW k \in PaidBy(s) PROVE debits[k] > 0 <=> Exists(k)
  <2>1. k \in Keys /\ Paid(k)
    BY <1>2 DEF PaidBy, Paid
  <2>2. TablesOK /\ RowOK(k) /\ PublishedOK(k) /\ status[k] \in Statuses
    BY <2>1 DEF SocialIInv, BooksInv, PumpIInv, PumpTypeOK
  <2>3. Price[k] > 0 /\ request[k].kind \in PaidKinds
    BY <2>1, <2>2, PaidIs
  <2>4. escrow[k] = "applied" <=> status[k] = "adjudicated"
    BY <2>1, <2>2 DEF RowOK, Paid, Statuses, Settled
  <2>5. QED
    BY <2>2, <2>3, <2>4 DEF RowOK, PublishedOK
<1>3. QED
  BY <1>1, <1>2

(* What a soul had at first is in its purse, spent by another part of the  *)
(* program, held for an intent that is not finished, or debited for a      *)
(* message of its own that is on the board: no refusal, failed write,      *)
(* crash, reconciliation or repeated request costs a soul its essence or   *)
(* gives it a message for nothing (social.py:159, 418, market.py:251).     *)
THEOREM PursesExplained == SocialSpec => []PurseExplained
BY SocialInvariant, PursesAdd, PTL

(* The invariant ties what the board shows to the applied intents. *)
LEMMA BoardFollows ==
    ASSUME SocialIInv
    PROVE  BoardFollowsIntents
<1>1. ASSUME NEW k \in Keys
      PROVE  Exists(k) <=> status[k] = "adjudicated" /\ request[k].kind \in PaidKinds
  BY DEF SocialIInv, BooksInv, PublishedOK
<1>2. ASSUME NEW m \in Messages, Exists(m)
      PROVE  /\ board[m].parent # NoParent => Exists(board[m].parent)
             /\ \E n \in 0..MaxDepth : m \in Tree[n]
             /\ board[m].deleted <=> Done("social_delete", m) # {}
             /\ Done("social_edit", m) \cap late = {} => board[m].body \in LastBody(m)
  <2>1. board[m].parent # NoParent => Exists(board[m].parent)
    BY <1>2 DEF SocialIInv, ThreadInv
  <2>2. \E n \in 0..MaxDepth : m \in Tree[n]
    BY <1>2, EveryMessageShows DEF SocialIInv
  <2>3. QED
    BY <1>2, <2>1, <2>2 DEF SocialIInv, MarksInv, MarksOK
<1>3. QED
  BY <1>1, <1>2 DEF BoardFollowsIntents

(* The board is what the intents that went through made of it, however     *)
(* passes, failed writes and restarts interleave: no other message, each   *)
(* under a parent that is there and shown within the cap of the tree,      *)
(* tombstones exactly where a deletion went through, and the text of the   *)
(* last edit acknowledged unless one was put off (social.py:375, 487, 526, *)
(* 669).                                                                   *)
THEOREM BoardIsIntents == SocialSpec => []BoardFollowsIntents
BY SocialInvariant, BoardFollows, PTL

(* The parent is looked up in the transaction that publishes the reply.    *)
LEMMA ReplyUnderLive ==
    ASSUME SocialIInv, [SocialNext]_socialVars, NEW k \in Keys,
           ~Exists(k), board'[k] # NoMessage, board'[k].parent # NoParent
    PROVE  ~board'[board'[k].parent].deleted
<1>1. PumpTypeOK /\ BooksInv /\ k \in Messages
  BY DEF SocialIInv, PumpIInv, Messages
<1>2. board' # board
  BY DEF Exists
<1>3. ASSUME NEW j \in Keys, Edit(j) \/ Delete(j) PROVE FALSE
  BY <1>1, <1>3, MarkBooks DEF Exists
<1>4. PICK j \in Keys : Publish(j)
  BY <1>2, <1>3 DEF SocialNext, EnqueueMessage, EnqueueMutation, Record, Resubmit, Refuse,
                    Compensate, RejectUncompensated, LeavePending, Reconcile, BeginPass,
                    CrashSim, BootSim, Drain, socialVars
<1>5. PICK t : t = request[j].target
  OBVIOUS
<1>6. /\ status[j] = "pending" /\ request[j].kind \in PaidKinds
      /\ request[j].kind = "social_reply" => MayReplyTo(t)
      /\ board' = [board EXCEPT ![j] = [parent |-> t, author |-> request[j].author,
                                       deleted |-> FALSE, body |-> j]]
  BY <1>4, <1>5 DEF Publish, Settle, CanApply
<1>7. board \in [Messages -> MessageType \cup {NoMessage}] /\ j \in Messages
  BY <1>1 DEF BooksInv, TablesOK, Messages
<1>8. k = j /\ board'[j].parent = t
  BY <1>6, <1>7 DEF Exists
<1>9. request[j] \in Requests
  BY <1>1, <1>6 DEF BooksInv, RowOK, TablesOK
<1>10. t \in Messages /\ MayReplyTo(t)
  BY <1>5, <1>6, <1>8, <1>9, RequestIs, PaidKindsAre
<1>11. Exists(t) /\ ~board[t].deleted
  BY <1>10 DEF MayReplyTo
<1>12. t # j
  BY <1>8, <1>11
<1>13. board'[t] = board[t]
  BY <1>6, <1>7, <1>10, <1>12
<1>14. QED
  BY <1>8, <1>11, <1>13

(* A reply that was acknowledged while its parent stood, and whose parent  *)
(* was deleted before the pass that settles it, does not appear            *)
(* (social.py:445).                                                        *)
THEOREM NoReplyUnderDead == SocialSpec => NoReplyUnderTombstone
<1>1. SocialIInv /\ [SocialNext]_socialVars =>
        [\A k \in Keys :
            /\ ~Exists(k) /\ board'[k] # NoMessage
            /\ board'[k].parent # NoParent
            => ~board'[board'[k].parent].deleted]_socialVars
  BY ReplyUnderLive
<1>2. QED
  BY <1>1, SocialInvariant, PTL DEF SocialSpec, NoReplyUnderTombstone

(* Tables, queue and purses hold what their columns say; in particular the *)
(* essence of a soul never goes below zero (social.py:172).                *)
THEOREM SocialTyped == SocialSpec => []SocialTypeOK
<1>1. SocialIInv => SocialTypeOK
  BY DEF SocialIInv, PumpIInv, BooksInv, TablesOK, SocialTypeOK
<1>2. QED
  BY <1>1, SocialInvariant, PTL
=============================================================================
