------------------------- MODULE WriteBehindProofs --------------------------
(***************************************************************************)
(* Proofs about the two parts that write behind what they have done, and   *)
(* that a crash may cut off: the billing of LLM calls (Metering) and the   *)
(* motion of the souls (Recovery), for any souls, prices, roads, cadences  *)
(* and bounds.                                                             *)
(***************************************************************************)
EXTENDS Metering, Recovery, SumTheorems, SequenceTheorems

-----------------------------------------------------------------------------
(***************************************************************************)
(* The billing.  First the claims, which do not depend on how much is      *)
(* charged: a claimed event has somebody to settle it, and a settled one   *)
(* keeps its charge.  Then the arithmetic of a settlement, for any numbered *)
(* rows and any prices (PaidInAll), and from it the accounts: they add up, *)
(* and only an empty wallet is let off.                                    *)
(***************************************************************************)
(* The part of the typing that claims depend on.                           *)
ClaimTypes ==
    /\ call \in [Events -> UsageRows \cup {NoCall}]
    /\ events \subseteq Usage
    /\ writing \subseteq Usage
    /\ batch \in [Events -> Nat]
    /\ settled \in [Events -> Intents \cup {NoIntent}]
    /\ status \in [Intents -> {"absent", "pending", "adjudicated", "rejected"}]
    /\ seq \in 0..MaxBatches
    /\ faults \in Nat

(* Only a recorded event is claimed, and by a batch that has been made.    *)
ClaimsRecorded ==
    \A e \in Events : batch[e] # 0 => e \in events /\ batch[e] \in 1..seq

(* Usage ids are given out one after the other.                            *)
UsageInOrder == \E n \in 0..MaxUsage : Usage = 1..n

ClaimInv == ClaimTypes /\ UsageInOrder /\ ClaimsRecorded /\ ClaimsInFlight

-----------------------------------------------------------------------------
(* A usage row is one of a soul, and says how many tokens it used.         *)
LEMMA RowParts ==
    ASSUME NEW row \in UsageRows
    PROVE  row.soul \in Souls /\ row.tokens \in Nat
BY CallsTyped DEF UsageRows, Reflexes

(* A usage event comes from a recorded row of a soul. *)
LEMMA UsageCalls ==
    ASSUME ClaimTypes, NEW e \in Usage
    PROVE  call[e] \in UsageRows /\ call[e].soul \in Souls
BY RowParts DEF ClaimTypes, Usage

(* The meter starts in the claim invariant. *)
LEMMA ClaimInit == Init => ClaimInv
<1> SUFFICES ASSUME Init PROVE ClaimInv
  OBVIOUS
<1>1. Usage = {}
  BY DEF Init, Usage
<1>2. UsageInOrder
  BY <1>1, MeteringBounds DEF UsageInOrder, Events
<1>3. QED
  BY <1>1, <1>2, MeteringBounds
     DEF Init, ClaimInv, ClaimTypes, ClaimsRecorded, ClaimsInFlight

(* A new row gets an id that no row has.                                   *)
LEMMA NewRowKeeps ==
    ASSUME ClaimTypes, UsageInOrder, NEW e \in Events, NEW c \in UsageRows, NewRow(e, c)
    PROVE  /\ call' \in [Events -> UsageRows \cup {NoCall}]
           /\ \A d \in Usage : call'[d] = call[d]
           /\ Usage' = Usage \cup {e}
           /\ UsageInOrder'
<1>1. PICK n \in 0..MaxUsage : Usage = 1..n
  BY DEF UsageInOrder
<1>2. Cardinality(Usage) = n
  BY <1>1, MeteringBounds, FS_Interval
<1>3. e = n + 1 /\ e \notin Usage
  BY <1>1, <1>2 DEF NewRow
<1>4. /\ call' \in [Events -> UsageRows \cup {NoCall}]
      /\ \A d \in Usage : call'[d] = call[d]
      /\ Usage' = Usage \cup {e}
  BY <1>3, NoCallDistinct DEF ClaimTypes, NewRow, Usage
<1>5. n + 1 \in 0..MaxUsage /\ Usage' = 1..(n + 1)
  BY <1>1, <1>3, <1>4, MeteringBounds DEF Events
<1>6. QED
  BY <1>4, <1>5 DEF UsageInOrder

(* A step that leaves claims and settlements alone.                        *)
LEMMA SameClaims ==
    ASSUME ClaimInv, UNCHANGED <<claimVars, settled>>, faults' \in Nat, faults' >= faults,
           call' \in [Events -> UsageRows \cup {NoCall}],
           \A e \in Usage : call'[e] = call[e],
           UsageInOrder',
           events \subseteq events', events' \subseteq Usage',
           writing' \subseteq Usage'
    PROVE  ClaimInv'
<1> USE DEF ClaimInv, claimVars
<1>1. ClaimTypes'
  BY DEF ClaimTypes
<1>2. ClaimsRecorded'
  BY DEF ClaimsRecorded
<1>3. ClaimsInFlight'
  BY DEF ClaimsInFlight, ClaimsRecorded, ClaimTypes, Unsettled
<1>4. QED
  BY <1>1, <1>2, <1>3

(* Steps that leave the usage rows alone as well.                          *)
LEMMA SameUsage ==
    ASSUME ClaimInv, UNCHANGED call
    PROVE  /\ Usage' = Usage
           /\ UsageInOrder'
           /\ call' \in [Events -> UsageRows \cup {NoCall}]
BY DEF ClaimInv, ClaimTypes, Usage, UsageInOrder

(* A new usage row, and the row of a quip, keep the claim invariant. *)
LEMMA RecordingKeeps ==
    ASSUME ClaimInv, NEW e \in Events, NEW c \in UsageRows,
           RecordUsage(e, c) \/ Quip(e, c)
    PROVE  ClaimInv'
<1>1. NewRow(e, c) /\ UNCHANGED <<events, claimVars, settled, boundVars>>
  BY DEF RecordUsage, Quip, chargeVars
<1>2. /\ call' \in [Events -> UsageRows \cup {NoCall}]
      /\ \A d \in Usage : call'[d] = call[d]
      /\ Usage' = Usage \cup {e}
      /\ UsageInOrder'
  BY <1>1, NewRowKeeps DEF ClaimInv
<1>3. writing' \subseteq Usage'
  BY <1>2 DEF RecordUsage, Quip, ClaimInv, ClaimTypes
<1>4. QED
  BY <1>1, <1>2, <1>3, SameClaims DEF ClaimInv, ClaimTypes, boundVars

(* What the batcher claims has its intent in the same transaction.         *)
LEMMA RunBatchKeeps ==
    ASSUME ClaimInv, RunBatch
    PROVE  ClaimInv'
<1> DEFINE b == seq + 1
           souls == {call[e].soul : e \in Unclaimed}
<1>1. b \in Batches /\ seq' = b
  BY MeteringBounds DEF RunBatch, ClaimInv, ClaimTypes, Batches
<1>2. /\ UNCHANGED <<call, writing, settled, faults>> /\ events' = Usage
      /\ batch' = ClaimedBy(Unclaimed, b)
      /\ status' = [i \in Intents |-> IF i \in {b} \X souls THEN "pending" ELSE status[i]]
  BY DEF RunBatch, usageVars, chargeVars, boundVars
<1>3. Usage' = Usage /\ UsageInOrder'
  BY <1>2, SameUsage
<1>4. \A e \in Events :
        batch'[e] = IF e \in Unclaimed THEN b ELSE batch[e]
  BY <1>2 DEF ClaimedBy
<1>5. ClaimTypes'
  <2>1. batch' \in [Events -> Nat]
    BY <1>1, <1>2 DEF ClaimedBy, ClaimInv, ClaimTypes, Batches
  <2>2. status' \in [Intents -> {"absent", "pending", "adjudicated", "rejected"}]
    BY <1>2 DEF ClaimInv, ClaimTypes
  <2>3. QED
    BY <1>1, <1>2, <1>3, <2>1, <2>2 DEF ClaimInv, ClaimTypes, Batches
<1>6. ClaimsRecorded'
  BY <1>1, <1>2, <1>4 DEF ClaimInv, ClaimTypes, ClaimsRecorded, Unclaimed, Batches
<1>7. ASSUME faults < 2, NEW e \in Events, batch'[e] # 0, Unsettled(e)
      PROVE  status'[<<batch'[e], call[e].soul>>] = "pending"
  <2>1. e \in Usage /\ call[e].soul \in Souls
    BY <1>4, <1>7, UsageCalls DEF ClaimInv, ClaimTypes, ClaimsRecorded, Unclaimed
  <2>2. CASE e \in Unclaimed
    <3>1. batch'[e] = b /\ <<b, call[e].soul>> \in {b} \X souls
      BY <1>4, <2>2
    <3>2. <<b, call[e].soul>> \in Intents
      BY <1>1, <2>1 DEF Intents
    <3>3. QED
      BY <1>2, <3>1, <3>2
  <2>3. CASE e \notin Unclaimed
    <3>1. batch'[e] = batch[e] /\ <<batch[e], call[e].soul>> \in Intents
      BY <1>1, <1>4, <1>7, <2>1, <2>3, MeteringBounds
         DEF ClaimInv, ClaimTypes, ClaimsRecorded, Batches, Intents
    <3>2. status[<<batch[e], call[e].soul>>] = "pending"
      BY <1>7, <3>1 DEF ClaimInv, ClaimsInFlight
    <3>3. QED
      BY <1>2, <3>1, <3>2
  <2>4. QED
    BY <2>2, <2>3
<1>8. ClaimsInFlight'
  BY <1>2, <1>7 DEF ClaimsInFlight, Unsettled
<1>9. QED
  BY <1>3, <1>5, <1>6, <1>8 DEF ClaimInv

(* A settlement leaves no unsettled event in its batch.                    *)
LEMMA SettleKeeps ==
    ASSUME ClaimInv, NEW b \in Batches, NEW s \in Souls, Settle(b, s)
    PROVE  ClaimInv'
<1>1. /\ UNCHANGED <<call, writing, events, batch, seq, faults>>
      /\ settled' = [e \in Events |-> IF e \in OfBatch(b) THEN <<b, s>> ELSE settled[e]]
      /\ status' = [status EXCEPT ![<<b, s>>] = "adjudicated"]
  BY DEF Settle, usageVars, boundVars
<1>2. Usage' = Usage /\ UsageInOrder'
  BY <1>1, SameUsage
<1>3. <<b, s>> \in Intents
  BY DEF Intents
<1>4. ClaimTypes'
  BY <1>1, <1>2, <1>3 DEF ClaimInv, ClaimTypes
<1>5. ClaimsRecorded'
  BY <1>1 DEF ClaimInv, ClaimsRecorded
<1>6. ASSUME faults < 2, NEW e \in Events, batch[e] # 0, settled'[e] = NoIntent
      PROVE  status'[<<batch[e], call[e].soul>>] = "pending"
  <2>1. e \in events /\ e \notin OfBatch(b) /\ Unsettled(e)
    BY <1>1, <1>3, <1>6, NoIntentDistinct DEF ClaimInv, ClaimsRecorded, Unsettled
  <2>2. batch[e] # b
    BY <2>1 DEF OfBatch
  <2>3. status[<<batch[e], call[e].soul>>] = "pending"
    BY <1>6, <2>1 DEF ClaimInv, ClaimsInFlight
  <2>4. <<batch[e], call[e].soul>> # <<b, s>>
    BY <2>2
  <2>5. QED
    BY <1>1, <2>3, <2>4 DEF ClaimInv, ClaimTypes
<1>7. ClaimsInFlight'
  BY <1>1, <1>6 DEF ClaimsInFlight, Unsettled
<1>8. QED
  BY <1>2, <1>4, <1>5, <1>7 DEF ClaimInv

(* A compensated failure releases the claims of its batch, all of them.    *)
LEMMA CompensateKeeps ==
    ASSUME ClaimInv, NEW b \in Batches, NEW s \in Souls, Compensate(b, s)
    PROVE  ClaimInv'
<1>1. /\ UNCHANGED <<call, writing, events, settled, seq>>
      /\ faults' = faults + 1
      /\ batch' = ClaimedBy(OfBatch(b), 0)
      /\ status' = [status EXCEPT ![<<b, s>>] = "rejected"]
  BY DEF Compensate, usageVars, chargeVars
<1>2. Usage' = Usage /\ UsageInOrder'
  BY <1>1, SameUsage
<1>3. \A e \in Events : batch'[e] = IF e \in OfBatch(b) THEN 0 ELSE batch[e]
  BY <1>1 DEF ClaimedBy
<1>4. ClaimTypes'
  <2>1. batch' \in [Events -> Nat]
    BY <1>1 DEF ClaimedBy, ClaimInv, ClaimTypes
  <2>2. status' \in [Intents -> {"absent", "pending", "adjudicated", "rejected"}]
    BY <1>1 DEF ClaimInv, ClaimTypes
  <2>3. QED
    BY <1>1, <1>2, <2>1, <2>2 DEF ClaimInv, ClaimTypes
<1>5. ClaimsRecorded'
  BY <1>1, <1>3 DEF ClaimInv, ClaimsRecorded
<1>6. ASSUME faults + 1 < 2, NEW e \in Events, batch'[e] # 0, Unsettled(e)
      PROVE  status'[<<batch'[e], call[e].soul>>] = "pending"
  <2>1. batch'[e] = batch[e] /\ e \in events /\ e \notin OfBatch(b)
    BY <1>3, <1>6 DEF ClaimInv, ClaimsRecorded
  <2>2. batch[e] # b
    BY <1>6, <2>1 DEF OfBatch
  <2>3. status[<<batch[e], call[e].soul>>] = "pending"
    BY <1>6, <2>1 DEF ClaimInv, ClaimsInFlight, ClaimTypes
  <2>4. <<batch[e], call[e].soul>> # <<b, s>>
    BY <2>2
  <2>5. QED
    BY <1>1, <2>1, <2>3, <2>4 DEF ClaimInv, ClaimTypes
<1>7. ClaimsInFlight'
  BY <1>1, <1>6 DEF ClaimsInFlight, Unsettled
<1>8. QED
  BY <1>2, <1>4, <1>5, <1>7 DEF ClaimInv

(* After two failed writes nothing is claimed of claims.                   *)
LEMMA RejectUnreleasedKeeps ==
    ASSUME ClaimInv, NEW b \in Batches, NEW s \in Souls, RejectUnreleased(b, s)
    PROVE  ClaimInv'
<1>1. /\ UNCHANGED <<call, writing, events, settled, batch, seq>>
      /\ faults' = faults + 2
      /\ status' = [status EXCEPT ![<<b, s>>] = "rejected"]
  BY DEF RejectUnreleased, usageVars, chargeVars
<1>2. Usage' = Usage /\ UsageInOrder'
  BY <1>1, SameUsage
<1>3. ClaimTypes' /\ ClaimsRecorded'
  <2>1. status' \in [Intents -> {"absent", "pending", "adjudicated", "rejected"}]
    BY <1>1 DEF ClaimInv, ClaimTypes
  <2>2. QED
    BY <1>1, <1>2, <2>1 DEF ClaimInv, ClaimTypes, ClaimsRecorded
<1>4. ~(faults' < 2)
  BY <1>1 DEF ClaimInv, ClaimTypes
<1>5. QED
  BY <1>2, <1>3, <1>4 DEF ClaimInv, ClaimsInFlight

(* Every step keeps the claim invariant. *)
LEMMA ClaimStep ==
    ASSUME ClaimInv, [Next]_vars
    PROVE  ClaimInv'
<1>1. ASSUME NEW e \in Events, NEW c \in UsageRows, RecordUsage(e, c) \/ Quip(e, c)
      PROVE  ClaimInv'
  BY <1>1, RecordingKeeps
<1>2. ASSUME \/ RecordAny \/ Abandon \/ Restart \/ Backfill \/ LoopEnds
             \/ \E r \in Rates : SetPricing(r)
             \/ UNCHANGED vars
      PROVE  ClaimInv'
  <2>1. /\ UNCHANGED <<call, claimVars, settled>>
        /\ faults' \in Nat /\ faults' >= faults
        /\ events \subseteq events' /\ events' \subseteq Usage
        /\ writing' \subseteq Usage
    BY <1>2 DEF RecordAny, RecordEvent, Abandon, Restart, Backfill, LoopEnds, SetPricing,
                vars, usageVars, chargeVars, boundVars, ClaimInv, ClaimTypes
  <2>2. QED
    BY <2>1, SameUsage, SameClaims DEF ClaimInv, ClaimTypes
<1>3. ASSUME SettleAny PROVE ClaimInv'
  BY <1>3, SettleKeeps DEF SettleAny
<1>4. ASSUME NEW b \in Batches, NEW s \in Souls,
             Compensate(b, s) \/ RejectUnreleased(b, s)
      PROVE  ClaimInv'
  BY <1>4, CompensateKeeps, RejectUnreleasedKeeps
<1>5. QED
  BY <1>1, <1>2, <1>3, <1>4, RunBatchKeeps DEF Next, UsageRows

(* Every reachable state satisfies the claim invariant. *)
LEMMA ClaimInvariant == Spec => []ClaimInv
BY ClaimInit, ClaimStep, PTL DEF Spec

(* While an event is claimed and unsettled, the debit intent of its own    *)
(* soul in its batch is pending, unless two writes have failed             *)
(* (agents/metering.py:336).                                               *)
THEOREM ClaimsHaveIntents == Spec => []ClaimsInFlight
<1>1. ClaimInv => ClaimsInFlight
  BY DEF ClaimInv
<1>2. QED
  BY <1>1, ClaimInvariant, PTL

-----------------------------------------------------------------------------
(* No step changes the charge of a usage row that is settled. *)
LEMMA SettledStays ==
    ASSUME [Next]_vars, NEW e \in Events, ~Unsettled(e)
    PROVE  /\ settled'[e] = settled[e]
           /\ charged'[e] = charged[e]
           /\ shortfall'[e] = shortfall[e]
<1>1. ASSUME NEW b \in Batches, NEW s \in Souls, Settle(b, s)
      PROVE  /\ settled'[e] = settled[e] /\ charged'[e] = charged[e]
             /\ shortfall'[e] = shortfall[e]
  <2>1. e \notin OfBatch(b)
    BY DEF OfBatch
  <2>2. QED
    BY <1>1, <2>1 DEF Settle
<1>2. CASE UNCHANGED <<settled, charged, shortfall>>
  BY <1>2
<1>3. QED
  BY <1>1, <1>2 DEF Next, vars, RecordUsage, Quip, RecordAny, RecordEvent, Abandon,
                    Restart, Backfill, RunBatch, LoopEnds, SettleAny, Compensate,
                    RejectUnreleased, SetPricing, chargeVars

(* A settled event keeps its charge, its shortfall and its intent through  *)
(* later batches, failures and new prices (agents/metering.py:497).        *)
THEOREM ChargesFinal == Spec => ChargeFinal
<1>1. [Next]_vars =>
        [\A e \in Events :
            ~Unsettled(e) =>
               /\ settled'[e] = settled[e]
               /\ charged'[e] = charged[e]
               /\ shortfall'[e] = shortfall[e]]_vars
  BY SettledStays
<1>2. QED
  BY <1>1, PTL DEF Spec, ChargeFinal

-----------------------------------------------------------------------------
(* Charging one after the other.  The rows of E are taken in the order of  *)
(* their numbers, and each pays what it costs or what is left of w.        *)
Upto(E, n) == {d \in E : d <= n}
Before(E, e) == {d \in E : d < e}

(* Numbered rows, in an order of their own.                                *)
Rows(N, E) == IsFiniteSet(E) /\ \A d \in E : d \in Int /\ 1 <= d /\ d <= N

InTurn(cost, h, w, E) ==
    \A e \in E :
        LET due == Total(cost, Before(E, e)) IN
        h[e] = Lesser(cost[e], IF due < w THEN w - due ELSE 0)

(* How the rows up to and before the n-th are made, one row after the other. *)
LEMMA PrefixesAre ==
    ASSUME NEW N \in Nat, NEW E, Rows(N, E)
    PROVE  /\ Upto(E, 0) = {} /\ Upto(E, N) = E
           /\ \A n \in 1..N : n \notin E => Upto(E, n) = Upto(E, n - 1)
           /\ \A n \in E : /\ n \in Upto(E, n) /\ Upto(E, n) \ {n} = Before(E, n)
                          /\ Before(E, n) = Upto(E, n - 1)
           /\ \A n : Upto(E, n) \in SUBSET E /\ Before(E, n) \in SUBSET E
           /\ \A n : IsFiniteSet(Upto(E, n))
<1>1. \A d \in E : d \in Int /\ 1 <= d /\ d <= N
  BY DEF Rows
<1>2. ASSUME NEW n \in 1..N, n \notin E PROVE Upto(E, n) = Upto(E, n - 1)
  <2>1. \A d \in E : d <= n <=> d <= n - 1
    BY <1>1, <1>2
  <2>2. QED
    BY <2>1 DEF Upto
<1>3. ASSUME NEW n \in E
      PROVE  /\ n \in Upto(E, n) /\ Upto(E, n) \ {n} = Before(E, n)
             /\ Before(E, n) = Upto(E, n - 1)
  BY <1>1 DEF Upto, Before
<1>4. Upto(E, 0) = {} /\ Upto(E, N) = E
  BY <1>1 DEF Upto
<1>5. \A n : Upto(E, n) \in SUBSET E /\ Before(E, n) \in SUBSET E
  BY DEF Upto, Before
<1>6. \A n : IsFiniteSet(Upto(E, n))
  BY <1>5, FS_Subset DEF Rows
<1>7. QED
  BY <1>2, <1>3, <1>4, <1>5, <1>6

(* Rows charged in turn are charged natural numbers, none above its cost. *)
LEMMA InTurnNats ==
    ASSUME NEW cost, NEW h, NEW w \in Nat, NEW N \in Nat, NEW E, Rows(N, E),
           Nats(cost, E), InTurn(cost, h, w, E)
    PROVE  /\ IsFiniteSet(E)
           /\ Nats(h, E)
           /\ \A e \in E : h[e] <= cost[e]
           /\ \A T \in SUBSET E : /\ Total(cost, T) \in Nat /\ Total(h, T) \in Nat
                                  /\ Total(cost, T) <= Total(cost, E)
<1>1. IsFiniteSet(E)
  BY DEF Rows
<1>2. \A T \in SUBSET E : Total(cost, T) \in Nat /\ Total(cost, T) <= Total(cost, E)
  BY <1>1, TotalMonotone
<1>3. \A e \in E : Before(E, e) \in SUBSET E
  BY DEF Before
<1>4. Nats(h, E) /\ \A e \in E : h[e] <= cost[e]
  BY <1>2, <1>3 DEF InTurn, Nats, Lesser
<1>5. \A T \in SUBSET E : Total(h, T) \in Nat
  BY <1>1, <1>4, TotalMonotone
<1>6. QED
  BY <1>1, <1>2, <1>4, <1>5

(* However the prices fall, what has been paid up to any row is what was   *)
(* due, or the whole of w.                                                 *)
LEMMA PaidUpto ==
    ASSUME NEW cost, NEW h, NEW w \in Nat, NEW N \in Nat, NEW E, Rows(N, E),
           Nats(cost, E), InTurn(cost, h, w, E)
    PROVE  \A n \in 0..N :
               Total(h, Upto(E, n)) = Lesser(Total(cost, Upto(E, n)), w)
<1> DEFINE C == {n \in 0..N : Total(h, Upto(E, n)) # Lesser(Total(cost, Upto(E, n)), w)}
<1> SUFFICES ASSUME C # {} PROVE FALSE
  OBVIOUS
<1>1. PICK n \in C : \A m \in C : n <= m
  <2>1. C \subseteq Nat
    OBVIOUS
  <2> HIDE DEF C
  <2>2. QED
    BY <2>1, Least
<1>2. /\ IsFiniteSet(E) /\ Nats(h, E)
      /\ \A T \in SUBSET E : Total(cost, T) \in Nat /\ Total(h, T) \in Nat
  BY InTurnNats
<1> HIDE DEF C
<1>3. n # 0
  <2>1. Upto(E, 0) = {}
    BY PrefixesAre
  <2>2. Total(h, {}) = 0 /\ Total(cost, {}) = 0
    BY TotalEmpty
  <2>3. QED
    BY <1>1, <2>1, <2>2 DEF C, Lesser
<1>4. n \in 1..N /\ n - 1 \in 0..N
  BY <1>1, <1>3 DEF C
<1>5. Total(h, Upto(E, n - 1)) = Lesser(Total(cost, Upto(E, n - 1)), w)
  BY <1>1, <1>4 DEF C
<1>6. n \in E
  <2>1. ASSUME n \notin E PROVE Upto(E, n) = Upto(E, n - 1)
    BY <1>4, <2>1, PrefixesAre
  <2>2. QED
    BY <1>1, <1>5, <2>1 DEF C
<1> DEFINE V == Upto(E, n)
           P == Upto(E, n - 1)
<1>7. /\ n \in V /\ V \ {n} = P /\ P = Before(E, n)
      /\ V \in SUBSET E /\ P \in SUBSET E
  BY <1>6, PrefixesAre
<1> HIDE DEF V, P
<1>8. IsFiniteSet(V) /\ Ints(h, V) /\ Ints(cost, V)
  BY <1>2, <1>7, FS_Subset DEF Ints, Nats
<1>9. h[n] = Lesser(cost[n], IF Total(cost, P) < w THEN w - Total(cost, P) ELSE 0)
  BY <1>6, <1>7 DEF InTurn
<1>10. Total(h, V) = h[n] + Total(h, P) /\ Total(cost, V) = cost[n] + Total(cost, P)
  BY <1>7, <1>8, TotalTake
<1>11. cost[n] \in Nat /\ Total(cost, P) \in Nat
  BY <1>2, <1>6, <1>7 DEF Nats
<1>12. Total(h, P) = Lesser(Total(cost, P), w)
  BY <1>5 DEF P
<1>13. Total(h, V) = Lesser(Total(cost, V), w)
  BY <1>9, <1>10, <1>11, <1>12 DEF Lesser
<1>14. QED
  BY <1>1, <1>13 DEF V, C

(* So the whole of E takes no more than w, and a row that is let off is    *)
(* let off because nothing is left.                                        *)
LEMMA PaidInAll ==
    ASSUME NEW cost, NEW h, NEW w \in Nat, NEW N \in Nat, NEW E, Rows(N, E),
           Nats(cost, E), InTurn(cost, h, w, E)
    PROVE  /\ Total(h, E) \in Nat /\ Total(h, E) <= w
           /\ \A e \in E : h[e] < cost[e] => Total(h, E) = w
<1>1. Upto(E, N) = E /\ N \in 0..N
  BY PrefixesAre
<1>2. Total(h, E) = Lesser(Total(cost, E), w)
  <2>1. Total(h, Upto(E, N)) = Lesser(Total(cost, Upto(E, N)), w)
    BY <1>1, PaidUpto
  <2>2. QED
    BY <1>1, <2>1
<1>3. /\ IsFiniteSet(E)
      /\ \A T \in SUBSET E : /\ Total(cost, T) \in Nat
                             /\ Total(cost, T) <= Total(cost, E)
      /\ Total(h, E) \in Nat
  BY InTurnNats
<1>4. ASSUME NEW e \in E, h[e] < cost[e] PROVE Total(h, E) = w
  <2> DEFINE V == Upto(E, e)
             P == Before(E, e)
  <2>1. e \in V /\ V \ {e} = P /\ V \in SUBSET E /\ P \in SUBSET E
    BY PrefixesAre
  <2> HIDE DEF V, P
  <2>2. IsFiniteSet(V) /\ Ints(cost, V)
    BY <1>3, <2>1, FS_Subset DEF Ints, Nats
  <2>3. h[e] = Lesser(cost[e], IF Total(cost, P) < w THEN w - Total(cost, P) ELSE 0)
    BY DEF InTurn, P
  <2>4. Total(cost, V) = cost[e] + Total(cost, P)
    BY <2>1, <2>2, TotalTake
  <2>5. cost[e] \in Nat /\ Total(cost, P) \in Nat /\ Total(cost, V) \in Nat
        /\ Total(cost, V) <= Total(cost, E) /\ Total(cost, E) \in Nat
    BY <1>3, <2>1 DEF Nats
  <2>6. Total(cost, V) >= w
    BY <1>4, <2>3, <2>4, <2>5 DEF Lesser
  <2>7. QED
    BY <1>2, <2>5, <2>6 DEF Lesser
<1>5. Total(h, E) <= w
  BY <1>2, <1>3 DEF Lesser
<1>6. QED
  BY <1>3, <1>4, <1>5

-----------------------------------------------------------------------------
(* The inductive invariant of the charges: claims are as above, what is    *)
(* not settled has not been charged, and the accounts add up.              *)
ChargeTypes ==
    /\ quips \subseteq Usage
    /\ traced \subseteq events
    /\ charged \in [Events -> Nat]
    /\ shortfall \in [Events -> Nat]
    /\ rate \in Rates
    /\ ticking \in BOOLEAN
    /\ essence \in [Souls -> Int]
    /\ pricings \in Nat /\ crashes \in Nat

UnsettledFree == \A e \in Events : Unsettled(e) => charged[e] = 0

ChargeInv == ClaimInv /\ ChargeTypes /\ UnsettledFree /\ ChargesAccounted

(* The usage rows are finitely many and numbered. *)
LEMMA EventsFinite ==
    IsFiniteSet(Events) /\ Rows(MaxUsage, Events) /\ MaxUsage \in Nat
<1>1. IsFiniteSet(Events)
  BY MeteringBounds, FS_Interval DEF Events
<1>2. QED
  BY <1>1, MeteringBounds DEF Rows, Events

(* The events of a batch are numbered rows with prices, each charged in    *)
(* its turn.                                                               *)
LEMMA BatchInTurn ==
    ASSUME ClaimInv, ChargeTypes, NEW b \in Batches, NEW s \in Souls
    PROVE  LET E == OfBatch(b) IN
           /\ Rows(MaxUsage, E) /\ E \subseteq Events
           /\ Nats(Costs, E) /\ \A e \in E : Costs[e] = Cost(e) /\ Unsettled(e)
           /\ InTurn(Costs, Charges(s, E), essence[s], E)
<1> DEFINE E == OfBatch(b)
<1>1. E \subseteq Usage /\ E \subseteq Events /\ \A e \in E : Unsettled(e)
  BY DEF ClaimInv, ClaimTypes, OfBatch, Usage
<1>2. Rows(MaxUsage, E)
  BY <1>1, EventsFinite, FS_Subset DEF Rows
<1>3. \A e \in E : Costs[e] = Cost(e)
  BY <1>1 DEF Costs
<1>4. Nats(Costs, E)
  <2>1. ASSUME NEW e \in E PROVE call[e].tokens * rate \in Nat
    <3>1. call[e] \in UsageRows
      BY <1>1, UsageCalls DEF ClaimInv
    <3>2. call[e].tokens \in Nat /\ rate \in Nat
      BY <3>1, RowParts, RatesTyped DEF ChargeTypes
    <3>3. QED
      BY <3>2
  <2>2. QED
    BY <1>3, <2>1 DEF Nats, Cost
<1> HIDE DEF E
<1>5. InTurn(Costs, Charges(s, E), essence[s], E)
  BY <1>3 DEF InTurn, Charges, Charge, Left, Before
<1>6. QED
  BY <1>1, <1>2, <1>3, <1>4, <1>5 DEF E

(* A settlement takes from the wallet what it charges to the events, and   *)
(* no more than is there; an event that is let off left nothing there.     *)
LEMMA BatchPaid ==
    ASSUME ChargeInv, NEW b \in Batches, NEW s \in Souls
    PROVE  LET E == OfBatch(b)
               h == Charges(s, E) IN
           /\ IsFiniteSet(E) /\ Nats(h, E)
           /\ Total(h, E) \in Nat /\ Total(h, E) <= essence[s]
           /\ \A e \in E : h[e] <= Cost(e) /\ Cost(e) \in Nat
                           /\ (h[e] < Cost(e) => Total(h, E) = essence[s])
<1> DEFINE E == OfBatch(b)
           h == Charges(s, E)
<1>1. /\ Rows(MaxUsage, E) /\ Nats(Costs, E)
      /\ \A e \in E : Costs[e] = Cost(e)
      /\ InTurn(Costs, h, essence[s], E)
  BY BatchInTurn DEF ChargeInv
<1>2. essence[s] \in Nat /\ MaxUsage \in Nat
  BY EventsFinite DEF ChargeInv, ChargeTypes, ChargesAccounted
<1> HIDE DEF E, h
<1>3. IsFiniteSet(E) /\ Nats(h, E) /\ \A e \in E : h[e] <= Costs[e]
  BY <1>1, <1>2, InTurnNats
<1>4. /\ Total(h, E) \in Nat /\ Total(h, E) <= essence[s]
      /\ \A e \in E : h[e] < Costs[e] => Total(h, E) = essence[s]
  BY <1>1, <1>2, PaidInAll
<1>5. \A e \in E : Cost(e) \in Nat
  BY <1>1 DEF Nats
<1>6. QED
  BY <1>1, <1>3, <1>4, <1>5 DEF E, h

(* What a settlement adds to the account of its soul and of the fund.      *)
LEMMA SettlePosts ==
    ASSUME ChargeInv, NEW b \in Batches, NEW s \in Souls, Settle(b, s)
    PROVE  LET E == OfBatch(b)
               debited == Total(Charges(s, E), E) IN
           /\ charged' \in [Events -> Nat] /\ shortfall' \in [Events -> Nat]
           /\ UnsettledFree'
           /\ Total(charged', Events) = Total(charged, Events) + debited
           /\ \A t \in Souls :
                 Total(charged', SettledAgainst(t)') =
                   Total(charged, SettledAgainst(t)) + (IF t = s THEN debited ELSE 0)
<1> DEFINE E == OfBatch(b)
           h == Charges(s, E)
           new(e) == charged'[e]
<1>1. /\ E \subseteq Events /\ IsFiniteSet(E) /\ Nats(h, E)
      /\ \A e \in E : h[e] <= Cost(e) /\ Cost(e) \in Nat /\ Unsettled(e)
      /\ <<b, s>> \in Intents
  BY BatchInTurn, BatchPaid DEF ChargeInv, Intents
<1>2. /\ settled' = [e \in Events |-> IF e \in E THEN <<b, s>> ELSE settled[e]]
      /\ charged' = [e \in Events |-> IF e \in E THEN h[e] ELSE charged[e]]
      /\ shortfall' = [e \in Events |-> IF e \in E THEN Cost(e) - h[e] ELSE shortfall[e]]
  BY DEF Settle
<1>3. /\ charged \in [Events -> Nat] /\ shortfall \in [Events -> Nat]
      /\ settled \in [Events -> Intents \cup {NoIntent}]
  BY DEF ChargeInv, ChargeTypes, ClaimInv, ClaimTypes
<1> HIDE DEF E, h
<1>4. charged' \in [Events -> Nat] /\ shortfall' \in [Events -> Nat]
  <2>1. \A e \in E : h[e] \in Nat /\ Cost(e) - h[e] \in Nat
    BY <1>1 DEF Nats
  <2>2. \A e \in Events : charged[e] \in Nat /\ shortfall[e] \in Nat
    BY <1>3
  <2>3. QED
    BY <1>2, <2>1, <2>2
<1>5. /\ \A e \in Events \ E : charged'[e] = charged[e] /\ settled'[e] = settled[e]
      /\ \A e \in E : charged'[e] = h[e] /\ charged[e] = 0 /\ settled'[e] = <<b, s>>
  BY <1>1, <1>2 DEF ChargeInv, UnsettledFree
<1>6. UnsettledFree'
  BY <1>1, <1>5, NoIntentDistinct DEF ChargeInv, UnsettledFree, Unsettled
<1>7. IsFiniteSet(Events)
  BY EventsFinite
<1>8. Ints(charged, Events) /\ Ints(charged', Events)
  BY <1>3, <1>4 DEF Ints
<1>9. Total(charged', E) = Total(h, E) /\ Total(charged, E) = 0
  BY <1>1, <1>5, TotalSame, TotalZero
<1>10. Total(charged', Events) = Total(charged, Events) + Total(h, E)
  <2>1. /\ Total(charged', Events)
           = Total(charged, Events) - Total(charged, E) + Total(charged', E)
        /\ Total(charged, Events) \in Int /\ Total(charged', E) \in Int
    BY <1>1, <1>5, <1>7, <1>8, TotalReplaced
  <2>2. QED
    BY <1>9, <2>1
<1>11. ASSUME NEW t \in Souls
       PROVE  Total(charged', SettledAgainst(t)') =
                Total(charged, SettledAgainst(t)) + (IF t = s THEN Total(h, E) ELSE 0)
  <2> DEFINE A == SettledAgainst(t)
  <2>1. A \subseteq Events /\ A \cap E = {} /\ IsFiniteSet(A)
    BY <1>1, <1>7, FS_Subset DEF SettledAgainst
  <2>2. SettledAgainst(t)' = IF t = s THEN A \cup E ELSE A
    BY <1>1, <1>5, NoIntentDistinct DEF SettledAgainst, Unsettled
  <2>3. \A e \in A : charged'[e] = charged[e]
    BY <1>5, <2>1
  <2> HIDE DEF A
  <2>4. Total(charged', A) = Total(charged, A) /\ Total(charged, A) \in Int
    BY <1>7, <1>8, <2>1, <2>3, TotalSame, TotalInt
  <2>5. Total(charged', A \cup E) = Total(charged', A) + Total(charged', E)
    BY <1>1, <1>7, <1>8, <2>1, TotalDisjoint
  <2>6. QED
    BY <1>9, <2>2, <2>4, <2>5 DEF A
<1>12. QED
  BY <1>4, <1>6, <1>10, <1>11 DEF E, h

(* Settling a batch keeps the books of the charges: each row is charged or
   let off, and the wallet pays the sum. *)
LEMMA SettleAccounts ==
    ASSUME ChargeInv, NEW b \in Batches, NEW s \in Souls, Settle(b, s)
    PROVE  ChargeInv'
<1> DEFINE debited == Total(Charges(s, OfBatch(b)), OfBatch(b))
<1>1. debited \in Nat /\ debited <= essence[s]
  BY BatchPaid
<1>2. /\ essence' = [essence EXCEPT ![s] = @ - debited] /\ fund' = fund + debited
      /\ UNCHANGED <<call, writing, quips, events, traced, rate, ticking, pricings,
                     crashes>>
  BY DEF Settle, usageVars, boundVars
<1>3. /\ charged' \in [Events -> Nat] /\ shortfall' \in [Events -> Nat]
      /\ UnsettledFree'
      /\ Total(charged', Events) = Total(charged, Events) + debited
      /\ \A t \in Souls :
            Total(charged', SettledAgainst(t)') =
              Total(charged, SettledAgainst(t)) + (IF t = s THEN debited ELSE 0)
  BY SettlePosts
<1> HIDE DEF debited
<1>4. ClaimInv'
  BY SettleKeeps DEF ChargeInv
<1>5. essence \in [Souls -> Int]
  BY DEF ChargeInv, ChargeTypes
<1>6. \A t \in Souls : essence'[t] = essence[t] - (IF t = s THEN debited ELSE 0)
  BY <1>1, <1>2, <1>5
<1>7. ChargeTypes'
  <2>1. Usage' = Usage
    BY <1>2 DEF Usage
  <2>2. essence' \in [Souls -> Int]
    BY <1>1, <1>2, <1>5
  <2>3. QED
    BY <1>2, <1>3, <2>1, <2>2 DEF ChargeInv, ChargeTypes
<1>8. ASSUME NEW t \in Souls
      PROVE  /\ essence'[t] >= 0
             /\ StartEssence[t] - essence'[t] =
                  QuipPrice * Cardinality(QuipsOf(t)') + Total(charged', SettledAgainst(t)')
  <2> DEFINE spent == QuipPrice * Cardinality(QuipsOf(t))
             settledSum == Total(charged, SettledAgainst(t))
             part == IF t = s THEN debited ELSE 0
  <2>1. QuipsOf(t)' = QuipsOf(t)
    BY <1>2 DEF QuipsOf
  <2>2. essence[t] >= 0 /\ StartEssence[t] - essence[t] = spent + settledSum
    BY DEF ChargeInv, ChargesAccounted
  <2>3. StartEssence[t] \in Int /\ essence[t] \in Int /\ spent \in Int /\ settledSum \in Int
    <3>1. IsFiniteSet(QuipsOf(t))
      <4>1. QuipsOf(t) \subseteq Events
        BY DEF ChargeInv, ChargeTypes, QuipsOf, Usage
      <4>2. QED
        BY <4>1, EventsFinite, FS_Subset
    <3>2. Cardinality(QuipsOf(t)) \in Nat
      BY <3>1, FS_CardinalityType
    <3>3. SettledAgainst(t) \subseteq Events /\ Ints(charged, Events)
      BY DEF SettledAgainst, Ints, ChargeInv, ChargeTypes
    <3>4. settledSum \in Int
      BY <3>3, EventsFinite, TotalInt
    <3>5. spent \in Int
      BY <3>2, QuipPriceNat
    <3>6. QED
      BY <1>5, <3>4, <3>5, WalletsTyped
  <2>4. essence'[t] = essence[t] - part /\ part \in Nat /\ part <= essence[t]
    BY <1>1, <1>5, <1>6, <2>2
  <2>5. Total(charged', SettledAgainst(t)') = settledSum + part
    BY <1>3
  <2>6. QuipPrice * Cardinality(QuipsOf(t)') = spent
    BY <2>1
  <2> HIDE DEF spent, settledSum, part
  <2>7. QED
    BY <2>2, <2>3, <2>4, <2>5, <2>6
<1>9. ChargesAccounted'
  BY <1>2, <1>3, <1>8 DEF ChargeInv, ChargesAccounted
<1>10. QED
  BY <1>3, <1>4, <1>7, <1>9 DEF ChargeInv

(* A quip is paid for on the spot, by a row nobody has yet.                *)
LEMMA QuipAccounts ==
    ASSUME ChargeInv, NEW e \in Events, NEW c \in Calls, Quip(e, c)
    PROVE  ChargeInv'
<1>0. /\ quips \subseteq Usage /\ essence \in [Souls -> Int] /\ c.soul \in Souls
      /\ Usage \subseteq Events
  BY CallsTyped DEF ChargeInv, ChargeTypes, Usage
<1> c \in UsageRows
  BY DEF UsageRows
<1>1. /\ NewRow(e, c)
      /\ essence[c.soul] >= QuipPrice
      /\ essence' = [essence EXCEPT ![c.soul] = @ - QuipPrice]
      /\ quips' = quips \cup {e}
      /\ UNCHANGED <<writing, events, traced, claimVars, settled, charged, shortfall,
                     fund, rate, ticking, boundVars>>
  BY DEF Quip
<1>2. ClaimInv'
  BY RecordingKeeps DEF ChargeInv
<1>3. /\ call' \in [Events -> UsageRows \cup {NoCall}]
      /\ \A d \in Usage : call'[d] = call[d]
      /\ Usage' = Usage \cup {e}
  BY <1>1, NewRowKeeps DEF ChargeInv, ClaimInv
<1>4. e \notin Usage /\ call'[e] = c
  <2>1. PICK n \in 0..MaxUsage : Usage = 1..n
    BY DEF ChargeInv, ClaimInv, UsageInOrder
  <2>2. e = n + 1
    <3>1. Cardinality(Usage) = n
      BY <2>1, MeteringBounds, FS_Interval
    <3>2. QED
      BY <1>1, <3>1 DEF NewRow
  <2>3. QED
    BY <1>1, <2>1, <2>2 DEF NewRow, ChargeInv, ClaimInv, ClaimTypes
<1>5. ChargeTypes'
  <2>1. essence' \in [Souls -> Int]
    BY <1>0, <1>1, QuipPriceNat
  <2>2. quips' \subseteq Usage'
    BY <1>0, <1>1, <1>3
  <2>3. QED
    BY <1>1, <2>1, <2>2 DEF ChargeInv, ChargeTypes, boundVars
<1>6. UnsettledFree'
  BY <1>1 DEF ChargeInv, UnsettledFree, Unsettled
<1>7. ASSUME NEW t \in Souls
      PROVE  /\ essence'[t] >= 0
             /\ StartEssence[t] - essence'[t] =
                  QuipPrice * Cardinality(QuipsOf(t)') + Total(charged', SettledAgainst(t)')
  <2> DEFINE n == Cardinality(QuipsOf(t))
             settledSum == Total(charged, SettledAgainst(t))
  <2>1. SettledAgainst(t)' = SettledAgainst(t) /\ charged' = charged
    BY <1>1 DEF SettledAgainst, Unsettled
  <2>2. essence[t] >= 0 /\ StartEssence[t] - essence[t] = QuipPrice * n + settledSum
    BY DEF ChargeInv, ChargesAccounted
  <2>3. IsFiniteSet(QuipsOf(t)) /\ e \notin QuipsOf(t)
    <3>1. QuipsOf(t) \subseteq Events
      BY <1>0 DEF QuipsOf
    <3>2. QED
      BY <1>0, <1>4, <3>1, EventsFinite, FS_Subset DEF QuipsOf
  <2>4. settledSum \in Int
    <3>1. SettledAgainst(t) \subseteq Events /\ Ints(charged, Events)
      BY DEF SettledAgainst, Ints, ChargeInv, ChargeTypes
    <3>2. QED
      BY <3>1, EventsFinite, TotalInt
  <2>5. QuipsOf(t)' = IF t = c.soul THEN QuipsOf(t) \cup {e} ELSE QuipsOf(t)
    BY <1>0, <1>1, <1>3, <1>4 DEF QuipsOf
  <2>6. n \in Nat /\ Cardinality(QuipsOf(t) \cup {e}) = n + 1
    BY <2>3, FS_CardinalityType, FS_AddElement
  <2>7. QuipPrice * (n + 1) = QuipPrice * n + QuipPrice /\ QuipPrice * n \in Int
    BY <2>6, QuipPriceNat
  <2>8. essence'[t] = IF t = c.soul THEN essence[t] - QuipPrice ELSE essence[t]
    BY <1>0, <1>1
  <2>9. QuipPrice * Cardinality(QuipsOf(t)') =
          QuipPrice * n + (IF t = c.soul THEN QuipPrice ELSE 0)
    BY <2>5, <2>6, <2>7
  <2>10. StartEssence[t] \in Int /\ essence[t] \in Int /\ QuipPrice \in Int
    BY <1>0, WalletsTyped, QuipPriceNat
  <2>11. Total(charged', SettledAgainst(t)') = settledSum
    BY <2>1
  <2> DEFINE paid == QuipPrice * n
  <2>12. paid \in Int
    BY <2>7
  <2> HIDE DEF n, settledSum, paid
  <2>13. QED
    BY <1>1, <2>2, <2>4, <2>8, <2>9, <2>10, <2>11, <2>12 DEF paid
<1>8. ChargesAccounted'
  BY <1>1, <1>7 DEF ChargeInv, ChargesAccounted
<1>9. QED
  BY <1>2, <1>5, <1>6, <1>8 DEF ChargeInv

(* A step that moves no essence and records no quip.                       *)
LEMMA SameAccounts ==
    ASSUME ChargeInv, ClaimInv', UNCHANGED <<quips, chargeVars>>,
           \A e \in Usage : call'[e] = call[e], Usage \subseteq Usage',
           traced' \subseteq events', rate' \in Rates, ticking' \in BOOLEAN,
           pricings' \in Nat, crashes' \in Nat
    PROVE  ChargeInv'
<1> USE DEF chargeVars
<1>1. ChargeTypes'
  BY DEF ChargeInv, ChargeTypes
<1>2. UnsettledFree'
  BY DEF ChargeInv, UnsettledFree, Unsettled
<1>3. \A t \in Souls : QuipsOf(t)' = QuipsOf(t) /\ SettledAgainst(t)' = SettledAgainst(t)
  BY DEF ChargeInv, ChargeTypes, QuipsOf, SettledAgainst, Unsettled
<1>4. ChargesAccounted'
  BY <1>3 DEF ChargeInv, ChargesAccounted
<1>5. QED
  BY <1>1, <1>2, <1>4 DEF ChargeInv

(* Every step keeps the books of the charges. *)
LEMMA ChargeStep ==
    ASSUME ChargeInv, [Next]_vars
    PROVE  ChargeInv'
<1>1. ClaimInv'
  BY ClaimStep DEF ChargeInv
<1>2. ASSUME NEW e \in Events, NEW row \in UsageRows, RecordUsage(e, row)
      PROVE  ChargeInv'
  <2>1. /\ \A d \in Usage : call'[d] = call[d]
        /\ Usage' = Usage \cup {e}
    BY <1>2, NewRowKeeps DEF RecordUsage, ChargeInv, ClaimInv
  <2>2. UNCHANGED <<quips, events, traced, chargeVars, rate, ticking, pricings,
                    crashes>>
    BY <1>2 DEF RecordUsage, boundVars
  <2>3. QED
    BY <1>1, <2>1, <2>2, SameAccounts DEF ChargeInv, ChargeTypes
<1>3. ASSUME \/ RecordAny \/ Abandon \/ Restart \/ Backfill \/ RunBatch \/ LoopEnds
             \/ \E b \in Batches, s \in Souls : Compensate(b, s) \/ RejectUnreleased(b, s)
             \/ \E r \in Rates : SetPricing(r)
             \/ UNCHANGED vars
      PROVE  ChargeInv'
  <2>1. /\ traced \subseteq events /\ rate \in Rates /\ pricings \in Nat /\ crashes \in Nat
        /\ events \subseteq Usage /\ ticking \in BOOLEAN
    BY DEF ChargeInv, ChargeTypes, ClaimInv, ClaimTypes
  <2>2. UNCHANGED <<call, quips, chargeVars>>
    BY <1>3 DEF RecordAny, RecordEvent, Abandon, Restart, Backfill, RunBatch, LoopEnds,
                Compensate, RejectUnreleased, SetPricing, vars, usageVars, claimVars
  <2>3. traced' \subseteq events'
    BY <1>3, <2>1 DEF RecordAny, RecordEvent, Abandon, Restart, Backfill, RunBatch, LoopEnds,
                Compensate, RejectUnreleased, SetPricing, vars, usageVars, claimVars
  <2>4. rate' \in Rates /\ pricings' \in Nat /\ crashes' \in Nat
    <3>1. ASSUME NEW r \in Rates, SetPricing(r)
          PROVE  rate' \in Rates /\ pricings' \in Nat /\ crashes' \in Nat
      BY <2>1, <3>1 DEF SetPricing
    <3>2. CASE Abandon \/ Restart
      BY <2>1, <3>2 DEF Abandon, Restart
    <3>3. CASE UNCHANGED <<rate, pricings, crashes>>
      BY <2>1, <3>3
    <3>4. QED
      BY <1>3, <3>1, <3>2, <3>3
         DEF RecordAny, RecordEvent, Backfill, RunBatch, LoopEnds, Compensate,
             RejectUnreleased, vars, boundVars
  <2>5. ticking' \in BOOLEAN
    BY <1>3, <2>1, Zenon
       DEF RecordAny, RecordEvent, Abandon, Restart, Backfill, RunBatch, LoopEnds,
           Compensate, RejectUnreleased, SetPricing, vars
  <2>6. Usage' = Usage
    BY <2>2 DEF Usage
  <2>7. QED
    BY <1>1, <2>2, <2>3, <2>4, <2>5, <2>6, SameAccounts
<1>4. QED
  BY <1>2, <1>3, QuipAccounts, SettleAccounts DEF Next, SettleAny

(* The books of the charges start empty. *)
LEMMA ChargeInit == Init => ChargeInv
<1> SUFFICES ASSUME Init PROVE ChargeInv
  OBVIOUS
<1>1. ClaimInv
  BY ClaimInit
<1>2. /\ charged \in [Events -> Nat] /\ shortfall \in [Events -> Nat]
      /\ \A e \in Events : charged[e] = 0 /\ Unsettled(e)
  BY DEF Init, Unsettled
<1>3. ChargeTypes /\ UnsettledFree
  BY <1>2, WalletsTyped DEF Init, ChargeTypes, UnsettledFree
<1>4. Total(charged, Events) = 0
  BY <1>2, EventsFinite, TotalZero
<1>5. \A s \in Souls : Cardinality(QuipsOf(s)) = 0 /\ Total(charged, SettledAgainst(s)) = 0
  <2>1. ASSUME NEW s \in Souls PROVE QuipsOf(s) = {} /\ SettledAgainst(s) = {}
    BY <1>2 DEF Init, QuipsOf, SettledAgainst
  <2>2. QED
    BY <2>1, FS_EmptySet, TotalEmpty
<1>6. ASSUME NEW s \in Souls
      PROVE  /\ essence[s] >= 0
             /\ StartEssence[s] - essence[s] =
                  QuipPrice * Cardinality(QuipsOf(s)) + Total(charged, SettledAgainst(s))
  <2>1. essence[s] \in Nat /\ essence[s] = StartEssence[s]
    BY WalletsTyped DEF Init
  <2>2. QED
    BY <1>5, <2>1, QuipPriceNat
<1>7. ChargesAccounted
  BY <1>4, <1>6 DEF Init, ChargesAccounted
<1>8. QED
  BY <1>1, <1>3, <1>7 DEF ChargeInv

(* The books of the charges are right in every reachable state. *)
LEMMA ChargeInvariant == Spec => []ChargeInv
BY ChargeInit, ChargeStep, PTL DEF Spec

(* What a wallet lost is what its quips cost and what the events settled   *)
(* against it were charged, the fund holds all of the latter, and no       *)
(* wallet is overdrawn, however many events share a batch and whatever     *)
(* fails in between (agents/metering.py:506-530).                          *)
THEOREM ChargesAddUp == Spec => []ChargesAccounted
<1>1. ChargeInv => ChargesAccounted
  BY DEF ChargeInv
<1>2. QED
  BY <1>1, ChargeInvariant, PTL

(* The tables of the metering hold what their columns say.                 *)
THEOREM MeteringTyped == Spec => []MeteringTypeOK
<1>1. ASSUME ChargeInv PROVE MeteringTypeOK
  <2>1. fund \in Nat
    <3>1. fund = Total(charged, Events) /\ Nats(charged, Events)
      BY <1>1 DEF ChargeInv, ChargesAccounted, ChargeTypes, Nats
    <3>2. QED
      BY <3>1, EventsFinite, TotalNat
  <2>2. batch \in [Events -> 0..seq]
    BY <1>1, MeteringBounds DEF ChargeInv, ClaimInv, ClaimTypes, ClaimsRecorded
  <2>3. QED
    BY <1>1, <2>1, <2>2 DEF ChargeInv, ClaimInv, ClaimTypes, ChargeTypes, MeteringTypeOK
<1>2. QED
  BY <1>1, ChargeInvariant, PTL

-----------------------------------------------------------------------------
(* A row is let off only by a settlement that empties the wallet. *)
LEMMA LetOffOnlyWhenEmpty ==
    ASSUME ChargeInv, [Next]_vars, NEW e \in Events,
           Unsettled(e), settled'[e] # NoIntent, shortfall'[e] > 0
    PROVE  essence'[settled'[e][2]] = 0
<1>1. PICK b \in Batches, s \in Souls : Settle(b, s)
  <2>1. ~UNCHANGED settled
    BY DEF Unsettled
  <2>2. QED
    BY <2>1 DEF Next, vars, RecordUsage, Quip, RecordAny, RecordEvent, Abandon, Restart,
                Backfill, RunBatch, LoopEnds, SettleAny, Compensate, RejectUnreleased, SetPricing, chargeVars
<1> DEFINE E == OfBatch(b)
           h == Charges(s, E)
<1>2. /\ settled' = [d \in Events |-> IF d \in E THEN <<b, s>> ELSE settled[d]]
      /\ shortfall' = [d \in Events |-> IF d \in E THEN Cost(d) - h[d] ELSE shortfall[d]]
      /\ essence' = [essence EXCEPT ![s] = @ - Total(h, E)]
  BY <1>1 DEF Settle
<1>3. /\ Nats(h, E) /\ Total(h, E) \in Nat
      /\ \A d \in E : Cost(d) \in Nat /\ (h[d] < Cost(d) => Total(h, E) = essence[s])
  BY BatchPaid
<1>4. essence \in [Souls -> Int]
  BY DEF ChargeInv, ChargeTypes
<1> HIDE DEF E, h
<1>5. e \in E /\ settled'[e] = <<b, s>> /\ Cost(e) - h[e] > 0
  BY <1>2 DEF Unsettled
<1>6. h[e] < Cost(e)
  BY <1>3, <1>5 DEF Nats
<1>7. essence'[s] = essence[s] - essence[s]
  BY <1>2, <1>3, <1>4, <1>5, <1>6
<1>8. QED
  BY <1>4, <1>5, <1>7

(* An event is let off, in whole or in part, only by a wallet that has     *)
(* nothing left (agents/metering.py:26-29).                                *)
THEOREM ShortfallsAreReal == Spec => ShortOnlyWhenEmpty
<1>1. ChargeInv /\ [Next]_vars =>
        [\A e \in Events :
            Unsettled(e) /\ settled'[e] # NoIntent /\ shortfall'[e] > 0
            => essence'[settled'[e][2]] = 0]_vars
  BY LetOffOnlyWhenEmpty
<1>2. QED
  BY <1>1, ChargeInvariant, PTL DEF Spec, ShortOnlyWhenEmpty

-----------------------------------------------------------------------------
(***************************************************************************)
(* The motion.  First how a motion goes on, per tick and in closed form:   *)
(* for a soul on its way to its goal both agree (BothWaysAgree).  Then the *)
(* replay of the journal behind a snapshot, as a trace of its ticks, and what *)
(* the clock, a move, a snapshot and a boot make of it (Tracked).  From    *)
(* these the types, the charge of the needs, and the exactness of a restart. *)
(***************************************************************************)
Event == [tick : Nat, soul : Souls, vel : {-1, 0, 1}, goal : Road \cup {NoGoal}]
Shot == [tick : Nat, seq : Nat, at : Nat, motion : [Souls -> Motion]]

(* A motion and the tick, counted from the base, at which it was so. *)
Past == [m : Motion, t : Nat]

(* The closed form, as a way to advance. *)
Analytically == FALSE

-----------------------------------------------------------------------------
(* f is the rule F iterated n times from a, its values in the sets X. *)
Iterates(f, n, X, a, F) ==
    /\ f = [i \in 0..n |-> f[i]]
    /\ f[0] = a
    /\ \A i \in 0..n : f[i] \in X[i]
    /\ \A i \in 1..n : f[i] = F[<<f[i - 1], i>>]

(* A rule that leads from each X[i - 1] into X[i] can be iterated from any *)
(* member of X[0]. *)
LEMMA IterationExists ==
    ASSUME NEW n \in Nat, NEW X, NEW a \in X[0], NEW F,
           \A i \in 1..n : \A x \in X[i - 1] : F[<<x, i>>] \in X[i]
    PROVE  \E f : Iterates(f, n, X, a, F)
<1> DEFINE Bad == {k \in 0..n : ~ \E f : Iterates(f, k, X, a, F)}
<1> SUFFICES ASSUME Bad # {} PROVE FALSE
  <2>1. n \in 0..n
    OBVIOUS
  <2> QED
    BY <2>1
<1>1. PICK k \in Bad : \A j \in Bad : k <= j
  <2>1. Bad \subseteq Nat
    OBVIOUS
  <2> HIDE DEF Bad
  <2> QED
    BY <2>1, Least
<1>2. k \in Nat /\ k <= n
  OBVIOUS
<1>3. CASE k = 0
  <2> DEFINE f == [i \in 0..0 |-> a]
  <2>1. Iterates(f, 0, X, a, F)
    BY DEF Iterates
  <2> HIDE DEF f
  <2> QED
    BY <2>1, <1>3
<1>4. CASE k # 0
  <2>1. k - 1 \in 0..n /\ k \in 1..n
    BY <1>2, <1>4
  <2>2. PICK f : Iterates(f, k - 1, X, a, F)
    BY <2>1, <1>1, <1>2
  <2> DEFINE g == [i \in 0..k |-> IF i = k THEN F[<<f[k - 1], k>>] ELSE f[i]]
  <2>3. f[k - 1] \in X[k - 1]
    BY <2>1, <2>2 DEF Iterates
  <2>4. F[<<f[k - 1], k>>] \in X[k]
    BY <2>1, <2>3
  <2>5. g[0] = a
    BY <2>2, <1>2, <1>4 DEF Iterates
  <2>6. \A i \in 0..k : g[i] \in X[i]
    BY <2>2, <2>4, <1>2, <1>4 DEF Iterates
  <2>7. ASSUME NEW i \in 1..k PROVE g[i] = F[<<g[i - 1], i>>]
    <3>1. i - 1 \in 0..(k - 1) /\ i - 1 # k /\ i - 1 \in 0..k /\ i \in 0..k
      BY <1>2
    <3>2. g[i - 1] = f[i - 1]
      BY <3>1
    <3>3. CASE i = k
      BY <3>1, <3>2, <3>3
    <3>4. CASE i # k
      <4>1. i \in 1..(k - 1)
        BY <3>4, <1>2
      <4>2. f[i] = F[<<f[i - 1], i>>]
        BY <4>1, <2>2 DEF Iterates
      <4> QED
        BY <4>2, <3>1, <3>2, <3>4
    <3> QED
      BY <3>3, <3>4
  <2>8. g = [i \in 0..k |-> g[i]]
    OBVIOUS
  <2> HIDE DEF g
  <2>9. Iterates(g, k, X, a, F)
    BY <2>5, <2>6, <2>7, <2>8 DEF Iterates
  <2> QED
    BY <2>9
<1> QED
  BY <1>3, <1>4

(* Two tables that start alike and go on alike are alike. *)
LEMMA IterationUnique ==
    ASSUME NEW n \in Nat, NEW f, NEW g, f[0] = g[0],
           \A i \in 1..n : f[i - 1] = g[i - 1] => f[i] = g[i]
    PROVE  \A i \in 0..n : f[i] = g[i]
<1> DEFINE Bad == {k \in 0..n : f[k] # g[k]}
<1> SUFFICES ASSUME Bad # {} PROVE FALSE
  OBVIOUS
<1>1. PICK k \in Bad : \A j \in Bad : k <= j
  <2>1. Bad \subseteq Nat
    OBVIOUS
  <2> HIDE DEF Bad
  <2> QED
    BY <2>1, Least
<1>2. k \in 1..n
  OBVIOUS
<1>3. k - 1 \notin Bad /\ k - 1 \in 0..n
  BY <1>1, <1>2
<1> QED
  BY <1>2, <1>3

-----------------------------------------------------------------------------
(* The places are on the road. *)
LEMMA ClampTyped ==
    ASSUME NEW x \in Int
    PROVE  Clamp(x) \in Road /\ (x \in Road => Clamp(x) = x)
BY RecoveryBoundsNat DEF Clamp, Road

(* A soul put down somewhere stands. *)
LEMMA StillTyped ==
    ASSUME NEW x \in Road
    PROVE  Still(x) \in Motion /\ Aimed(Still(x)) /\ Still(x).vel = 0
BY DEF Still, Motion, Aimed

(* The fields of a motion. *)
LEMMA MotionParts ==
    ASSUME NEW m \in Motion
    PROVE  /\ m.at \in Road /\ m.vel \in {-1, 0, 1} /\ m.goal \in Road \cup {NoGoal}
           /\ Road \subseteq Int
           /\ m = [at |-> m.at, vel |-> m.vel, goal |-> m.goal]
BY DEF Motion, Road

(* A motion goes on as a motion, per tick and in closed form. *)
LEMMA IntegrateTyped ==
    ASSUME NEW m \in Motion PROVE Integrate(m) \in Motion
<1> DEFINE x == Clamp(m.at + m.vel)
<1>0. m.at \in Int /\ m.vel \in Int
  BY MotionParts
<1>1. x \in Road
  BY <1>0, ClampTyped
<1>2. CASE m.vel # 0 /\ m.goal # NoGoal /\ (m.goal - x) * m.vel <= 0
  BY <1>2, MotionParts, StillTyped DEF Integrate
<1>3. CASE ~ (m.vel # 0 /\ m.goal # NoGoal /\ (m.goal - x) * m.vel <= 0)
  <2>1. Integrate(m) = [m EXCEPT !.at = x]
    BY <1>3 DEF Integrate
  <2> HIDE DEF x
  <2> QED
    BY <2>1, <1>1 DEF Motion
<1> QED
  BY <1>2, <1>3

(* One tick, with the barrier. *)
LEMMA StrideTyped ==
    ASSUME NEW s, NEW m \in Motion PROVE Stride(s, m) \in Motion
BY IntegrateTyped, MotionParts, StillTyped DEF Stride

(* In closed form. *)
LEMMA AnalyticTyped ==
    ASSUME NEW m \in Motion, NEW n \in Nat PROVE AnalyticAdvance(m, n) \in Motion
<1> DEFINE x == Clamp(m.at + m.vel * n)
<1>0. m.at \in Int /\ m.vel \in {-1, 0, 1}
  BY MotionParts
<1>1. m.at + m.vel * n \in Int
  BY <1>0
<1>2. x \in Road
  BY <1>1, ClampTyped
<1>3. CASE n = 0 \/ m.vel = 0
  BY <1>3 DEF AnalyticAdvance
<1>4. CASE ~ (n = 0 \/ m.vel = 0) /\ m.goal # NoGoal /\ Distance(m) <= n
  BY <1>4, MotionParts, StillTyped DEF AnalyticAdvance
<1>5. CASE ~ (n = 0 \/ m.vel = 0) /\ ~ (m.goal # NoGoal /\ Distance(m) <= n)
  <2>1. AnalyticAdvance(m, n) = [m EXCEPT !.at = x]
    BY <1>5 DEF AnalyticAdvance
  <2> HIDE DEF x
  <2> QED
    BY <2>1, <1>2 DEF Motion
<1> QED
  BY <1>3, <1>4, <1>5

(* What FastForwarded reads is a table of the ticks. *)
Ticks(m, n, f) == f = [i \in 0..n |-> IF i = 0 THEN m ELSE Integrate(f[i - 1])]

(* The entries of a table of the ticks. *)
LEMMA TicksAt ==
    ASSUME NEW n \in Nat, NEW m, NEW f, Ticks(m, n, f)
    PROVE  f[0] = m /\ \A i \in 1..n : f[i] = Integrate(f[i - 1])
<1>1. \A i \in 0..n : f[i] = IF i = 0 THEN m ELSE Integrate(f[i - 1])
  BY DEF Ticks
<1> QED
  BY <1>1

(* The table of entries that follow each other tick by tick. *)
LEMMA TicksOf ==
    ASSUME NEW n \in Nat, NEW m, NEW f, f = [i \in 0..n |-> f[i]],
           f[0] = m, \A i \in 1..n : f[i] = Integrate(f[i - 1])
    PROVE  Ticks(m, n, f)
<1> DEFINE g == [i \in 0..n |-> IF i = 0 THEN m ELSE Integrate(f[i - 1])]
<1>1. ASSUME NEW i \in 0..n PROVE f[i] = g[i]
  <2>1. i = 0 \/ i \in 1..n
    OBVIOUS
  <2> QED
    BY <2>1
<1>2. f = g
  BY <1>1
<1> QED
  BY <1>2 DEF Ticks

(* There is a table of the ticks, all motions, and FastForwarded reads its
   last entry. *)
LEMMA FastForwardedReads ==
    ASSUME NEW n \in Nat, NEW m \in Motion
    PROVE  \E f : /\ Ticks(m, n, f) /\ FastForwarded(m, n) = f[n]
                  /\ \A i \in 0..n : f[i] \in Motion
<1> DEFINE X == [i \in 0..n |-> Motion]
           F == [p \in Motion \X (1..n) |-> Integrate(p[1])]
<1>1. \A i \in 1..n : \A x \in X[i - 1] : F[<<x, i>>] \in X[i]
  BY IntegrateTyped
<1>2. m \in X[0]
  OBVIOUS
<1>3. \A i \in 1..n : \A x \in Motion : F[<<x, i>>] = Integrate(x)
  OBVIOUS
<1>4. \A i \in 0..n : X[i] = Motion
  OBVIOUS
<1> HIDE DEF X, F
<1>5. PICK f : Iterates(f, n, X, m, F)
  BY <1>1, <1>2, IterationExists
<1>6. \A i \in 0..n : f[i] \in Motion
  BY <1>4, <1>5 DEF Iterates
<1>7. ASSUME NEW i \in 1..n PROVE f[i] = Integrate(f[i - 1])
  <2>1. f[i] = F[<<f[i - 1], i>>]
    <3>1. \A j \in 1..n : f[j] = F[<<f[j - 1], j>>]
      BY <1>5 DEF Iterates
    <3> QED
      BY <3>1
  <2>2. i - 1 \in 0..n
    OBVIOUS
  <2> QED
    BY <1>3, <1>6, <2>1, <2>2
<1>8. Ticks(m, n, f)
  BY <1>5, <1>7, TicksOf DEF Iterates
<1> DEFINE g == CHOOSE g : Ticks(m, n, g)
<1>9. Ticks(m, n, g)
  BY <1>8
<1>10. FastForwarded(m, n) = g[n]
  BY DEF FastForwarded, Ticks
<1> HIDE DEF g
<1>11. \A i \in 0..n : g[i] = f[i]
  <2>1. g[0] = f[0] /\ \A i \in 1..n : g[i - 1] = f[i - 1] => g[i] = f[i]
    BY <1>8, <1>9, TicksAt
  <2> QED
    BY <2>1, IterationUnique
<1> QED
  BY <1>6, <1>9, <1>10, <1>11

(* Per tick. *)
LEMMA FastForwardTyped ==
    ASSUME NEW n \in Nat, NEW m \in Motion PROVE FastForwarded(m, n) \in Motion
<1>1. n \in 0..n
  OBVIOUS
<1> QED
  BY <1>1, FastForwardedReads

(* Either way. *)
LEMMA AdvanceTyped ==
    ASSUME NEW n \in Nat, NEW m \in Motion, NEW exact
    PROVE  Advance(m, n, exact) \in Motion
BY FastForwardTyped, AnalyticTyped DEF Advance

-----------------------------------------------------------------------------
(* A soul on its way to a goal, in numbers. *)
LEMMA AimedParts ==
    ASSUME NEW m \in Motion, Aimed(m), m.vel # 0
    PROVE  /\ m.goal \in Road /\ m.goal # NoGoal
           /\ \/ m.vel = 1 /\ m.at < m.goal /\ Distance(m) = m.goal - m.at
              \/ m.vel = -1 /\ m.goal < m.at /\ Distance(m) = m.at - m.goal
<1>1. /\ m.at \in Int /\ m.goal \in Int /\ m.goal \in Road
      /\ (m.goal - m.at) * m.vel > 0
      /\ m.vel = 1 \/ m.vel = -1
  BY MotionParts DEF Aimed
<1>2. CASE m.vel = 1
  <2>1. m.goal - m.at > 0
    BY <1>1, <1>2
  <2> QED
    BY <1>1, <1>2, <2>1, PlacesNamed DEF Distance, Road
<1>3. CASE m.vel = -1
  <2>1. m.goal - m.at < 0
    BY <1>1, <1>3
  <2> QED
    BY <1>1, <1>3, <2>1, PlacesNamed DEF Distance, Road
<1> QED
  BY <1>1, <1>2, <1>3

Walked(m, n) == [m EXCEPT !.at = m.at + m.vel * n]

(* Where a soul is before it has covered the distance to its goal. *)
LEMMA WalkedParts ==
    ASSUME NEW m \in Motion, NEW n \in Nat, Aimed(m), m.vel # 0, n < Distance(m)
    PROVE  /\ Walked(m, n) \in Motion /\ Aimed(Walked(m, n))
           /\ Walked(m, n).vel = m.vel /\ Walked(m, n).goal = m.goal
           /\ Walked(m, n).at = m.at + m.vel * n
           /\ Distance(Walked(m, n)) = Distance(m) - n
           /\ m.at + m.vel * n \in Road
<1> DEFINE x == m.at + m.vel * n
<1>0. m.at \in Road /\ m.at \in Int /\ m.goal \in Road /\ m.goal \in Int
  BY MotionParts, AimedParts
<1>1. x \in Road
  BY <1>0, AimedParts, RecoveryBoundsNat DEF Road
<1>2. /\ Walked(m, n).vel = m.vel /\ Walked(m, n).goal = m.goal
      /\ Walked(m, n).at = x
  BY MotionParts DEF Walked, Motion
<1>3. Walked(m, n) \in Motion
  <2> HIDE DEF x
  <2>1. Walked(m, n) = [m EXCEPT !.at = x]
    BY DEF Walked, x
  <2> QED
    BY <1>1, <2>1 DEF Motion
<1>4. Aimed(Walked(m, n)) /\ Distance(Walked(m, n)) = Distance(m) - n
  <2>1. CASE m.vel = 1
    <3>1. m.at < m.goal /\ Distance(m) = m.goal - m.at /\ x = m.at + n
      BY <1>0, <2>1, AimedParts
    <3>2. x < m.goal /\ (m.goal - x) * 1 > 0
      BY <1>0, <3>1
    <3> HIDE DEF x
    <3> QED
      BY <1>0, <1>1, <1>2, <2>1, <3>1, <3>2 DEF Aimed, Distance
  <2>2. CASE m.vel = -1
    <3>1. m.goal < m.at /\ Distance(m) = m.at - m.goal /\ x = m.at - n
      BY <1>0, <2>2, AimedParts
    <3>2. m.goal < x /\ (m.goal - x) * (-1) > 0
      BY <1>0, <3>1
    <3> HIDE DEF x
    <3> QED
      BY <1>0, <1>1, <1>2, <2>2, <3>1, <3>2 DEF Aimed, Distance
  <2> QED
    BY <2>1, <2>2, AimedParts
<1> QED
  BY <1>1, <1>2, <1>3, <1>4

(* The closed form: at the goal once the distance is covered, on the way   *)
(* before. *)
LEMMA AnalyticAt ==
    ASSUME NEW m \in Motion, NEW n \in Nat, Aimed(m), m.vel # 0
    PROVE  AnalyticAdvance(m, n) = IF Distance(m) <= n THEN Still(m.goal) ELSE Walked(m, n)
<1>0. m.goal # NoGoal /\ Distance(m) > 0 /\ Distance(m) \in Int
  BY AimedParts, MotionParts
<1>1. CASE Distance(m) <= n
  <2>1. n # 0
    BY <1>0, <1>1
  <2> QED
    BY <1>0, <1>1, <2>1 DEF AnalyticAdvance
<1>2. CASE ~ (Distance(m) <= n) /\ n = 0
  <2>1. Walked(m, 0) = m
    <3>1. m.at + m.vel * 0 = m.at
      BY MotionParts
    <3> QED
      BY <3>1, MotionParts DEF Walked
  <2> QED
    BY <1>2, <2>1 DEF AnalyticAdvance
<1>3. CASE ~ (Distance(m) <= n) /\ n # 0
  <2>1. n < Distance(m)
    BY <1>3, MotionParts, AimedParts
  <2>2. Clamp(m.at + m.vel * n) = m.at + m.vel * n
    <3>1. m.at + m.vel * n \in Road
      BY <2>1, WalkedParts
    <3>2. m.at + m.vel * n \in Int
      BY <3>1 DEF Road
    <3> QED
      BY <3>1, <3>2, ClampTyped
  <2> QED
    BY <1>3, <2>2 DEF AnalyticAdvance, Walked
<1> QED
  BY <1>1, <1>2, <1>3

(* One tick of a soul that is on its way. *)
LEMMA IntegrateAt ==
    ASSUME NEW m \in Motion, Aimed(m)
    PROVE  Integrate(m) = IF m.vel = 0 THEN m
                          ELSE IF Distance(m) <= 1 THEN Still(m.goal) ELSE Walked(m, 1)
<1>0. m.at \in Road /\ m.at \in Int
  BY MotionParts
<1>1. CASE m.vel = 0
  <2>0. m.at + m.vel = m.at /\ m.at \in Int
    BY <1>0, <1>1
  <2>1. Clamp(m.at + m.vel) = m.at
    BY <1>0, <2>0, ClampTyped
  <2> QED
    BY <1>1, <2>1, MotionParts DEF Integrate
<1>2. CASE m.vel # 0
  <2> DEFINE y == m.at + m.vel
  <2>1. y \in Int /\ y \in Road /\ m.goal \in Int /\ m.at \in Int /\ m.goal # NoGoal
    BY <1>0, <1>2, AimedParts, RecoveryBoundsNat DEF Road
  <2>2. Clamp(y) = y
    BY <2>1, ClampTyped
  <2>3. (m.goal - y) * m.vel <= 0 <=> Distance(m) <= 1
    <3>1. CASE m.vel = 1
      <4>1. y = m.at + 1 /\ Distance(m) = m.goal - m.at
        BY <1>0, <3>1, AimedParts
      <4>2. (m.goal - y) * 1 <= 0 <=> Distance(m) <= 1
        BY <1>0, <2>1, <4>1
      <4> QED
        BY <3>1, <4>2
    <3>2. CASE m.vel = -1
      <4>1. y = m.at - 1 /\ Distance(m) = m.at - m.goal
        BY <1>0, <3>2, AimedParts
      <4>2. (m.goal - y) * (-1) <= 0 <=> Distance(m) <= 1
        BY <1>0, <2>1, <4>1
      <4> QED
        BY <3>2, <4>2
    <3> QED
      BY <1>2, <3>1, <3>2, AimedParts
  <2>4. m.at + m.vel * 1 = y
    BY MotionParts
  <2> QED
    BY <1>2, <2>1, <2>2, <2>3, <2>4 DEF Integrate, Walked
<1> QED
  BY <1>1, <1>2

(* The closed form keeps a soul on its way, and goes on tick by tick. *)
LEMMA AnalyticSteps ==
    ASSUME NEW m \in Motion, NEW n \in Nat, Aimed(m)
    PROVE  /\ Aimed(AnalyticAdvance(m, n))
           /\ Integrate(AnalyticAdvance(m, n)) = AnalyticAdvance(m, n + 1)
           /\ AnalyticAdvance(m, 0) = m
<1>0. AnalyticAdvance(m, 0) = m
  BY DEF AnalyticAdvance
<1>1. CASE m.vel = 0
  <2>1. AnalyticAdvance(m, n) = m /\ AnalyticAdvance(m, n + 1) = m
    BY <1>1 DEF AnalyticAdvance
  <2> QED
    BY <1>0, <1>1, <2>1, IntegrateAt
<1>2. CASE m.vel # 0 /\ Distance(m) <= n
  <2>1. Distance(m) <= n + 1
    BY <1>2, MotionParts, AimedParts
  <2>2. /\ AnalyticAdvance(m, n) = Still(m.goal)
        /\ AnalyticAdvance(m, n + 1) = Still(m.goal)
    BY <1>2, <2>1, AnalyticAt
  <2>3. m.goal \in Road
    BY <1>2, AimedParts
  <2> QED
    BY <1>0, <2>2, <2>3, StillTyped, IntegrateAt
<1>3. CASE m.vel # 0 /\ ~ (Distance(m) <= n)
  <2>1. n < Distance(m) /\ Distance(m) \in Int
    BY <1>3, MotionParts, AimedParts
  <2> DEFINE w == Walked(m, n)
  <2>2. AnalyticAdvance(m, n) = w
    BY <1>3, AnalyticAt
  <2>3. /\ w \in Motion /\ Aimed(w) /\ w.vel = m.vel /\ w.goal = m.goal
        /\ w.at = m.at + m.vel * n /\ Distance(w) = Distance(m) - n
    BY <1>3, <2>1, WalkedParts
  <2>4. Integrate(w) = IF Distance(w) <= 1 THEN Still(w.goal) ELSE Walked(w, 1)
    <3> HIDE DEF w
    <3> QED
      BY <1>3, <2>3, IntegrateAt
  <2>5. Walked(w, 1) = Walked(m, n + 1)
    <3>1. w.at + w.vel * 1 = m.at + m.vel * (n + 1)
      BY <2>3, MotionParts
    <3>2. w = [at |-> m.at + m.vel * n, vel |-> m.vel, goal |-> m.goal]
      BY MotionParts DEF Walked
    <3> HIDE DEF w
    <3> QED
      BY <3>1, <3>2, MotionParts DEF Walked
  <2>6. Distance(w) <= 1 <=> Distance(m) <= n + 1
    BY <2>1, <2>3
  <2>7. AnalyticAdvance(m, n + 1) =
            IF Distance(m) <= n + 1 THEN Still(m.goal) ELSE Walked(m, n + 1)
    BY <1>3, AnalyticAt
  <2> HIDE DEF w
  <2> QED
    BY <1>0, <2>2, <2>3, <2>4, <2>5, <2>6, <2>7
<1> QED
  BY <1>1, <1>2, <1>3

(* Per tick and in closed form, a soul on its way gets to the same place. *)
LEMMA BothWaysAgree ==
    ASSUME NEW m \in Motion, NEW n \in Nat, Aimed(m), NEW exact
    PROVE  Advance(m, n, exact) = AnalyticAdvance(m, n)
<1>1. PICK f : Ticks(m, n, f) /\ FastForwarded(m, n) = f[n]
  BY FastForwardedReads
<1> DEFINE g == [i \in 0..n |-> AnalyticAdvance(m, i)]
<1>2. g[0] = m /\ \A i \in 1..n : g[i] = Integrate(g[i - 1])
  <2>1. ASSUME NEW i \in 1..n PROVE g[i] = Integrate(g[i - 1])
    <3>1. i - 1 \in Nat /\ i - 1 \in 0..n /\ i \in 0..n /\ (i - 1) + 1 = i
      OBVIOUS
    <3>2. Integrate(AnalyticAdvance(m, i - 1)) = AnalyticAdvance(m, (i - 1) + 1)
      BY <3>1, AnalyticSteps
    <3> QED
      BY <3>1, <3>2
  <2> QED
    BY <2>1, AnalyticSteps
<1>3. g[n] = AnalyticAdvance(m, n)
  OBVIOUS
<1> HIDE DEF g
<1>4. \A i \in 0..n : f[i] = g[i]
  <2>0. f[0] = m /\ \A i \in 1..n : f[i] = Integrate(f[i - 1])
    BY <1>1, TicksAt
  <2>1. f[0] = g[0] /\ \A i \in 1..n : f[i - 1] = g[i - 1] => f[i] = g[i]
    BY <1>2, <2>0
  <2> QED
    BY <2>1, IterationUnique
<1>5. n \in 0..n
  OBVIOUS
<1> QED
  BY <1>1, <1>3, <1>4, <1>5 DEF Advance

-----------------------------------------------------------------------------
(* An order of the log: by tick, and in a tick by seq. *)
UpTo(tail, i, j) ==
    \/ tail[i].tick < tail[j].tick
    \/ tail[i].tick = tail[j].tick /\ i <= j

(* Events are at ticks, and carry a motion of the soul. *)
LEMMA EventParts ==
    ASSUME NEW tail \in Seq(Event), NEW j \in 1..Len(tail)
    PROVE  /\ tail[j] \in Event /\ tail[j].tick \in Nat /\ tail[j].soul \in Souls
           /\ tail[j].vel \in {-1, 0, 1} /\ tail[j].goal \in Road \cup {NoGoal}
<1>1. tail[j] \in Event
  OBVIOUS
<1> QED
  BY <1>1 DEF Event

(* The event that no other of the set is later than is the latest. *)
LEMMA LatestIs ==
    ASSUME NEW tail \in Seq(Event), NEW S, S \subseteq 1..Len(tail),
           NEW j \in S, \A i \in S : UpTo(tail, i, j)
    PROVE  Latest(tail, S) = j
<1> DEFINE Top(x) == x \in S /\ \A i \in S : UpTo(tail, i, x)
           l == CHOOSE x : Top(x)
<1>1. Latest(tail, S) = l
  BY DEF Latest, UpTo
<1>2. Top(j)
  OBVIOUS
<1>3. Top(l)
  <2> HIDE DEF Top
  <2> QED
    BY <1>2
<1> HIDE DEF l
<1>4. l \in S /\ UpTo(tail, j, l) /\ UpTo(tail, l, j)
  BY <1>3
<1>5. l \in Nat /\ j \in Nat /\ tail[l].tick \in Nat /\ tail[j].tick \in Nat
  BY <1>4, EventParts
<1> QED
  BY <1>1, <1>4, <1>5 DEF UpTo

(* Some log have a latest one. *)
LEMMA LatestIn ==
    ASSUME NEW tail \in Seq(Event), NEW S, S \subseteq 1..Len(tail), S # {}
    PROVE  Latest(tail, S) \in S /\ \A i \in S : UpTo(tail, i, Latest(tail, S))
<1> DEFINE Topped(T) == \E j \in T : \A i \in T : UpTo(tail, i, j)
           D == 1..Len(tail)
           P == {T \in SUBSET D : T = {} \/ Topped(T)}
<1>1. IsFiniteSet(D)
  <2>1. Len(tail) \in Int
    OBVIOUS
  <2> QED
    BY <2>1, FS_Interval
<1>2. {} \in P
  OBVIOUS
<1>3. \A T \in SUBSET D : \A x \in T : T \ {x} \in P => T \in P
  <2> SUFFICES ASSUME NEW T \in SUBSET D, NEW x \in T, T \ {x} \in P
               PROVE  T \in P
    OBVIOUS
  <2>1. \A i \in T : i \in Nat /\ tail[i].tick \in Nat
    BY EventParts
  <2>2. CASE T \ {x} = {}
    <3>1. T = {x}
      BY <2>2
    <3>2. UpTo(tail, x, x)
      BY <2>1 DEF UpTo
    <3> QED
      BY <3>1, <3>2
  <2>3. CASE T \ {x} # {}
    <3>1. PICK j \in T \ {x} : \A i \in T \ {x} : UpTo(tail, i, j)
      BY <2>3
    <3>2. CASE UpTo(tail, x, j)
      BY <3>1, <3>2
    <3>3. CASE ~ UpTo(tail, x, j)
      <4>1. \A i \in T : UpTo(tail, i, x)
        <5> SUFFICES ASSUME NEW i \in T PROVE UpTo(tail, i, x)
          OBVIOUS
        <5>1. UpTo(tail, i, j) \/ i = x
          BY <3>1
        <5> QED
          BY <2>1, <3>3, <5>1 DEF UpTo
      <4> QED
        BY <4>1
    <3> QED
      BY <3>2, <3>3
  <2> QED
    BY <2>2, <2>3
<1>4. (SUBSET D) \subseteq P
  <2> HIDE DEF P, D
  <2> QED
    BY <1>1, <1>2, <1>3, PartInduction
<1>5. PICK j \in S : \A i \in S : UpTo(tail, i, j)
  BY <1>4
<1> QED
  BY <1>5, LatestIs

-----------------------------------------------------------------------------
Origin(m0) == [m |-> m0, t |-> 0]

(* The fields of a past. *)
LEMMA PastParts ==
    ASSUME NEW p \in Past
    PROVE  p.m \in Motion /\ p.t \in Nat
BY DEF Past

(* An event sets a velocity and a goal, and leaves the place. *)
LEMMA AppliedTyped ==
    ASSUME NEW m \in Motion, NEW e \in Event
    PROVE  /\ ApplyEvent(m, e) \in Motion
           /\ ApplyEvent(m, e) = [at |-> m.at, vel |-> e.vel, goal |-> e.goal]
<1>1. m.at \in Road /\ e.vel \in {-1, 0, 1} /\ e.goal \in Road \cup {NoGoal}
  BY MotionParts DEF Event
<1> DEFINE r == ApplyEvent(m, e)
<1>2. r \in Motion
  BY <1>1 DEF ApplyEvent, Motion
<1>3. r.at = m.at /\ r.vel = e.vel /\ r.goal = e.goal
  BY DEF ApplyEvent, Motion
<1> HIDE DEF r
<1>4. r = [at |-> r.at, vel |-> r.vel, goal |-> r.goal]
  BY <1>2, MotionParts
<1> QED
  BY <1>2, <1>3, <1>4 DEF r

(* A step of the replay leads from a past to a past. *)
LEMMA ReplayStepTyped ==
    ASSUME NEW p \in Past, NEW k \in Nat, p.t <= k, NEW s, NEW tail \in Seq(Event),
           NEW base, NEW n, NEW exact
    PROVE  /\ ReplayStep(p, k, s, tail, base, n, exact) \in Past
           /\ ReplayStep(p, k, s, tail, base, n, exact).t <= k
<1> DEFINE here == Advance(p.m, k - p.t, exact)
           own == Own(s, tail, base, n, k)
<1>1. here \in Motion
  <2>1. k - p.t \in Nat
    BY PastParts
  <2> QED
    BY <2>1, PastParts, AdvanceTyped
<1>2. own \subseteq 1..Len(tail)
  BY DEF Own
<1> HIDE DEF here, own
<1>3. CASE own # {}
  <2> DEFINE e == tail[Latest(tail, own)]
  <2>1. e \in Event
    BY <1>2, <1>3, LatestIn, EventParts
  <2> HIDE DEF e
  <2>2. ApplyEvent(here, e) \in Motion
    BY <1>1, <2>1, AppliedTyped
  <2>3. ReplayStep(p, k, s, tail, base, n, exact) = [m |-> ApplyEvent(here, e), t |-> k]
    BY <1>3 DEF ReplayStep, here, own, e
  <2> QED
    BY <2>2, <2>3 DEF Past
<1>4. CASE own = {}
  <2>1. ReplayStep(p, k, s, tail, base, n, exact) \in {[m |-> here, t |-> k], p}
    BY <1>4 DEF ReplayStep, here, own
  <2> QED
    BY <1>1, <2>1 DEF Past
<1> QED
  BY <1>3, <1>4

(* As soon as the soul is on its way, or no time passes, both ways of       *)
(* advancing make the same step. *)
LEMMA ReplayStepAgrees ==
    ASSUME NEW p \in Past, NEW k \in Nat, p.t <= k, Aimed(p.m) \/ k = p.t,
           NEW s, NEW tail, NEW base, NEW n, NEW exact
    PROVE  ReplayStep(p, k, s, tail, base, n, exact)
             = ReplayStep(p, k, s, tail, base, n, Analytically)
<1>0. k - p.t \in Nat /\ p.m \in Motion
  BY PastParts
<1>1. Advance(p.m, k - p.t, exact) = Advance(p.m, k - p.t, Analytically)
  <2>1. CASE Aimed(p.m)
    <3>1. \A x : Advance(p.m, k - p.t, x) = AnalyticAdvance(p.m, k - p.t)
      BY <1>0, <2>1, BothWaysAgree
    <3> QED
      BY <3>1
  <2>2. CASE k = p.t
    <3>1. k - p.t = 0
      BY <1>0, <2>2, PastParts
    <3>2. FastForwarded(p.m, 0) = p.m
      <4>1. PICK f : Ticks(p.m, 0, f) /\ FastForwarded(p.m, 0) = f[0]
        BY <1>0, FastForwardedReads
      <4> QED
        BY <4>1, TicksAt
    <3>3. AnalyticAdvance(p.m, 0) = p.m
      BY DEF AnalyticAdvance
    <3> QED
      BY <3>1, <3>2, <3>3 DEF Advance
  <2> QED
    BY <2>1, <2>2
<1> QED
  BY <1>1 DEF ReplayStep

(* What Replayed reads is a table of the ticks, from the base on. *)
Replays(f, m0, s, tail, base, n, exact) ==
    f = [k \in 0..n |-> ReplayStep(IF k = 0 THEN Origin(m0) ELSE f[k - 1],
                                   k, s, tail, base, n, exact)]

(* The entries of a replay. *)
LEMMA ReplaysAt ==
    ASSUME NEW n \in Nat, NEW f, NEW m0, NEW s, NEW tail, NEW base, NEW exact,
           Replays(f, m0, s, tail, base, n, exact)
    PROVE  /\ f[0] = ReplayStep(Origin(m0), 0, s, tail, base, n, exact)
           /\ \A k \in 1..n : f[k] = ReplayStep(f[k - 1], k, s, tail, base, n, exact)
           /\ f = [k \in 0..n |-> f[k]]
<1> DEFINE step(k) == ReplayStep(IF k = 0 THEN Origin(m0) ELSE f[k - 1],
                                 k, s, tail, base, n, exact)
<1>1. f = [k \in 0..n |-> step(k)]
  BY DEF Replays
<1>2. f[0] = step(0) /\ \A k \in 1..n : f[k] = step(k)
  <2> HIDE DEF step
  <2> QED
    BY <1>1
<1>3. f = [k \in 0..n |-> f[k]]
  <2> HIDE DEF step
  <2> QED
    BY <1>1
<1>4. ASSUME NEW k \in 1..n
      PROVE  f[k] = ReplayStep(f[k - 1], k, s, tail, base, n, exact)
  <2>1. k # 0
    OBVIOUS
  <2> QED
    BY <1>2, <2>1
<1> QED
  BY <1>2, <1>3, <1>4

(* The replay of entries that follow each other step by step. *)
LEMMA ReplaysOf ==
    ASSUME NEW n \in Nat, NEW f, NEW m0, NEW s, NEW tail, NEW base, NEW exact,
           f = [k \in 0..n |-> f[k]],
           f[0] = ReplayStep(Origin(m0), 0, s, tail, base, n, exact),
           \A k \in 1..n : f[k] = ReplayStep(f[k - 1], k, s, tail, base, n, exact)
    PROVE  Replays(f, m0, s, tail, base, n, exact)
<1> DEFINE step(k) == ReplayStep(IF k = 0 THEN Origin(m0) ELSE f[k - 1],
                                 k, s, tail, base, n, exact)
<1>1. ASSUME NEW k \in 0..n PROVE f[k] = step(k)
  <2>1. k = 0 \/ k \in 1..n
    OBVIOUS
  <2> QED
    BY <2>1
<1>2. f = [k \in 0..n |-> step(k)]
  <2> HIDE DEF step
  <2> QED
    BY <1>1
<1> QED
  BY <1>2 DEF Replays

(* A table of the ticks is the one that Replayed reads. *)
LEMMA ReplayedReads ==
    ASSUME NEW n \in Nat, NEW f, NEW m0, NEW s, NEW tail, NEW base, NEW exact,
           Replays(f, m0, s, tail, base, n, exact)
    PROVE  Replayed(m0, s, tail, base, n, exact) = f
<1> DEFINE g == CHOOSE g : Replays(g, m0, s, tail, base, n, exact)
<1>1. Replays(g, m0, s, tail, base, n, exact)
  OBVIOUS
<1>2. Replayed(m0, s, tail, base, n, exact) = g
  BY DEF Replayed, Replays, Origin
<1> HIDE DEF g
<1>3. \A k \in 0..n : f[k] = g[k]
  <2>1. f[0] = g[0]
    BY <1>1, ReplaysAt
  <2>2. \A k \in 1..n : f[k] = ReplayStep(f[k - 1], k, s, tail, base, n, exact)
    BY ReplaysAt
  <2>3. \A k \in 1..n : g[k] = ReplayStep(g[k - 1], k, s, tail, base, n, exact)
    BY <1>1, ReplaysAt
  <2>4. \A k \in 1..n : f[k - 1] = g[k - 1] => f[k] = g[k]
    BY <2>2, <2>3
  <2> QED
    BY <2>1, <2>4, IterationUnique
<1>4. f = [k \in 0..n |-> f[k]] /\ g = [k \in 0..n |-> g[k]]
  BY <1>1, ReplaysAt
<1>5. f = g
  BY <1>3, <1>4
<1> QED
  BY <1>2, <1>5

(* For any soul, journal and gap there is such a table. *)
LEMMA ReplaysExists ==
    ASSUME NEW n \in Nat, NEW m0 \in Motion, NEW s, NEW tail \in Seq(Event),
           NEW base, NEW exact
    PROVE  \E f : /\ Replays(f, m0, s, tail, base, n, exact)
                  /\ \A k \in 0..n : f[k] \in Past /\ f[k].t <= k
<1> DEFINE step(p, k) == ReplayStep(p, k, s, tail, base, n, exact)
           X == [k \in 0..n |-> {p \in Past : p.t <= k}]
           F == [q \in Past \X (1..n) |-> step(q[1], q[2])]
           a == step(Origin(m0), 0)
<1>1. Origin(m0) \in Past /\ Origin(m0).t <= 0
  BY DEF Origin, Past
<1>2. a \in X[0]
  <2>1. a \in Past /\ a.t <= 0
    BY <1>1, ReplayStepTyped
  <2> HIDE DEF a
  <2> QED
    BY <2>1
<1>3. \A k \in 0..n : X[k] = {p \in Past : p.t <= k}
  OBVIOUS
<1>4. \A k \in 1..n : \A p \in Past : F[<<p, k>>] = step(p, k)
  <2> HIDE DEF step
  <2> QED
    OBVIOUS
<1>5. \A k \in 1..n : \A p \in X[k - 1] : F[<<p, k>>] \in X[k]
  <2> SUFFICES ASSUME NEW k \in 1..n, NEW p \in X[k - 1] PROVE F[<<p, k>>] \in X[k]
    OBVIOUS
  <2>1. k \in Nat /\ k - 1 \in 0..n /\ k \in 0..n
    OBVIOUS
  <2>2. p \in Past /\ p.t <= k - 1
    BY <2>1, <1>3
  <2>3. p.t <= k
    BY <2>1, <2>2, PastParts
  <2>4. step(p, k) \in Past /\ step(p, k).t <= k
    BY <2>1, <2>2, <2>3, ReplayStepTyped
  <2>5. F[<<p, k>>] = step(p, k)
    BY <2>2, <1>4
  <2> HIDE DEF step, F, X
  <2> QED
    BY <2>1, <2>4, <2>5, <1>3
<1> HIDE DEF X, F, a
<1>6. PICK f : Iterates(f, n, X, a, F)
  BY <1>2, <1>5, IterationExists
<1>7. ASSUME NEW k \in 0..n PROVE f[k] \in Past /\ f[k].t <= k
  BY <1>3, <1>6 DEF Iterates
<1>8. ASSUME NEW k \in 1..n PROVE f[k] = step(f[k - 1], k)
  <2>0. k - 1 \in 0..n
    OBVIOUS
  <2>1. f[k] = F[<<f[k - 1], k>>]
    BY <1>6 DEF Iterates
  <2> QED
    BY <1>4, <1>7, <2>0, <2>1
<1>9. f[0] = step(Origin(m0), 0) /\ f = [k \in 0..n |-> f[k]]
  BY <1>6 DEF Iterates, a
<1>10. Replays(f, m0, s, tail, base, n, exact)
  BY <1>8, <1>9, ReplaysOf
<1> QED
  BY <1>7, <1>10

(* Whatever the journal says, a replay ends in a motion. *)
LEMMA ReplayTailTyped ==
    ASSUME NEW n \in Nat, NEW m0 \in Motion, NEW s, NEW tail \in Seq(Event),
           NEW base, NEW exact
    PROVE  ReplayTail(m0, s, tail, base, n, exact) \in Motion
<1>1. PICK f : /\ Replays(f, m0, s, tail, base, n, exact)
               /\ \A k \in 0..n : f[k] \in Past /\ f[k].t <= k
  BY ReplaysExists
<1>2. f[n] \in Past /\ f[n].t <= n
  BY <1>1
<1>3. f[n].m \in Motion /\ n - f[n].t \in Nat
  BY <1>2, PastParts
<1>4. ReplayTail(m0, s, tail, base, n, exact) = Advance(f[n].m, n - f[n].t, exact)
  BY <1>1, ReplayedReads DEF ReplayTail
<1> QED
  BY <1>3, <1>4, AdvanceTyped

-----------------------------------------------------------------------------
(* A replay on which the soul is on its way or still at every tick, no      *)
(* event of it ahead of the clock. *)
Traces(f, m0, s, tail, base, n) ==
    /\ Replays(f, m0, s, tail, base, n, Analytically)
    /\ \A k \in 0..n : f[k] \in Past /\ f[k].t <= k /\ Aimed(f[k].m)
    /\ \A j \in 1..Len(tail) : tail[j].soul = s => tail[j].tick <= base + n

(* Where a past has led by the n-th tick. *)
Standing(p, n) == AnalyticAdvance(p.m, n - p.t)

(* The entries of a trace. *)
LEMMA TraceParts ==
    ASSUME NEW n \in Nat, NEW f, NEW m0, NEW s, NEW tail, NEW base,
           Traces(f, m0, s, tail, base, n), NEW k \in 0..n
    PROVE  /\ f[k] \in Past /\ f[k].m \in Motion /\ f[k].t \in Nat /\ f[k].t <= k
           /\ Aimed(f[k].m) /\ k - f[k].t \in Nat /\ n - f[k].t \in Nat
<1>1. f[k] \in Past /\ f[k].t <= k /\ Aimed(f[k].m)
  BY DEF Traces
<1> QED
  BY <1>1, PastParts

(* Both ways of advancing make the same replay of it. *)
LEMMA TraceTells ==
    ASSUME NEW n \in Nat, NEW f, NEW m0 \in Motion, NEW s, NEW tail, NEW base,
           Traces(f, m0, s, tail, base, n), NEW exact
    PROVE  /\ ReplayTail(m0, s, tail, base, n, exact) = Standing(f[n], n)
           /\ Standing(f[n], n) \in Motion /\ Aimed(Standing(f[n], n))
<1>1. Replays(f, m0, s, tail, base, n, Analytically)
  BY DEF Traces
<1>2. Origin(m0) \in Past /\ Origin(m0).t = 0
  BY DEF Origin, Past
<1>3. f[0] = ReplayStep(Origin(m0), 0, s, tail, base, n, exact)
  BY <1>1, <1>2, ReplaysAt, ReplayStepAgrees
<1>4. ASSUME NEW k \in 1..n
      PROVE  f[k] = ReplayStep(f[k - 1], k, s, tail, base, n, exact)
  <2>1. k - 1 \in 0..n /\ k \in Nat
    OBVIOUS
  <2>2. f[k - 1] \in Past /\ f[k - 1].t \in Nat /\ f[k - 1].t <= k - 1 /\ Aimed(f[k - 1].m)
    BY <2>1, TraceParts
  <2>3. f[k - 1].t <= k
    BY <2>1, <2>2
  <2>4. f[k] = ReplayStep(f[k - 1], k, s, tail, base, n, Analytically)
    BY <1>1, ReplaysAt
  <2> QED
    BY <2>1, <2>2, <2>3, <2>4, ReplayStepAgrees
<1>5. Replays(f, m0, s, tail, base, n, exact)
  BY <1>1, <1>3, <1>4, ReplaysAt, ReplaysOf
<1>6. n \in 0..n
  OBVIOUS
<1>7. ReplayTail(m0, s, tail, base, n, exact) = Advance(f[n].m, n - f[n].t, exact)
  BY <1>5, ReplayedReads DEF ReplayTail
<1>8. f[n].m \in Motion /\ n - f[n].t \in Nat /\ Aimed(f[n].m)
  BY <1>6, TraceParts
<1>9. Advance(f[n].m, n - f[n].t, exact) = AnalyticAdvance(f[n].m, n - f[n].t)
  BY <1>8, BothWaysAgree
<1>10. /\ AnalyticAdvance(f[n].m, n - f[n].t) \in Motion
       /\ Aimed(AnalyticAdvance(f[n].m, n - f[n].t))
  BY <1>8, AnalyticTyped, AnalyticSteps
<1> QED
  BY <1>7, <1>9, <1>10 DEF Standing

(* A replay that does not go astray is such a one. *)
LEMMA NotMisledTraces ==
    ASSUME NEW n \in Nat, NEW m0 \in Motion, NEW s, NEW tail \in Seq(Event),
           NEW base \in Nat, ~ Misled(m0, s, tail, base, n)
    PROVE  \E f : Traces(f, m0, s, tail, base, n)
<1>1. PICK f : /\ Replays(f, m0, s, tail, base, n, Analytically)
               /\ \A k \in 0..n : f[k] \in Past /\ f[k].t <= k
  BY ReplaysExists
<1>2. Replayed(m0, s, tail, base, n, Analytically) = f
  BY <1>1, ReplayedReads
<1>3. \A k \in 0..n : Aimed(f[k].m)
  BY <1>2 DEF Misled, Analytically
<1>4. ASSUME NEW j \in 1..Len(tail), tail[j].soul = s PROVE tail[j].tick <= base + n
  <2>1. ~ (tail[j].tick > base + n) /\ tail[j].tick \in Nat
    BY <1>4, EventParts DEF Misled
  <2> QED
    BY <2>1
<1> QED
  BY <1>1, <1>3, <1>4 DEF Traces

(* A snapshot just taken. *)
LEMMA TraceStarts ==
    ASSUME NEW m0 \in Motion, Aimed(m0), NEW s, NEW base \in Nat
    PROVE  \E f : Traces(f, m0, s, << >>, base, 0) /\ Standing(f[0], 0) = m0
<1>0. << >> \in Seq(Event) /\ Len(<< >>) = 0
  OBVIOUS
<1>1. PICK f : /\ Replays(f, m0, s, << >>, base, 0, Analytically)
               /\ \A k \in 0..0 : f[k] \in Past /\ f[k].t <= k
  BY <1>0, ReplaysExists
<1>2. f[0] = ReplayStep(Origin(m0), 0, s, << >>, base, 0, Analytically)
  BY <1>1, ReplaysAt
<1>3. Own(s, << >>, base, 0, 0) = {} /\ ~ \E j \in 1..Len(<< >>) : << >>[j].tick = base + 0
  BY <1>0 DEF Own
<1>4. f[0] = Origin(m0)
  BY <1>2, <1>3 DEF ReplayStep
<1>5. AnalyticAdvance(m0, 0 - 0) = m0
  BY DEF AnalyticAdvance
<1> QED
  <2>1. \A k \in 0..0 : f[k] \in Past /\ f[k].t <= k /\ Aimed(f[k].m)
    BY <1>1, <1>4 DEF Origin
  <2>2. Traces(f, m0, s, << >>, base, 0)
    BY <1>0, <1>1, <2>1 DEF Traces
  <2> QED
    BY <1>4, <1>5, <2>2 DEF Origin, Standing

(* A step at which the soul has no event leads nowhere but on. *)
LEMMA StepStands ==
    ASSUME NEW p \in Past, NEW k \in Nat, p.t <= k, NEW s, NEW tail, NEW base, NEW n,
           Own(s, tail, base, n, k) = {}
    PROVE  Standing(ReplayStep(p, k, s, tail, base, n, Analytically), k) = Standing(p, k)
<1> DEFINE here == AnalyticAdvance(p.m, k - p.t)
           r == ReplayStep(p, k, s, tail, base, n, Analytically)
<1>1. r = p \/ r = [m |-> here, t |-> k]
  BY DEF ReplayStep, Advance, Analytically
<1>2. AnalyticAdvance(here, 0) = here
  BY DEF AnalyticAdvance
<1> HIDE DEF here, r
<1>3. CASE r = [m |-> here, t |-> k]
  <2>1. r.m = here /\ k - r.t = 0
    BY <1>3
  <2> QED
    BY <1>2, <2>1 DEF Standing, here, r
<1> QED
  BY <1>1, <1>3 DEF r

(* A step at which it has one puts the soul, where it was led, on the way   *)
(* the latest of them says. *)
LEMMA StepApplies ==
    ASSUME NEW p \in Past, NEW k \in Nat, p.t <= k, NEW s, NEW tail, NEW base, NEW n,
           Own(s, tail, base, n, k) # {}
    PROVE  LET r == ReplayStep(p, k, s, tail, base, n, Analytically)
               e == tail[Latest(tail, Own(s, tail, base, n, k))]
           IN  /\ r = [m |-> ApplyEvent(Standing(p, k), e), t |-> k]
               /\ Standing(r, k) = ApplyEvent(Standing(p, k), e)
<1> DEFINE r == ReplayStep(p, k, s, tail, base, n, Analytically)
           e == tail[Latest(tail, Own(s, tail, base, n, k))]
           m == ApplyEvent(Standing(p, k), e)
<1>1. r = [m |-> m, t |-> k]
  BY DEF ReplayStep, Advance, Analytically, Standing
<1>2. AnalyticAdvance(m, 0) = m
  BY DEF AnalyticAdvance
<1> HIDE DEF m, e
<1>3. r.m = m /\ k - r.t = 0
  BY <1>1
<1>4. Standing(r, k) = m
  BY <1>2, <1>3 DEF Standing
<1> QED
  BY <1>1, <1>4 DEF m, e

(* Every place of a trace is one step from the place before, and the soul   *)
(* gets on by a tick at a time. *)
PastOf(f, m0, k) == IF k = 0 THEN Origin(m0) ELSE f[k - 1]

(* Each entry of a trace is a step from the entry before it. *)
LEMMA TraceSteps ==
    ASSUME NEW n \in Nat, NEW f, NEW m0 \in Motion, NEW s, NEW tail, NEW base,
           Traces(f, m0, s, tail, base, n), NEW k \in 0..n
    PROVE  /\ PastOf(f, m0, k) \in Past /\ PastOf(f, m0, k).t <= k
           /\ f[k] = ReplayStep(PastOf(f, m0, k), k, s, tail, base, n, Analytically)
<1>1. CASE k = 0
  <2>1. f[0] = ReplayStep(Origin(m0), 0, s, tail, base, n, Analytically)
    BY ReplaysAt DEF Traces
  <2> QED
    BY <1>1, <2>1 DEF PastOf, Origin, Past
<1>2. CASE k # 0
  <2>1. k - 1 \in 0..n /\ k \in 1..n /\ k \in Nat
    BY <1>2
  <2>2. f[k - 1] \in Past /\ f[k - 1].t \in Nat /\ f[k - 1].t <= k - 1
    BY <2>1, TraceParts
  <2>3. f[k - 1].t <= k
    BY <2>1, <2>2
  <2>4. f[k] = ReplayStep(f[k - 1], k, s, tail, base, n, Analytically)
    BY <2>1, ReplaysAt DEF Traces
  <2> QED
    BY <1>2, <2>2, <2>3, <2>4 DEF PastOf
<1> QED
  BY <1>1, <1>2

(* A table whose entries are steps is a trace. *)
LEMMA TraceOf ==
    ASSUME NEW n \in Nat, NEW f, NEW m0, NEW s, NEW tail, NEW base,
           f = [k \in 0..n |-> f[k]],
           \A k \in 0..n :
               /\ f[k] \in Past /\ f[k].t <= k /\ Aimed(f[k].m)
               /\ f[k] = ReplayStep(PastOf(f, m0, k), k, s, tail, base, n, Analytically),
           \A j \in 1..Len(tail) : tail[j].soul = s => tail[j].tick <= base + n
    PROVE  Traces(f, m0, s, tail, base, n)
<1>1. f[0] = ReplayStep(Origin(m0), 0, s, tail, base, n, Analytically)
  <2>1. 0 \in 0..n
    OBVIOUS
  <2> QED
    BY <2>1 DEF PastOf
<1>2. ASSUME NEW k \in 1..n
      PROVE  f[k] = ReplayStep(f[k - 1], k, s, tail, base, n, Analytically)
  <2>1. k \in 0..n /\ k # 0
    OBVIOUS
  <2> QED
    BY <2>1 DEF PastOf
<1>3. Replays(f, m0, s, tail, base, n, Analytically)
  BY <1>1, <1>2, ReplaysOf
<1> QED
  BY <1>3 DEF Traces

(* The clock goes on by one tick: so does the soul. *)
LEMMA TraceGrows ==
    ASSUME NEW n \in Nat, NEW f, NEW m0 \in Motion, NEW s, NEW tail \in Seq(Event),
           NEW base \in Nat, Traces(f, m0, s, tail, base, n)
    PROVE  \E g : /\ Traces(g, m0, s, tail, base, n + 1)
                  /\ Standing(g[n + 1], n + 1) = Integrate(Standing(f[n], n))
<1> DEFINE last == ReplayStep(f[n], n + 1, s, tail, base, n + 1, Analytically)
           g == [k \in 0..(n + 1) |-> IF k = n + 1 THEN last ELSE f[k]]
<1>1. ASSUME NEW j \in 1..Len(tail), tail[j].soul = s
      PROVE  tail[j].tick <= base + n /\ tail[j].tick \in Nat
  BY <1>1, EventParts DEF Traces
<1>2. ASSUME NEW k \in 0..n
      PROVE  Own(s, tail, base, n + 1, k) = Own(s, tail, base, n, k)
  BY <1>1 DEF Own, Moment
<1>3. Own(s, tail, base, n + 1, n + 1) = {}
  BY <1>1 DEF Own, Moment
<1>4. f[n] \in Past /\ f[n].t \in Nat /\ f[n].t <= n /\ Aimed(f[n].m) /\ f[n].m \in Motion
  BY TraceParts
<1>5. n + 1 \in Nat /\ f[n].t <= n + 1 /\ (n + 1) - f[n].t \in Nat /\ n - f[n].t \in Nat
      /\ (n + 1) - f[n].t = (n - f[n].t) + 1
  BY <1>4
<1>6. last \in Past /\ last.t <= n + 1
  BY <1>4, <1>5, ReplayStepTyped
<1>7. Standing(last, n + 1) = Standing(f[n], n + 1)
  BY <1>3, <1>4, <1>5, StepStands
<1>8. Standing(f[n], n + 1) = Integrate(Standing(f[n], n))
  <2>1. Integrate(AnalyticAdvance(f[n].m, n - f[n].t))
          = AnalyticAdvance(f[n].m, (n - f[n].t) + 1)
    BY <1>4, <1>5, AnalyticSteps
  <2> QED
    BY <1>5, <2>1 DEF Standing
<1>9. Aimed(last.m)
  <2> DEFINE here == AnalyticAdvance(f[n].m, (n + 1) - f[n].t)
  <2>1. Aimed(here)
    BY <1>4, <1>5, AnalyticSteps
  <2>2. last = f[n] \/ last = [m |-> here, t |-> n + 1]
    BY <1>3 DEF ReplayStep, Advance, Analytically
  <2> HIDE DEF here, last
  <2> QED
    BY <1>4, <2>1, <2>2
<1>10. ASSUME NEW k \in 0..n
       PROVE  /\ g[k] = f[k] /\ PastOf(g, m0, k) = PastOf(f, m0, k)
              /\ f[k] = ReplayStep(PastOf(f, m0, k), k, s, tail, base, n + 1, Analytically)
  <2>1. g[k] = f[k]
    OBVIOUS
  <2>2. PastOf(g, m0, k) = PastOf(f, m0, k)
    <3>1. k # 0 => k - 1 \in 0..(n + 1) /\ k - 1 # n + 1
      OBVIOUS
    <3> QED
      BY <3>1 DEF PastOf
  <2>3. f[k] = ReplayStep(PastOf(f, m0, k), k, s, tail, base, n, Analytically)
    BY TraceSteps
  <2> QED
    BY <2>1, <2>2, <2>3, <1>2 DEF ReplayStep
<1>11. g[n + 1] = last /\ PastOf(g, m0, n + 1) = f[n]
  BY DEF PastOf
<1>12. g = [k \in 0..(n + 1) |-> g[k]]
  OBVIOUS
<1> HIDE DEF g
<1>13. ASSUME NEW k \in 0..(n + 1)
       PROVE  /\ g[k] \in Past /\ g[k].t <= k /\ Aimed(g[k].m)
              /\ g[k] = ReplayStep(PastOf(g, m0, k), k, s, tail, base, n + 1, Analytically)
  <2>1. CASE k = n + 1
    BY <2>1, <1>6, <1>9, <1>11
  <2>2. CASE k \in 0..n
    BY <2>2, <1>10, TraceParts
  <2> QED
    BY <2>1, <2>2
<1>14. \A j \in 1..Len(tail) : tail[j].soul = s => tail[j].tick <= base + (n + 1)
  BY <1>1
<1>15. Traces(g, m0, s, tail, base, n + 1)
  <2> HIDE DEF last
  <2> QED
    BY <1>5, <1>12, <1>13, <1>14, TraceOf
<1> QED
  BY <1>7, <1>8, <1>11, <1>15

(* A later event leaves the log of an earlier tick as they are. *)
LEMMA AppendedParts ==
    ASSUME NEW tail \in Seq(Event), NEW e \in Event
    PROVE  /\ Append(tail, e) \in Seq(Event)
           /\ Len(Append(tail, e)) = Len(tail) + 1
           /\ \A j \in 1..Len(tail) : Append(tail, e)[j] = tail[j]
           /\ Append(tail, e)[Len(tail) + 1] = e
           /\ Len(tail) \in Nat
OBVIOUS

(* An event that is appended is no member of an older set of log. *)
LEMMA LatestKept ==
    ASSUME NEW tail \in Seq(Event), NEW e \in Event,
           NEW S, S \subseteq 1..Len(tail), S # {}
    PROVE  /\ Latest(Append(tail, e), S) = Latest(tail, S)
           /\ Append(tail, e)[Latest(tail, S)] = tail[Latest(tail, S)]
<1> DEFINE new == Append(tail, e)
           l == Latest(tail, S)
<1>1. l \in S /\ \A i \in S : UpTo(tail, i, l)
  BY LatestIn
<1>2. \A i \in S : new[i] = tail[i]
  BY AppendedParts
<1>3. S \subseteq 1..Len(new) /\ new \in Seq(Event)
  BY AppendedParts
<1> HIDE DEF new, l
<1>4. \A i \in S : UpTo(new, i, l)
  BY <1>1, <1>2 DEF UpTo
<1>5. Latest(new, S) = l
  BY <1>1, <1>3, <1>4, LatestIs
<1> QED
  BY <1>1, <1>2, <1>5 DEF new, l

(* An event of now is one of the log of now. *)
LEMMA OwnAppended ==
    ASSUME NEW tail \in Seq(Event), NEW e \in Event, NEW s, NEW base \in Nat,
           NEW n \in Nat, e.tick = base + n, NEW k \in 0..n
    PROVE  /\ k = n /\ e.soul = s => Own(s, Append(tail, e), base, n, k)
                                          = Own(s, tail, base, n, k) \cup {Len(tail) + 1}
           /\ k # n \/ e.soul # s => Own(s, Append(tail, e), base, n, k)
                                          = Own(s, tail, base, n, k)
<1> DEFINE new == Append(tail, e)
           in(t, j) == t[j].soul = s /\ Moment(t[j], base, n) = k
<1>1. Moment(e, base, n) = n
  BY DEF Moment
<1>2. \A j \in 1..Len(tail) : new[j] = tail[j]
  BY AppendedParts
<1>3. new[Len(tail) + 1] = e /\ 1..Len(new) = (1..Len(tail)) \cup {Len(tail) + 1}
  BY AppendedParts
<1>4. Len(tail) + 1 \notin 1..Len(tail)
  BY AppendedParts
<1>5. Own(s, new, base, n, k) = {j \in 1..Len(new) : in(new, j)}
  BY DEF Own
<1>6. Own(s, tail, base, n, k) = {j \in 1..Len(tail) : in(tail, j)}
  BY DEF Own
<1>7. \A j \in 1..Len(tail) : in(new, j) <=> in(tail, j)
  BY <1>2
<1>8. in(new, Len(tail) + 1) <=> k = n /\ e.soul = s
  BY <1>1, <1>3
<1> HIDE DEF new, in
<1> QED
  BY <1>3, <1>5, <1>6, <1>7, <1>8 DEF new

(* An event of another soul is not. *)
LEMMA OwnOfOthers ==
    ASSUME NEW tail \in Seq(Event), NEW e \in Event, NEW s, NEW base \in Nat,
           NEW n \in Nat, e.tick = base + n, e.soul # s
    PROVE  Own(s, Append(tail, e), base, n, n) = Own(s, tail, base, n, n)
<1>1. n \in 0..n
  OBVIOUS
<1> QED
  BY <1>1, OwnAppended

(* An event of now does not change what was replayed before. *)
LEMMA StepKept ==
    ASSUME NEW tail \in Seq(Event), NEW e \in Event, NEW s, NEW base \in Nat,
           NEW n \in Nat, e.tick = base + n, NEW k \in 0..n, k # n, NEW p
    PROVE  ReplayStep(p, k, s, Append(tail, e), base, n, Analytically)
             = ReplayStep(p, k, s, tail, base, n, Analytically)
<1> DEFINE new == Append(tail, e)
           own == Own(s, tail, base, n, k)
<1>1. Own(s, new, base, n, k) = own
  BY OwnAppended
<1>2. own \subseteq 1..Len(tail)
  BY DEF Own
<1>3. own # {} => new[Latest(new, own)] = tail[Latest(tail, own)]
  <2> HIDE DEF own
  <2> QED
    BY <1>2, LatestKept
<1>4. (\E j \in 1..Len(new) : new[j].tick = base + k)
        <=> (\E j \in 1..Len(tail) : tail[j].tick = base + k)
  <2>1. new[Len(tail) + 1].tick # base + k
    BY AppendedParts
  <2>2. 1..Len(new) = (1..Len(tail)) \cup {Len(tail) + 1}
    BY AppendedParts
  <2>3. \A j \in 1..Len(tail) : new[j] = tail[j]
    BY AppendedParts
  <2> HIDE DEF new
  <2> QED
    BY <2>1, <2>2, <2>3
<1> HIDE DEF new, own
<1> QED
  BY <1>1, <1>3, <1>4 DEF ReplayStep, new, own

(* The same for another soul's event of now, and for its own. *)
LEMMA StepAppended ==
    ASSUME NEW tail \in Seq(Event), NEW e \in Event, NEW s, NEW base \in Nat,
           NEW n \in Nat, e.tick = base + n, NEW p \in Past, p.t <= n,
           \A j \in 1..Len(tail) : tail[j].soul = s => tail[j].tick <= base + n,
           NEW r, r = ReplayStep(p, n, s, tail, base, n, Analytically), Aimed(r.m), Aimed(Standing(r, n)),
           e.soul = s => Aimed(ApplyEvent(Standing(r, n), e))
    PROVE  LET q == ReplayStep(p, n, s, Append(tail, e), base, n, Analytically)
           IN  /\ q \in Past /\ q.t <= n /\ Aimed(q.m)
               /\ Standing(q, n) = IF e.soul = s THEN ApplyEvent(Standing(r, n), e)
                                   ELSE Standing(r, n)
<1> DEFINE new == Append(tail, e)
           own == Own(s, tail, base, n, n)
           q == ReplayStep(p, n, s, new, base, n, Analytically)
           here == Standing(p, n)
<1>0. own \subseteq 1..Len(tail)
  BY DEF Own
<1>1. new \in Seq(Event) /\ Len(tail) \in Nat
  BY AppendedParts
<1>2. q \in Past /\ q.t <= n
  <2> HIDE DEF new
  <2> QED
    BY <1>1, ReplayStepTyped
<1>3. here \in Motion
  <2>1. n - p.t \in Nat /\ p.m \in Motion
    BY PastParts
  <2> QED
    BY <2>1, AnalyticTyped DEF Standing
<1>4. CASE e.soul = s
  <2> DEFINE l == Len(tail) + 1
  <2>1. Own(s, new, base, n, n) = own \cup {l}
    BY <1>4, OwnAppended
  <2>2. Latest(new, own \cup {l}) = l
    <3>1. own \cup {l} \subseteq 1..Len(new)
      BY <1>0, AppendedParts
    <3>2. \A i \in own : new[i] = tail[i] /\ tail[i].soul = s /\ i \in 1..Len(tail)
      BY AppendedParts DEF Own
    <3>3. \A i \in own : new[i].tick <= base + n /\ new[i].tick \in Nat /\ i <= l
      BY <1>1, <3>2, EventParts
    <3>4. new[l].tick = base + n
      BY AppendedParts
    <3>5. \A i \in own \cup {l} : UpTo(new, i, l)
      <4>1. base + n \in Int /\ l \in Int
        BY <1>1
      <4> HIDE DEF new, own, l
      <4>2. ASSUME NEW i \in own PROVE UpTo(new, i, l)
        <5>1. new[i].tick < new[l].tick \/ new[i].tick = new[l].tick
          BY <3>3, <3>4, <4>1
        <5> QED
          BY <3>3, <5>1 DEF UpTo
      <4>3. UpTo(new, l, l)
        BY <4>1 DEF UpTo
      <4> QED
        BY <4>2, <4>3
    <3>6. l \in own \cup {l}
      OBVIOUS
    <3> HIDE DEF new, own, l
    <3> QED
      BY <1>1, <3>1, <3>5, <3>6, LatestIs
  <2>3. new[l] = e
    BY AppendedParts
  <2>4. q = [m |-> ApplyEvent(here, e), t |-> n] /\ Standing(q, n) = ApplyEvent(here, e)
    <3>1. Own(s, new, base, n, n) # {}
      BY <2>1
    <3>2. new[Latest(new, Own(s, new, base, n, n))] = e
      BY <2>1, <2>2, <2>3
    <3> HIDE DEF new, own, l
    <3> QED
      BY <3>1, <3>2, StepApplies DEF here, q
  <2>5. ApplyEvent(here, e) = ApplyEvent(Standing(r, n), e)
    <3>1. CASE own = {}
      BY <3>1, StepStands
    <3>2. CASE own # {}
      <4> DEFINE d == tail[Latest(tail, own)]
      <4>1. Standing(r, n) = ApplyEvent(here, d)
        BY <3>2, StepApplies
      <4>2. d \in Event
        <5> HIDE DEF own
        <5> QED
          BY <1>0, <3>2, LatestIn, EventParts
      <4>3. ApplyEvent(here, d) \in Motion /\ ApplyEvent(here, d).at = here.at
        <5> HIDE DEF d, here
        <5> QED
          BY <1>3, <4>2, AppliedTyped
      <4> HIDE DEF d, here
      <4>4. ApplyEvent(ApplyEvent(here, d), e)
              = [at |-> ApplyEvent(here, d).at, vel |-> e.vel, goal |-> e.goal]
        BY <4>3, AppliedTyped
      <4>5. ApplyEvent(here, e) = [at |-> here.at, vel |-> e.vel, goal |-> e.goal]
        BY <1>3, AppliedTyped
      <4> QED
        BY <4>1, <4>3, <4>4, <4>5
    <3> QED
      BY <3>1, <3>2
  <2> HIDE DEF q, here
  <2> QED
    BY <1>2, <1>4, <2>4, <2>5 DEF q, new
<1>5. CASE e.soul # s
  <2>1. Own(s, new, base, n, n) = own
    BY <1>5, OwnOfOthers
  <2>2. CASE own # {}
    <3>1. new[Latest(new, own)] = tail[Latest(tail, own)]
      <4> HIDE DEF own
      <4> QED
        BY <1>0, <2>2, LatestKept
    <3>2. q = r
      <4> HIDE DEF own, new
      <4> QED
        BY <2>1, <2>2, <3>1 DEF ReplayStep, own, q
    <3> HIDE DEF q
    <3> QED
      BY <1>2, <1>5, <3>2 DEF q, new
  <2>3. CASE own = {}
    <3>1. Standing(q, n) = here /\ Standing(r, n) = here
      <4> HIDE DEF new
      <4> QED
        BY <2>1, <2>3, StepStands
    <3>2. \E j \in 1..Len(new) : new[j].tick = base + n
      BY AppendedParts
    <3>3. q = [m |-> here, t |-> n]
      <4> HIDE DEF own, new
      <4> QED
        BY <2>1, <2>3, <3>2 DEF ReplayStep, own, q, Advance, Analytically, Standing
    <3> HIDE DEF q, here
    <3> QED
      BY <1>2, <1>5, <3>1, <3>3 DEF q, new, here
  <2> QED
    BY <2>2, <2>3
<1> QED
  BY <1>4, <1>5

(* A move that is adjudicated now. *)
LEMMA TraceAppends ==
    ASSUME NEW n \in Nat, NEW f, NEW m0 \in Motion, NEW s, NEW tail \in Seq(Event),
           NEW base \in Nat, Traces(f, m0, s, tail, base, n),
           NEW e \in Event, e.tick = base + n,
           e.soul = s => Aimed(ApplyEvent(Standing(f[n], n), e))
    PROVE  \E g : /\ Traces(g, m0, s, Append(tail, e), base, n)
                  /\ Standing(g[n], n) = IF e.soul = s THEN ApplyEvent(Standing(f[n], n), e)
                                         ELSE Standing(f[n], n)
<1> DEFINE new == Append(tail, e)
           p == PastOf(f, m0, n)
           q == ReplayStep(p, n, s, new, base, n, Analytically)
           g == [k \in 0..n |-> IF k = n THEN q ELSE f[k]]
<1>1. /\ p \in Past /\ p.t <= n
      /\ f[n] = ReplayStep(p, n, s, tail, base, n, Analytically)
  BY TraceSteps
<1>2. Aimed(f[n].m) /\ Aimed(Standing(f[n], n))
  <2>1. n \in 0..n
    OBVIOUS
  <2>2. Aimed(f[n].m)
    BY <2>1, TraceParts
  <2>3. Aimed(Standing(f[n], n))
    BY TraceTells
  <2> QED
    BY <2>2, <2>3
<1>3. \A j \in 1..Len(tail) : tail[j].soul = s => tail[j].tick <= base + n
  BY DEF Traces
<1>4. /\ q \in Past /\ q.t <= n /\ Aimed(q.m)
      /\ Standing(q, n) = IF e.soul = s THEN ApplyEvent(Standing(f[n], n), e)
                          ELSE Standing(f[n], n)
  <2> DEFINE r == f[n]
  <2> HIDE DEF p, r
  <2> QED
    BY <1>1, <1>2, <1>3, StepAppended DEF q, r
<1>5. ASSUME NEW k \in 0..n PROVE PastOf(g, m0, k) = PastOf(f, m0, k)
  <2>1. k # 0 => k - 1 \in 0..n /\ k - 1 # n
    OBVIOUS
  <2> QED
    BY <2>1 DEF PastOf
<1>6. g[n] = q /\ (\A k \in 0..n : k # n => g[k] = f[k]) /\ g = [k \in 0..n |-> g[k]]
  OBVIOUS
<1> HIDE DEF g, q
<1>7. ASSUME NEW k \in 0..n
      PROVE  /\ g[k] \in Past /\ g[k].t <= k /\ Aimed(g[k].m)
             /\ g[k] = ReplayStep(PastOf(g, m0, k), k, s, new, base, n, Analytically)
  <2>1. CASE k = n
    BY <2>1, <1>4, <1>5, <1>6 DEF q
  <2>2. CASE k # n
    <3>1. f[k] = ReplayStep(PastOf(f, m0, k), k, s, tail, base, n, Analytically)
      BY TraceSteps
    <3>2. f[k] = ReplayStep(PastOf(f, m0, k), k, s, new, base, n, Analytically)
      BY <2>2, <3>1, StepKept
    <3>3. f[k] \in Past /\ f[k].t <= k /\ Aimed(f[k].m)
      BY TraceParts
    <3> HIDE DEF new
    <3> QED
      BY <2>2, <3>2, <3>3, <1>5, <1>6
  <2> QED
    BY <2>1, <2>2
<1>8. \A j \in 1..Len(new) : new[j].soul = s => new[j].tick <= base + n
  <2>1. 1..Len(new) = (1..Len(tail)) \cup {Len(tail) + 1} /\ new[Len(tail) + 1] = e
    BY AppendedParts
  <2>2. \A j \in 1..Len(tail) : new[j] = tail[j]
    BY AppendedParts
  <2>3. e.tick <= base + n
    OBVIOUS
  <2> HIDE DEF new
  <2> QED
    BY <1>3, <2>1, <2>2, <2>3
<1>9. Traces(g, m0, s, new, base, n)
  <2> HIDE DEF new
  <2> QED
    BY <1>6, <1>7, <1>8, TraceOf
<1> QED
  BY <1>4, <1>6, <1>9
-----------------------------------------------------------------------------
(* From a snapshot and the journal behind it, the soul is replayed to m at  *)
(* time t. *)
Tracked(shot, log, t, s, m) ==
    \E f : /\ Traces(f, shot.motion[s], s, SubSeq(log, shot.seq + 1, Len(log)),
                     shot.tick, t - shot.at)
           /\ Standing(f[t - shot.at], t - shot.at) = m

(* A snapshot, and the journal behind it. *)
Behind(shot, log, t) ==
    shot \in Shot /\ log \in Seq(Event) /\ shot.seq <= Len(log)
        /\ t \in Nat /\ shot.at <= t

(* The fields of a snapshot. *)
LEMMA ShotParts ==
    ASSUME NEW shot \in Shot, NEW s \in Souls
    PROVE  /\ shot.tick \in Nat /\ shot.seq \in Nat /\ shot.at \in Nat
           /\ shot.motion \in [Souls -> Motion] /\ shot.motion[s] \in Motion
BY DEF Shot

(* The fields of a snapshot that the journal has gone on behind. *)
LEMMA BehindParts ==
    ASSUME NEW shot, NEW log, NEW t, Behind(shot, log, t), NEW s \in Souls
    PROVE  /\ shot.tick \in Nat /\ shot.seq \in Nat /\ shot.at \in Nat
           /\ shot.motion[s] \in Motion /\ t - shot.at \in Nat
           /\ SubSeq(log, shot.seq + 1, Len(log)) \in Seq(Event)
<1>1. /\ shot.tick \in Nat /\ shot.seq \in Nat /\ shot.at \in Nat
      /\ shot.motion[s] \in Motion /\ t \in Nat /\ shot.at <= t
  BY ShotParts DEF Behind
<1>2. log \in Seq(Event)
  BY DEF Behind
<1>3. \A i \in (shot.seq + 1)..Len(log) : log[i] \in Event
  BY <1>1, <1>2
<1>4. shot.seq + 1 \in Int /\ Len(log) \in Int
  BY <1>1, <1>2
<1>5. SubSeq(log, shot.seq + 1, Len(log)) \in Seq(Event)
  BY <1>3, <1>4, SubSeqProperties
<1> QED
  BY <1>1, <1>5

(* The replay of a tracked soul, per tick or in closed form, gives its motion. *)
LEMMA TrackedTells ==
    ASSUME NEW shot, NEW log, NEW t, Behind(shot, log, t), NEW s \in Souls, NEW m,
           Tracked(shot, log, t, s, m), NEW exact
    PROVE  /\ ReplayTail(shot.motion[s], s, SubSeq(log, shot.seq + 1, Len(log)),
                         shot.tick, t - shot.at, exact) = m
           /\ m \in Motion /\ Aimed(m)
<1> DEFINE m0 == shot.motion[s]
           tail == SubSeq(log, shot.seq + 1, Len(log))
           base == shot.tick
           n == t - shot.at
<1>1. n \in Nat /\ m0 \in Motion
  BY BehindParts
<1>2. PICK f : Traces(f, m0, s, tail, base, n) /\ Standing(f[n], n) = m
  BY DEF Tracked
<1> HIDE DEF m0, tail, base, n
<1>3. /\ ReplayTail(m0, s, tail, base, n, exact) = Standing(f[n], n)
      /\ Standing(f[n], n) \in Motion /\ Aimed(Standing(f[n], n))
  BY <1>1, <1>2, TraceTells
<1> QED
  BY <1>2, <1>3 DEF m0, tail, base, n

(* The clock goes on. *)
LEMMA TrackedTick ==
    ASSUME NEW shot, NEW log, NEW t, Behind(shot, log, t), NEW s \in Souls, NEW m,
           Tracked(shot, log, t, s, m)
    PROVE  Tracked(shot, log, t + 1, s, Integrate(m)) /\ Behind(shot, log, t + 1)
<1> DEFINE m0 == shot.motion[s]
           tail == SubSeq(log, shot.seq + 1, Len(log))
           base == shot.tick
           n == t - shot.at
<1>1. n \in Nat /\ m0 \in Motion /\ tail \in Seq(Event) /\ base \in Nat
  BY BehindParts
<1>2. PICK f : Traces(f, m0, s, tail, base, n) /\ Standing(f[n], n) = m
  BY DEF Tracked
<1>3. shot.at \in Nat /\ t \in Nat /\ shot.at <= t
  BY BehindParts DEF Behind
<1>4. (t + 1) - shot.at = n + 1
  BY <1>3
<1> HIDE DEF m0, tail, base, n
<1>5. PICK g : /\ Traces(g, m0, s, tail, base, n + 1)
               /\ Standing(g[n + 1], n + 1) = Integrate(Standing(f[n], n))
  BY <1>1, <1>2, TraceGrows
<1>6. Tracked(shot, log, t + 1, s, Integrate(m))
  <2>1. Standing(g[n + 1], n + 1) = Integrate(m)
    BY <1>2, <1>5
  <2>2. Traces(g, m0, s, tail, base, (t + 1) - shot.at)
    BY <1>4, <1>5
  <2>3. Standing(g[(t + 1) - shot.at], (t + 1) - shot.at) = Integrate(m)
    BY <1>4, <2>1
  <2> QED
    BY <2>2, <2>3 DEF Tracked, m0, tail, base
<1>7. Behind(shot, log, t + 1)
  BY <1>3 DEF Behind
<1> QED
  BY <1>6, <1>7

(* What follows an entry of a journal that is appended to. *)
LEMMA SubSeqAppended ==
    ASSUME NEW log \in Seq(Event), NEW e \in Event, NEW q \in Nat, q <= Len(log)
    PROVE  SubSeq(Append(log, e), q + 1, Len(Append(log, e)))
             = Append(SubSeq(log, q + 1, Len(log)), e)
<1> DEFINE new == Append(log, e)
           l == Len(log)
           a == SubSeq(new, q + 1, Len(new))
           b == SubSeq(log, q + 1, l)
<1>1. /\ new \in Seq(Event) /\ Len(new) = l + 1 /\ l \in Nat
      /\ \A i \in 1..l : new[i] = log[i]
      /\ new[l + 1] = e
  OBVIOUS
<1> HIDE DEF new
<1>2. /\ a \in Seq(Event) /\ Len(a) = l + 1 - q
      /\ \A i \in 1..(l + 1 - q) : a[i] = new[q + i]
  <2>1. \A i \in (q + 1)..Len(new) : new[i] \in Event
    BY <1>1
  <2>2. q + 1 \in Int /\ Len(new) \in Int /\ q + 1 <= Len(new)
    BY <1>1
  <2>3. /\ a \in Seq(Event)
        /\ Len(a) = IF q + 1 <= Len(new) THEN Len(new) - (q + 1) + 1 ELSE 0
        /\ \A i \in 1..(Len(new) - (q + 1) + 1) : a[i] = new[(q + 1) + i - 1]
    BY <2>1, <2>2, SubSeqProperties
  <2>4. Len(new) - (q + 1) + 1 = l + 1 - q
    BY <1>1
  <2> HIDE DEF a
  <2>5. Len(a) = l + 1 - q
    BY <2>2, <2>3, <2>4
  <2>6. \A i \in 1..(l + 1 - q) : a[i] = new[(q + 1) + i - 1] /\ (q + 1) + i - 1 = q + i
    BY <2>3, <2>4
  <2> QED
    BY <2>3, <2>5, <2>6
<1>3. /\ b \in Seq(Event) /\ Len(b) = l - q
      /\ \A i \in 1..(l - q) : b[i] = log[q + i]
  <2>1. \A i \in (q + 1)..l : log[i] \in Event
    BY <1>1
  <2>2. q + 1 \in Int /\ l \in Int
    BY <1>1
  <2>3. /\ b \in Seq(Event)
        /\ Len(b) = IF q + 1 <= l THEN l - (q + 1) + 1 ELSE 0
        /\ \A i \in 1..(l - (q + 1) + 1) : b[i] = log[(q + 1) + i - 1]
    BY <2>1, <2>2, SubSeqProperties
  <2> HIDE DEF b
  <2>4. Len(b) = l - q
    BY <2>2, <2>3, <1>1
  <2>5. ASSUME NEW i \in 1..(l - q) PROVE b[i] = log[q + i]
    <3>1. i \in 1..(l - (q + 1) + 1) /\ (q + 1) + i - 1 = q + i
      BY <2>2, <1>1
    <3> QED
      BY <2>3, <3>1
  <2> QED
    BY <2>3, <2>4, <2>5
<1> HIDE DEF a, b, l
<1>4. /\ Append(b, e) \in Seq(Event) /\ Len(Append(b, e)) = Len(a)
      /\ \A i \in 1..Len(b) : Append(b, e)[i] = b[i]
      /\ Append(b, e)[Len(b) + 1] = e
  <2>1. Len(a) = Len(b) + 1
    BY <1>1, <1>2, <1>3
  <2>2. b \in Seq(Event)
    BY <1>3
  <2> QED
    BY <2>1, <2>2, AppendedParts
<1>5. ASSUME NEW i \in 1..Len(a) PROVE a[i] = Append(b, e)[i]
  <2>1. i \in 1..(l + 1 - q) /\ i \in Nat
    BY <1>1, <1>2
  <2>2. CASE i = l + 1 - q
    <3>1. i = Len(b) + 1 /\ q + i = l + 1
      BY <1>1, <1>3, <2>2
    <3> QED
      BY <1>1, <1>2, <1>4, <2>1, <3>1
  <2>3. CASE i # l + 1 - q
    <3>1. i \in 1..(l - q) /\ q + i \in 1..l
      BY <1>1, <2>1, <2>3
    <3> QED
      BY <1>1, <1>2, <1>3, <1>4, <2>1, <3>1
  <2> QED
    BY <2>2, <2>3
<1>6. a = Append(b, e)
  BY <1>2, <1>4, <1>5, SeqEqual
<1> QED
  BY <1>6 DEF a, b, l, new

(* The journal goes on. *)
LEMMA TrackedMove ==
    ASSUME NEW shot, NEW log, NEW t, Behind(shot, log, t), NEW s \in Souls, NEW m,
           Tracked(shot, log, t, s, m),
           NEW e \in Event, e.tick = shot.tick + (t - shot.at),
           e.soul = s => Aimed(ApplyEvent(m, e))
    PROVE  /\ Tracked(shot, Append(log, e), t, s,
                      IF e.soul = s THEN ApplyEvent(m, e) ELSE m)
           /\ Behind(shot, Append(log, e), t)
<1> DEFINE m0 == shot.motion[s]
           tail == SubSeq(log, shot.seq + 1, Len(log))
           new == Append(log, e)
           base == shot.tick
           n == t - shot.at
<1>1. n \in Nat /\ m0 \in Motion /\ tail \in Seq(Event) /\ base \in Nat
  BY BehindParts
<1>2. PICK f : Traces(f, m0, s, tail, base, n) /\ Standing(f[n], n) = m
  BY DEF Tracked
<1>3. shot.seq \in Nat /\ log \in Seq(Event) /\ shot.seq <= Len(log)
  BY BehindParts DEF Behind
<1>4. SubSeq(new, shot.seq + 1, Len(new)) = Append(tail, e)
  BY <1>3, SubSeqAppended
<1>5. Behind(shot, new, t)
  BY <1>3 DEF Behind
<1> HIDE DEF m0, tail, base, n, new
<1>6. PICK g : /\ Traces(g, m0, s, Append(tail, e), base, n)
               /\ Standing(g[n], n) = IF e.soul = s THEN ApplyEvent(m, e) ELSE m
  <2>1. e.tick = base + n
    BY DEF base, n
  <2> QED
    BY <1>1, <1>2, <2>1, TraceAppends
<1>7. Tracked(shot, new, t, s, IF e.soul = s THEN ApplyEvent(m, e) ELSE m)
  <2> DEFINE x == IF e.soul = s THEN ApplyEvent(m, e) ELSE m
  <2>1. Traces(g, m0, s, SubSeq(new, shot.seq + 1, Len(new)), base, n) /\ Standing(g[n], n) = x
    BY <1>4, <1>6
  <2> HIDE DEF x
  <2>2. Tracked(shot, new, t, s, x)
    BY <2>1 DEF Tracked, m0, base, n
  <2> QED
    BY <2>2 DEF x
<1> QED
  BY <1>5, <1>7 DEF new

(* A snapshot is taken. *)
LEMMA TrackedStart ==
    ASSUME NEW shot \in Shot, NEW log \in Seq(Event), shot.seq = Len(log),
           NEW s \in Souls, Aimed(shot.motion[s])
    PROVE  /\ Tracked(shot, log, shot.at, s, shot.motion[s])
           /\ Behind(shot, log, shot.at)
<1>1. /\ shot.at \in Nat /\ shot.seq \in Nat /\ shot.tick \in Nat
      /\ shot.motion[s] \in Motion
  BY ShotParts
<1>2. Behind(shot, log, shot.at)
  BY <1>1 DEF Behind
<1>3. SubSeq(log, shot.seq + 1, Len(log)) = << >>
  BY <1>1, SubSeqEmpty
<1>4. shot.at - shot.at = 0
  BY <1>1
<1>5. PICK f : /\ Traces(f, shot.motion[s], s, << >>, shot.tick, 0)
               /\ Standing(f[0], 0) = shot.motion[s]
  BY <1>1, TraceStarts
<1> QED
  BY <1>2, <1>3, <1>4, <1>5 DEF Tracked

(* A boot whose replay does not go astray. *)
LEMMA TrackedBoot ==
    ASSUME NEW shot, NEW log, NEW t, Behind(shot, log, t), NEW s \in Souls, NEW exact,
           ~ Misled(shot.motion[s], s, SubSeq(log, shot.seq + 1, Len(log)),
                    shot.tick, t - shot.at)
    PROVE  Tracked(shot, log, t, s,
                   ReplayTail(shot.motion[s], s, SubSeq(log, shot.seq + 1, Len(log)),
                              shot.tick, t - shot.at, exact))
<1> DEFINE m0 == shot.motion[s]
           tail == SubSeq(log, shot.seq + 1, Len(log))
           base == shot.tick
           n == t - shot.at
<1>1. n \in Nat /\ m0 \in Motion /\ tail \in Seq(Event) /\ base \in Nat
  BY BehindParts
<1>2. ~ Misled(m0, s, tail, base, n)
  OBVIOUS
<1> HIDE DEF m0, tail, base, n
<1>3. PICK f : Traces(f, m0, s, tail, base, n)
  BY <1>1, <1>2, NotMisledTraces
<1>4. ReplayTail(m0, s, tail, base, n, exact) = Standing(f[n], n)
  BY <1>1, <1>3, TraceTells
<1> QED
  BY <1>3, <1>4 DEF Tracked, m0, tail, base, n

(* What is counted. *)
Tally == [moves : Nat, trouble : Nat, crashes : Nat, forgiven : Nat]

-----------------------------------------------------------------------------
RecoveryOK ==
    /\ RecoveryTypeOK
    /\ journal \in Seq(Event)
    /\ snaps \in Seq(Shot)
    /\ mark \in [at : Nat, tick : Nat]
    /\ tally \in Tally
    /\ mark.at <= now
    /\ \A i \in 1..Len(snaps) : snaps[i].at <= now /\ snaps[i].seq <= Len(journal)

(* The variables, one by one. *)
LEMMA RecoveryParts ==
    ASSUME RecoveryOK
    PROVE  /\ disk \in [Souls -> Motion]
           /\ dirty \in [Souls -> Motion \cup {Clean}]
           /\ funded \in [Souls -> BOOLEAN]
           /\ fallen \in [Souls -> BOOLEAN] /\ barred \subseteq Souls
           /\ aged \in [Souls -> Nat]
           /\ tick \in Nat /\ sinceFlush \in Nat /\ lastSnap \in Nat /\ now \in Nat
           /\ phase \in {"pump", "flush", "snapshot"}
           /\ up \in BOOLEAN /\ looping \in BOOLEAN
           /\ should \in [Souls -> Motion]
           /\ offRecord \subseteq Souls
           /\ journal \in Seq(Event) /\ snaps \in Seq(Shot)
           /\ mark \in [at : Nat, tick : Nat] /\ mark.at \in Nat /\ mark.tick \in Nat
           /\ tally \in Tally
BY DEF RecoveryOK, RecoveryTypeOK

(* What the overlay shows is a motion. *)
LEMMA ViewTyped ==
    ASSUME RecoveryOK, NEW s \in Souls
    PROVE  View(s) \in Motion
<1>1. disk[s] \in Motion /\ dirty[s] \in Motion \cup {Clean}
  BY RecoveryParts
<1> QED
  BY <1>1 DEF View

(* What the pump writes is motion of one soul. *)
LEMMA PumpTyped ==
    ASSUME RecoveryOK,
           UNCHANGED <<ram, snaps, mark, aged, now, should>>,
           disk' \in [Souls -> Motion], dirty' \in [Souls -> Motion \cup {Clean}],
           funded' \in [Souls -> BOOLEAN], fallen' \in [Souls -> BOOLEAN],
           barred' \subseteq Souls, journal' \in Seq(Event), Len(journal) <= Len(journal'),
           offRecord' \subseteq Souls,
           tally' \in Tally
    PROVE  RecoveryOK'
<1>1. /\ tick' = tick /\ phase' = phase /\ sinceFlush' = sinceFlush
      /\ lastSnap' = lastSnap /\ up' = up /\ looping' = looping
      /\ snaps' = snaps /\ mark' = mark /\ aged' = aged /\ now' = now /\ should' = should
  BY DEF ram
<1>2. RecoveryTypeOK'
  <2>1. RecoveryTypeOK
    BY DEF RecoveryOK
  <2> QED
    BY <1>1, <2>1 DEF RecoveryTypeOK
<1>3. \A i \in 1..Len(snaps) : snaps[i].at <= now /\ snaps[i].seq <= Len(journal')
  <2>1. \A i \in 1..Len(snaps) : snaps[i].at <= now /\ snaps[i].seq <= Len(journal)
    BY DEF RecoveryOK
  <2>2. \A i \in 1..Len(snaps) : snaps[i].seq \in Nat
    <3>1. \A i \in 1..Len(snaps) : snaps[i] \in Shot
      BY RecoveryParts
    <3> QED
      BY <3>1 DEF Shot
  <2>3. Len(journal) \in Nat /\ Len(journal') \in Nat
    BY RecoveryParts
  <2>4. ASSUME NEW i \in 1..Len(snaps) PROVE snaps[i].seq <= Len(journal')
    <3>1. snaps[i].seq <= Len(journal) /\ snaps[i].seq \in Nat
      BY <2>1, <2>2
    <3> QED
      BY <2>3, <3>1
  <2> QED
    BY <2>1, <2>4
<1> QED
  BY <1>1, <1>2, <1>3 DEF RecoveryOK

(* What is not journaled takes the soul off the record. *)
LEMMA UnrecordedTyped ==
    ASSUME RecoveryOK, NEW s \in Souls, Unrecorded(s)
    PROVE  /\ tally' \in Tally
           /\ offRecord' \subseteq Souls /\ offRecord \subseteq offRecord' /\ s \in offRecord'
<1>1. tally \in Tally /\ offRecord \subseteq Souls
  BY RecoveryParts
<1>2. tally' = [tally EXCEPT !.trouble = @ + 1] /\ offRecord' = offRecord \cup {s}
  BY DEF Unrecorded
<1> QED
  BY <1>1, <1>2 DEF Tally

(* Two columns of a row. *)
LEMMA RowTyped ==
    ASSUME RecoveryOK, NEW s \in Souls, NEW v \in {-1, 0, 1},
           NEW g \in Road \cup {NoGoal}
    PROVE  [disk EXCEPT ![s].vel = v, ![s].goal = g] \in [Souls -> Motion]
<1>1. disk \in [Souls -> Motion]
  BY RecoveryParts
<1>2. ASSUME NEW d \in [Souls -> Motion]
      PROVE  [d EXCEPT ![s].vel = v] \in [Souls -> Motion]
  BY DEF Motion
<1>3. ASSUME NEW d \in [Souls -> Motion]
      PROVE  [d EXCEPT ![s].goal = g] \in [Souls -> Motion]
  BY DEF Motion
<1>4. [[disk EXCEPT ![s].vel = v] EXCEPT ![s].goal = g] \in [Souls -> Motion]
  BY <1>1, <1>2, <1>3
<1> QED
  BY <1>4

(* An adjudicated move. *)
LEMMA MoveToTyped ==
    ASSUME RecoveryOK, NEW s \in Souls, NEW x \in Goals, MoveTo(s, x)
    PROVE  RecoveryOK'
<1> DEFINE m == View(s)
           v == IF x > m.at THEN 1 ELSE IF x < m.at THEN -1 ELSE 0
           g == IF x = m.at THEN NoGoal ELSE x
           e == [tick |-> tick, soul |-> s, vel |-> v, goal |-> g]
           d == [at |-> m.at, vel |-> v, goal |-> g]
<1>1. m.at \in Road /\ v \in {-1, 0, 1} /\ g \in Road \cup {NoGoal}
  BY ViewTyped, MotionParts, PlacesNamed DEF Road
<1>2. /\ disk' = [disk EXCEPT ![s].vel = v, ![s].goal = g]
      /\ dirty' = [dirty EXCEPT ![s] = d]
      /\ journal' = Append(journal, e)
      /\ tally' = [tally EXCEPT !.moves = @ + 1]
      /\ UNCHANGED <<body, ram, snaps, mark, aged, now, should, offRecord>>
  BY DEF MoveTo
<1> HIDE DEF v, g
<1>3. d \in Motion /\ e \in Event
  BY <1>1, RecoveryParts DEF Motion, Event
<1> HIDE DEF d, e
<1>4. disk' \in [Souls -> Motion]
  BY <1>1, <1>2, RowTyped
<1>5. dirty' \in [Souls -> Motion \cup {Clean}]
  BY <1>2, <1>3, RecoveryParts
<1>6. journal' \in Seq(Event) /\ Len(journal) <= Len(journal')
  BY <1>2, <1>3, RecoveryParts
<1>7. tally' \in Tally
  <2>1. tally \in Tally
    BY RecoveryParts
  <2> QED
    BY <1>2, <2>1 DEF Tally
<1> QED
  BY <1>2, <1>4, <1>5, <1>6, <1>7, PumpTyped, RecoveryParts DEF body

(* A steering of an expedition. *)
LEMMA SteerTyped ==
    ASSUME RecoveryOK, NEW s \in Souls, NEW x \in Goals, Steer(s, x)
    PROVE  RecoveryOK'
<1> DEFINE m == View(s)
           v == IF x > m.at THEN 1 ELSE -1
           d == [at |-> m.at, vel |-> v, goal |-> x]
<1>1. m.at \in Road /\ v \in {-1, 0, 1} /\ x \in Road
  BY ViewTyped, MotionParts, PlacesNamed DEF Road
<1>2. /\ disk' = [disk EXCEPT ![s].vel = v, ![s].goal = x]
      /\ dirty' = [dirty EXCEPT ![s] = d]
      /\ Unrecorded(s)
      /\ UNCHANGED <<body, ram, journal, snaps, mark, aged, now, should>>
  BY DEF Steer
<1> HIDE DEF v
<1>3. d \in Motion
  BY <1>1 DEF Motion
<1> HIDE DEF d
<1>4. disk' \in [Souls -> Motion]
  BY <1>1, <1>2, RowTyped
<1>5. dirty' \in [Souls -> Motion \cup {Clean}]
  BY <1>2, <1>3, RecoveryParts
<1>6. journal' \in Seq(Event) /\ Len(journal) <= Len(journal')
  BY <1>2, RecoveryParts
<1> QED
  BY <1>2, <1>4, <1>5, <1>6, UnrecordedTyped, PumpTyped, RecoveryParts DEF body

(* A carry or a save. *)
LEMMA PutTyped ==
    ASSUME RecoveryOK, NEW s \in Souls, NEW x \in Goals,
           CarryTo(s, x) \/ SaveSoul(s, x)
    PROVE  RecoveryOK'
<1>1. Still(x) \in Motion
  BY PlacesNamed, StillTyped DEF Road
<1>2. /\ disk' = [disk EXCEPT ![s] = Still(x)]
      /\ dirty' = [dirty EXCEPT ![s] = Still(x)] \/ dirty' = [dirty EXCEPT ![s] = Clean]
      /\ Unrecorded(s)
      /\ UNCHANGED <<body, ram, journal, snaps, mark, aged, now, should>>
  BY DEF CarryTo, SaveSoul
<1>3. disk' \in [Souls -> Motion] /\ dirty' \in [Souls -> Motion \cup {Clean}]
  BY <1>1, <1>2, RecoveryParts
<1>4. journal' \in Seq(Event) /\ Len(journal) <= Len(journal')
  BY <1>2, RecoveryParts
<1> QED
  BY <1>2, <1>3, <1>4, UnrecordedTyped, PumpTyped, RecoveryParts DEF body

(* A rest. *)
LEMMA RestTyped ==
    ASSUME RecoveryOK, NEW s \in Souls, Rest(s) PROVE RecoveryOK'
<1>1. Still(View(s).at) \in Motion
  BY ViewTyped, MotionParts, StillTyped
<1>2. /\ dirty' = [dirty EXCEPT ![s] = Still(View(s).at)]
      /\ Unrecorded(s)
      /\ UNCHANGED <<disk, body, ram, journal, snaps, mark, aged, now, should>>
  BY DEF Rest
<1>3. dirty' \in [Souls -> Motion \cup {Clean}]
  BY <1>1, <1>2, RecoveryParts
<1>4. journal' \in Seq(Event) /\ Len(journal) <= Len(journal')
  BY <1>2, RecoveryParts
<1> QED
  BY <1>2, <1>3, <1>4, UnrecordedTyped, PumpTyped, RecoveryParts DEF body

(* An empty wallet, and one that is filled again. *)
LEMMA FundsTyped ==
    ASSUME RecoveryOK, NEW s \in Souls, GoDormant(s) \/ Wake(s) PROVE RecoveryOK'
<1>1. /\ funded' \in [Souls -> BOOLEAN]
      /\ UNCHANGED <<disk, dirty, fallen, barred, ram, journal, snaps, mark, aged, now, should>>
  BY RecoveryParts DEF GoDormant, Wake
<1>2. Unrecorded(s) \/ UNCHANGED <<offRecord, tally>>
  BY DEF GoDormant, Wake
<1>3. journal' \in Seq(Event) /\ Len(journal) <= Len(journal')
  BY <1>1, RecoveryParts
<1> QED
  BY <1>1, <1>2, <1>3, UnrecordedTyped, PumpTyped, RecoveryParts

(* A collapse. *)
LEMMA CollapseTyped ==
    ASSUME RecoveryOK, NEW s \in Souls, Collapse(s) PROVE RecoveryOK'
<1>1. Still(View(s).at) \in Motion
  BY ViewTyped, MotionParts, StillTyped
<1>2. /\ disk' = [disk EXCEPT ![s].vel = 0, ![s].goal = NoGoal]
      /\ dirty' = [dirty EXCEPT ![s] = Still(View(s).at)]
      /\ fallen' = [fallen EXCEPT ![s] = TRUE]
      /\ Unrecorded(s)
      /\ UNCHANGED <<funded, barred, ram, journal, snaps, mark, aged, now, should>>
  BY DEF Collapse
<1>3. dirty' \in [Souls -> Motion \cup {Clean}] /\ fallen' \in [Souls -> BOOLEAN]
  BY <1>1, <1>2, RecoveryParts
<1>4. disk' \in [Souls -> Motion]
  BY <1>2, RowTyped
<1>5. journal' \in Seq(Event) /\ Len(journal) <= Len(journal')
  BY <1>2, RecoveryParts
<1> QED
  BY <1>2, <1>3, <1>4, <1>5, UnrecordedTyped, PumpTyped, RecoveryParts

(* The snapshot that is taken now. *)
Shown == [tick |-> tick, seq |-> Len(journal), at |-> now,
          motion |-> [s \in Souls |-> View(s)]]

(* The snapshot that is due now. *)
LEMMA ShownTyped ==
    ASSUME RecoveryOK
    PROVE  /\ Shown \in Shot /\ [s \in Souls |-> View(s)] \in [Souls -> Motion]
           /\ Shown.at = now /\ Shown.seq = Len(journal) /\ Shown.tick = tick
           /\ \A s \in Souls : Shown.motion[s] = View(s)
<1>1. [s \in Souls |-> View(s)] \in [Souls -> Motion]
  BY ViewTyped
<1>2. Len(journal) \in Nat /\ tick \in Nat /\ now \in Nat
  BY RecoveryParts
<1> QED
  BY <1>1, <1>2 DEF Shown, Shot

(* It is the newest one kept. *)
LEMMA SnapshotKept ==
    ASSUME RecoveryOK, TakeSnapshot
    PROVE  /\ snaps' \in Seq(Shot) /\ Len(snaps') > 0 /\ snaps'[Len(snaps')] = Shown
           /\ \A i \in 1..Len(snaps') :
                  snaps'[i] = Shown \/ \E j \in 1..Len(snaps) : snaps'[i] = snaps[j]
<1> DEFINE all == Append(snaps, Shown)
<1>1. snaps' = IF Len(all) > SnapshotKeep THEN Tail(all) ELSE all
  BY DEF TakeSnapshot, Shown
<1>2. snaps \in Seq(Shot) /\ Shown \in Shot /\ Len(snaps) \in Nat
  BY RecoveryParts, ShownTyped
<1>3. /\ all \in Seq(Shot) /\ Len(all) = Len(snaps) + 1 /\ all[Len(snaps) + 1] = Shown
      /\ \A i \in 1..Len(snaps) : all[i] = snaps[i]
  BY <1>2
<1> HIDE DEF all
<1>4. CASE Len(all) > SnapshotKeep
  <2>1. snaps' = Tail(all) /\ Len(snaps) > 0
    BY <1>1, <1>2, <1>3, <1>4, CadencesPositive
  <2>2. all # << >>
    BY <1>2, <1>3
  <2>3. /\ Tail(all) \in Seq(Shot) /\ Len(Tail(all)) = Len(all) - 1
        /\ \A i \in 1..Len(Tail(all)) : Tail(all)[i] = all[i + 1]
    BY <1>3, <2>2, HeadTailProperties
  <2>4. Len(snaps') = Len(snaps) /\ \A i \in 1..Len(snaps) : snaps'[i] = all[i + 1]
    BY <1>2, <1>3, <2>1, <2>3
  <2>5. ASSUME NEW i \in 1..Len(snaps)
        PROVE  snaps'[i] = Shown \/ \E j \in 1..Len(snaps) : snaps'[i] = snaps[j]
    <3>1. i = Len(snaps) \/ i + 1 \in 1..Len(snaps)
      BY <1>2
    <3> QED
      BY <1>3, <2>4, <3>1
  <2>6. snaps'[Len(snaps)] = Shown
    BY <1>2, <1>3, <2>1, <2>4
  <2> QED
    BY <2>1, <2>3, <2>4, <2>5, <2>6
<1>5. CASE ~ (Len(all) > SnapshotKeep)
  <2>1. snaps' = all
    BY <1>1, <1>5
  <2> QED
    BY <1>2, <1>3, <2>1
<1> QED
  BY <1>4, <1>5

(* The snapshots that are kept. *)
LEMMA SnapshotTyped ==
    ASSUME RecoveryOK, TakeSnapshot, journal' = journal, now' = now
    PROVE  /\ snaps' \in Seq(Shot)
           /\ \A i \in 1..Len(snaps') : /\ snaps'[i].at <= now'
                                        /\ snaps'[i].seq <= Len(journal')
                                        /\ snaps'[i].motion \in [Souls -> Motion]
<1>1. \A i \in 1..Len(snaps) : snaps[i].at <= now /\ snaps[i].seq <= Len(journal)
  BY DEF RecoveryOK
<1>2. Shown.at <= now /\ Shown.seq <= Len(journal)
  BY ShownTyped, RecoveryParts
<1>3. \A i \in 1..Len(snaps') :
          snaps'[i] = Shown \/ \E j \in 1..Len(snaps) : snaps'[i] = snaps[j]
  BY SnapshotKept
<1>4. \A i \in 1..Len(snaps') : snaps'[i].at <= now /\ snaps'[i].seq <= Len(journal)
  BY <1>1, <1>2, <1>3
<1>5. snaps' \in Seq(Shot)
  BY SnapshotKept
<1>6. \A i \in 1..Len(snaps') : snaps'[i].motion \in [Souls -> Motion]
  <2>1. \A i \in 1..Len(snaps') : snaps'[i] \in Shot
    BY <1>5
  <2> QED
    BY <2>1 DEF Shot
<1> QED
  BY <1>4, <1>5, <1>6

(* The parts of RecoveryOK after a step, put together. *)
LEMMA RecoveryBuilt ==
    ASSUME disk' \in [Souls -> Motion], dirty' \in [Souls -> Motion \cup {Clean}],
           funded' \in [Souls -> BOOLEAN], fallen' \in [Souls -> BOOLEAN],
           barred' \subseteq Souls,
           aged' \in [Souls -> Nat], tick' \in Nat, sinceFlush' \in Nat,
           lastSnap' \in Nat, now' \in Nat, phase' \in {"pump", "flush", "snapshot"},
           up' \in BOOLEAN, looping' \in BOOLEAN, should' \in [Souls -> Motion],
           offRecord' \subseteq Souls, journal' \in Seq(Event), snaps' \in Seq(Shot),
           mark' \in [at : Nat, tick : Nat],
           tally' \in Tally,
           mark.at' <= now',
           \A i \in 1..Len(snaps') : snaps'[i].at <= now' /\ snaps'[i].seq <= Len(journal')
    PROVE  RecoveryOK'
<1>1. \A i \in 1..Len(snaps') : snaps'[i].motion \in [Souls -> Motion]
  <2>1. \A i \in 1..Len(snaps') : snaps'[i] \in Shot
    OBVIOUS
  <2> QED
    BY <2>1 DEF Shot
<1>2. RecoveryTypeOK'
  BY <1>1 DEF RecoveryTypeOK
<1> QED
  BY <1>2 DEF RecoveryOK

(* Counting a trouble or a crash. *)
LEMMA TallyTyped ==
    ASSUME RecoveryOK
    PROVE  /\ [tally EXCEPT !.trouble = @ + 1] \in Tally
           /\ [tally EXCEPT !.crashes = @ + 1] \in Tally
           /\ [tally EXCEPT !.moves = @ + 1] \in Tally
<1>1. tally \in Tally
  BY RecoveryParts
<1> QED
  BY <1>1 DEF Tally

(* What a boot counts: the bad snapshots, and the ticks it lets off. *)
LEMMA BootCounts ==
    ASSUME RecoveryOK, NEW k \in Nat, NEW at \in Nat, at <= now
    PROVE  /\ [tally EXCEPT !.trouble = @ + k, !.forgiven = @ + Gap(at) - Caught(at)] \in Tally
           /\ Gap(at) \in Nat /\ Caught(at) \in Nat /\ Gap(at) - Caught(at) \in Nat
<1>1. tally \in Tally /\ now \in Nat /\ CatchUpMax \in Nat
  BY RecoveryParts, RecoveryBoundsNat
<1>2. Gap(at) \in Nat /\ Caught(at) \in Nat /\ Gap(at) - Caught(at) \in Nat
  BY <1>1 DEF Gap, Caught
<1>3. tally.trouble + k \in Nat /\ tally.forgiven + Gap(at) - Caught(at) \in Nat
  BY <1>1, <1>2 DEF Tally
<1> QED
  BY <1>1, <1>2, <1>3 DEF Tally

(* The snapshots are of the past, and the journal has gone on behind them. *)
LEMMA ShotsOK ==
    ASSUME RecoveryOK
    PROVE  /\ mark.at <= now
           /\ \A i \in 1..Len(snaps) : /\ snaps[i].at <= now /\ snaps[i].seq <= Len(journal)
                                       /\ snaps[i] \in Shot /\ Behind(snaps[i], journal, now)
<1>1. \A i \in 1..Len(snaps) : snaps[i] \in Shot
  BY RecoveryParts
<1> QED
  BY <1>1, RecoveryParts DEF RecoveryOK, Behind

(* Another access to the plot. *)
LEMMA AccessTyped ==
    ASSUME RecoveryOK, ChangeAccess PROVE RecoveryOK'
<1>1. /\ UNCHANGED <<disk, dirty, funded, fallen, ram, journal, snaps, mark, aged, now,
                     should, offRecord>>
      /\ tally' = [tally EXCEPT !.moves = @ + 1]
      /\ barred' \in {{}, Souls} \cup {Souls \ {s} : s \in Souls}
  BY DEF ChangeAccess
<1>2. barred' \subseteq Souls
  BY <1>1
<1>3. journal' \in Seq(Event) /\ Len(journal) <= Len(journal')
  BY <1>1, RecoveryParts
<1> QED
  BY <1>1, <1>2, <1>3, TallyTyped, PumpTyped, RecoveryParts

(* A tick. *)
LEMMA PhysicsTyped ==
    ASSUME RecoveryOK, Physics PROVE RecoveryOK'
<1>1. dirty' \in [Souls -> Motion \cup {Clean}]
  <2>1. \A s \in Souls : Stride(s, View(s)) \in Motion /\ dirty[s] \in Motion \cup {Clean}
    BY ViewTyped, StrideTyped, RecoveryParts
  <2> QED
    BY <2>1 DEF Physics
<1>2. aged' \in [Souls -> Nat]
  <2> DEFINE due == (tick + 1) % BiologyEvery = 0
  <2>1. \A s \in Souls : aged[s] \in Nat /\ aged[s] + BiologyEvery \in Nat
    BY RecoveryParts, CadencesPositive
  <2>2. aged' = [s \in Souls |-> IF due THEN aged[s] + BiologyEvery ELSE aged[s]]
    BY Zenon DEF Physics
  <2> HIDE DEF due
  <2> QED
    BY <2>1, <2>2
<1>3. /\ tick' \in Nat /\ now' \in Nat /\ sinceFlush' \in Nat
      /\ phase' \in {"pump", "flush", "snapshot"} /\ now' = now + 1
  <2> DEFINE due == SnapshotDue(tick + 1)
             long == sinceFlush + 1 >= FlushEvery
  <2>1. tick' = tick + 1 /\ now' = now + 1 /\ sinceFlush' = sinceFlush + 1
    BY Zenon DEF Physics
  <2>2. phase' = IF long THEN "flush" ELSE IF due THEN "snapshot" ELSE "pump"
    BY Zenon DEF Physics
  <2>3. tick \in Nat /\ now \in Nat /\ sinceFlush \in Nat
    BY RecoveryParts
  <2> HIDE DEF due, long
  <2>4. phase' \in {"pump", "flush", "snapshot"}
    BY <2>2
  <2> QED
    BY <2>1, <2>3, <2>4
<1>4. /\ UNCHANGED <<disk, funded, fallen, barred, journal, snaps, mark, lastSnap, up,
                     looping, should, tally>>
      /\ offRecord' \subseteq offRecord \cup Souls
  BY DEF Physics, body, Moving
<1>5. mark.at <= now + 1 /\ \A i \in 1..Len(snaps) : snaps[i].at <= now + 1
  <2>1. now \in Nat /\ mark.at \in Nat /\ \A i \in 1..Len(snaps) : snaps[i].at \in Nat
    BY RecoveryParts, ShotsOK DEF Shot
  <2>2. mark.at <= now /\ \A i \in 1..Len(snaps) : snaps[i].at <= now
    BY ShotsOK
  <2> QED
    BY <2>1, <2>2
<1>6. /\ disk' \in [Souls -> Motion] /\ funded' \in [Souls -> BOOLEAN]
      /\ fallen' \in [Souls -> BOOLEAN] /\ barred' \subseteq Souls /\ lastSnap' \in Nat
      /\ up' \in BOOLEAN /\ looping' \in BOOLEAN /\ should' \in [Souls -> Motion]
      /\ offRecord' \subseteq Souls /\ journal' \in Seq(Event) /\ snaps' \in Seq(Shot)
      /\ mark' \in [at : Nat, tick : Nat]
      /\ tally' \in Tally
  BY <1>4, RecoveryParts
<1>7. mark'.at <= now'
  BY <1>3, <1>4, <1>5
<1>8. \A i \in 1..Len(snaps') : snaps'[i].at <= now' /\ snaps'[i].seq <= Len(journal')
  <2>1. \A i \in 1..Len(snaps) : snaps[i].seq <= Len(journal)
    BY ShotsOK
  <2> QED
    BY <1>3, <1>4, <1>5, <2>1
<1> QED
  BY <1>1, <1>2, <1>3, <1>6, <1>7, <1>8, RecoveryBuilt

(* What a flush writes. *)
LEMMA FlushTyped ==
    ASSUME RecoveryOK, Flush
    PROVE  /\ disk' \in [Souls -> Motion] /\ dirty' \in [Souls -> Motion \cup {Clean}]
           /\ mark' \in [at : Nat, tick : Nat] /\ mark'.at = now /\ sinceFlush' \in Nat
<1>1. now \in Nat /\ tick \in Nat
  BY RecoveryParts
<1> QED
  BY <1>1, ShownTyped DEF Flush

(* A flush. *)
LEMMA MaybeFlushTyped ==
    ASSUME RecoveryOK, MaybeFlush PROVE RecoveryOK'
<1>1. UNCHANGED <<funded, fallen, barred, journal, snaps, aged, tick, lastSnap, up, looping, now,
                  should, offRecord, tally>>
      /\ Flush /\ phase' \in {"pump", "flush", "snapshot"}
  BY DEF MaybeFlush, body
<1>2. mark.at' <= now'
  BY <1>1, FlushTyped, RecoveryParts
<1> QED
  BY <1>1, <1>2, FlushTyped, RecoveryParts, ShotsOK, RecoveryBuilt

(* A flush that fails. *)
LEMMA FlushFailsTyped ==
    ASSUME RecoveryOK, FlushFails PROVE RecoveryOK'
<1>1. /\ UNCHANGED <<disk, dirty, funded, fallen, barred, journal, snaps, mark, aged, tick,
                     sinceFlush, lastSnap, up, now, should, offRecord>>
      /\ tally' = [tally EXCEPT !.trouble = @ + 1]
      /\ looping' \in BOOLEAN /\ phase' \in {"pump", "flush", "snapshot"}
  BY DEF FlushFails, body
<1>2. tally' \in Tally
  BY <1>1, TallyTyped
<1> QED
  BY <1>1, <1>2, RecoveryParts, ShotsOK, RecoveryBuilt

(* A snapshot. *)
LEMMA MaybeSnapshotTyped ==
    ASSUME RecoveryOK, MaybeSnapshot PROVE RecoveryOK'
<1>1. /\ UNCHANGED <<disk, dirty, funded, fallen, barred, journal, mark, aged, tick, sinceFlush,
                     up, looping, now, should, tally>>
      /\ TakeSnapshot /\ lastSnap' \in Nat /\ phase' \in {"pump", "flush", "snapshot"}
      /\ offRecord' \subseteq Souls
  BY RecoveryParts DEF MaybeSnapshot, body, StillOffRecord
<1>2. mark.at' <= now'
  BY <1>1, ShotsOK
<1> QED
  BY <1>1, <1>2, SnapshotTyped, RecoveryParts, RecoveryBuilt

(* Time without a tick. *)
LEMMA DowntimeTyped ==
    ASSUME RecoveryOK, Downtime PROVE RecoveryOK'
<1>1. should' \in [Souls -> Motion]
  <2>1. \A s \in Souls : Stride(s, should[s]) \in Motion
    BY StrideTyped, RecoveryParts
  <2> QED
    BY <2>1, RecoveryParts DEF Downtime
<1>2. /\ UNCHANGED <<disk, dirty, funded, fallen, barred, tick, phase, sinceFlush, lastSnap, up,
                     looping, journal, snaps, mark, aged, tally>>
      /\ now' = now + 1
  BY DEF Downtime, body, ram
<1>3. offRecord' \subseteq Souls
  BY RecoveryParts DEF Downtime
<1>4. /\ mark.at <= now + 1 /\ \A i \in 1..Len(snaps) : snaps[i].at <= now + 1
      /\ now + 1 \in Nat
  <2>1. now \in Nat /\ mark.at \in Nat /\ \A i \in 1..Len(snaps) : snaps[i].at \in Nat
    BY RecoveryParts, ShotsOK DEF Shot
  <2> QED
    BY <2>1, ShotsOK
<1> QED
  BY <1>1, <1>2, <1>3, <1>4, RecoveryParts, ShotsOK, RecoveryBuilt

(* A tick that is skipped. *)
LEMMA SkipTicksTyped ==
    ASSUME RecoveryOK, SkipTicks PROVE RecoveryOK'
<1>1. /\ UNCHANGED <<disk, dirty, funded, fallen, barred, journal, snaps, mark, aged, phase,
                     sinceFlush, lastSnap, up, looping, should>>
      /\ now' = now + 1 /\ tick' = tick + 1 /\ offRecord' = Souls
      /\ tally' = [tally EXCEPT !.trouble = @ + 1]
  BY DEF SkipTicks, body
<1>2. /\ mark.at <= now + 1 /\ \A i \in 1..Len(snaps) : snaps[i].at <= now + 1
      /\ now + 1 \in Nat /\ tick + 1 \in Nat
  <2>1. /\ now \in Nat /\ mark.at \in Nat /\ tick \in Nat
        /\ \A i \in 1..Len(snaps) : snaps[i].at \in Nat
    BY RecoveryParts, ShotsOK DEF Shot
  <2> QED
    BY <2>1, ShotsOK
<1>3. tally' \in Tally
  BY <1>1, TallyTyped
<1> QED
  BY <1>1, <1>2, <1>3, RecoveryParts, ShotsOK, RecoveryBuilt

(* An orderly stop. *)
LEMMA StopTyped ==
    ASSUME RecoveryOK, Stop PROVE RecoveryOK'
<1>1. /\ UNCHANGED <<funded, fallen, barred, journal, aged, tick, phase, lastSnap, now>>
      /\ up' \in BOOLEAN /\ looping' \in BOOLEAN /\ Flush /\ TakeSnapshot
      /\ offRecord' \subseteq Souls
      /\ should' = [s \in Souls |-> View(s)]
      /\ tally' = [tally EXCEPT !.crashes = @ + 1]
  BY DEF Stop, body, StillOffRecord
<1>2. tally' \in Tally
  BY <1>1, TallyTyped
<1>3. should' \in [Souls -> Motion]
  BY <1>1, ShownTyped
<1>4. mark.at' <= now'
  BY <1>1, FlushTyped, RecoveryParts
<1> QED
  BY <1>1, <1>2, <1>3, <1>4, FlushTyped, SnapshotTyped, RecoveryParts, RecoveryBuilt

(* A crash. *)
LEMMA CrashTyped ==
    ASSUME RecoveryOK, Crash PROVE RecoveryOK'
<1>1. /\ UNCHANGED <<disk, funded, fallen, barred, journal, snaps, mark, aged, tick, phase,
                     sinceFlush, lastSnap, now, offRecord>>
      /\ up' \in BOOLEAN /\ looping' \in BOOLEAN
      /\ dirty' \in [Souls -> Motion \cup {Clean}]
      /\ should' = [s \in Souls |-> View(s)]
      /\ tally' = [tally EXCEPT !.crashes = @ + 1]
  BY DEF Crash, body
<1>2. tally' \in Tally
  BY <1>1, TallyTyped
<1>3. should' \in [Souls -> Motion]
  BY <1>1, ShownTyped
<1> QED
  BY <1>1, <1>2, <1>3, ShotsOK, RecoveryParts, RecoveryBuilt

(* What a boot makes of a base state. *)
LEMMA RecoverTyped ==
    ASSUME RecoveryOK, NEW motion \in [Souls -> Motion], NEW base \in Nat, NEW at \in Nat,
           at <= now, NEW tail \in Seq(Event), RecoverFrom(motion, base, at, tail)
    PROVE  /\ disk' \in [Souls -> Motion] /\ aged' \in [Souls -> Nat]
           /\ tick' \in Nat /\ lastSnap' \in Nat
           /\ mark' \in [at : Nat, tick : Nat] /\ mark'.at = now
<1> DEFINE gap == Caught(at)
           exact == Gap(at) <= FastForward
<1>1. gap \in Nat /\ now \in Nat
  BY RecoveryParts, BootCounts
<1>2. /\ disk' = [s \in Souls |-> ReplayTail(motion[s], s, tail, base, gap, exact)]
      /\ aged' = [s \in Souls |-> aged[s] + gap]
      /\ tick' = base + gap /\ lastSnap' = base + gap
      /\ mark' = [at |-> now, tick |-> base + gap]
  BY DEF RecoverFrom
<1> HIDE DEF gap, exact
<1>3. \A s \in Souls : ReplayTail(motion[s], s, tail, base, gap, exact) \in Motion
  BY <1>1, ReplayTailTyped
<1>4. \A s \in Souls : aged[s] + gap \in Nat
  BY <1>1, RecoveryParts
<1>5. disk' \in [Souls -> Motion] /\ aged' \in [Souls -> Nat]
  BY <1>2, <1>3, <1>4
<1>6. base + gap \in Nat
  BY <1>1
<1>7. mark' \in [at : Nat, tick : Nat] /\ mark'.at = now
  BY <1>1, <1>2, <1>6
<1> QED
  BY <1>2, <1>5, <1>6, <1>7

(* What every boot resets. *)
LEMMA RestartedTyped ==
    ASSUME RecoveryOK, Restarted, disk' \in [Souls -> Motion], aged' \in [Souls -> Nat],
           tick' \in Nat, lastSnap' \in Nat, mark' \in [at : Nat, tick : Nat],
           mark'.at = now, offRecord' \subseteq Souls,
           tally' \in Tally
    PROVE  RecoveryOK'
<1>1. /\ UNCHANGED <<funded, fallen, barred, journal, snaps, now>>
      /\ up' \in BOOLEAN /\ looping' \in BOOLEAN /\ sinceFlush' \in Nat
      /\ phase' \in {"pump", "flush", "snapshot"}
      /\ dirty' \in [Souls -> Motion \cup {Clean}]
  BY DEF Restarted, body
<1>2. should' \in [Souls -> Motion]
  <2>1. Still(0) \in Motion
    BY StillTyped, RecoveryBoundsNat DEF Road
  <2> QED
    BY <2>1 DEF Restarted
<1>3. mark.at' <= now'
  BY <1>1, RecoveryParts
<1> QED
  BY <1>1, <1>2, <1>3, ShotsOK, RecoveryParts, RecoveryBuilt

(* A boot from a snapshot. *)
LEMMA BootFromTyped ==
    ASSUME RecoveryOK, NEW i \in 1..Len(snaps), BootFrom(i) PROVE RecoveryOK'
<1>1. /\ snaps[i] \in Shot /\ snaps[i].at <= now /\ snaps[i].motion \in [Souls -> Motion]
      /\ snaps[i].tick \in Nat /\ snaps[i].at \in Nat /\ Len(snaps) - i \in Nat
  <2>1. snaps[i] \in Shot /\ snaps[i].at <= now
    BY ShotsOK
  <2>2. Len(snaps) \in Nat
    BY RecoveryParts
  <2>3. Len(snaps) - i \in Nat
    BY <2>2
  <2> QED
    BY <2>1, <2>3 DEF Shot
<1>2. Since(snaps[i]) \in Seq(Event)
  <2>1. Behind(snaps[i], journal, now)
    BY ShotsOK
  <2>2. snaps[i].seq \in Nat /\ journal \in Seq(Event) /\ snaps[i].seq <= Len(journal)
    BY <1>1, <2>1 DEF Behind, Shot
  <2>3. \A j \in (snaps[i].seq + 1)..Len(journal) : journal[j] \in Event
    BY <2>2
  <2>4. snaps[i].seq + 1 \in Int /\ Len(journal) \in Int
    BY <2>2
  <2> QED
    BY <2>3, <2>4, SubSeqProperties DEF Since
<1>3. /\ RecoverFrom(snaps[i].motion, snaps[i].tick, snaps[i].at, Since(snaps[i]))
      /\ tally' = [tally EXCEPT !.trouble = @ + (Len(snaps) - i),
                                !.forgiven = @ + Gap(snaps[i].at) - Caught(snaps[i].at)]
      /\ offRecord' \subseteq Souls /\ Restarted
  <2>1. tally.trouble + Len(snaps) - i = tally.trouble + (Len(snaps) - i)
    BY <1>1, RecoveryParts DEF Tally
  <2> QED
    BY <2>1 DEF BootFrom
<1>4. tally' \in Tally
  BY <1>1, <1>3, BootCounts
<1> QED
  BY <1>1, <1>2, <1>3, <1>4, RecoverTyped, RestartedTyped

(* A boot from the table. *)
LEMMA BootFromTableTyped ==
    ASSUME RecoveryOK, BootFromTable PROVE RecoveryOK'
<1>1. /\ disk \in [Souls -> Motion] /\ mark.tick \in Nat /\ mark.at \in Nat /\ mark.at <= now
      /\ << >> \in Seq(Event) /\ Len(snaps) \in Nat
  BY ShotsOK, RecoveryParts
<1>2. /\ RecoverFrom(disk, mark.tick, mark.at, << >>)
      /\ tally' = [tally EXCEPT !.trouble = @ + Len(snaps),
                                !.forgiven = @ + Gap(mark.at) - Caught(mark.at)]
      /\ offRecord' \subseteq Souls /\ Restarted
  BY DEF BootFromTable
<1>3. tally' \in Tally
  BY <1>1, <1>2, BootCounts
<1> QED
  BY <1>1, <1>2, <1>3, RecoverTyped, RestartedTyped

(* The typing holds at first. *)
LEMMA RecoveryTypedInit == RecoveryInit => RecoveryOK
<1> SUFFICES ASSUME RecoveryInit PROVE RecoveryOK
  OBVIOUS
<1>1. Still(0) \in Motion
  BY StillTyped, RecoveryBoundsNat DEF Road
<1>2. RecoveryTypeOK
  BY <1>1 DEF RecoveryInit, RecoveryTypeOK
<1> QED
  BY <1>2 DEF RecoveryInit, RecoveryOK, Tally

(* And every step keeps it. *)
LEMMA RecoveryTypedStep == RecoveryOK /\ [RecoveryNext]_recoveryVars => RecoveryOK'
<1> SUFFICES ASSUME RecoveryOK, [RecoveryNext]_recoveryVars PROVE RecoveryOK'
  OBVIOUS
<1>1. CASE UNCHANGED recoveryVars
  BY <1>1, RecoveryParts, ShotsOK, RecoveryBuilt DEF recoveryVars
<1>2. CASE RecoveryNext
  BY <1>2, MoveToTyped, SteerTyped, PutTyped, RestTyped, FundsTyped, CollapseTyped,
     AccessTyped, PhysicsTyped, MaybeFlushTyped, FlushFailsTyped, MaybeSnapshotTyped, DowntimeTyped,
     SkipTicksTyped, StopTyped, CrashTyped, BootFromTyped, BootFromTableTyped
  DEF RecoveryNext
<1> QED
  BY <1>1, <1>2

(* The positions, velocities and goals of the table, the overlay and the    *)
(* snapshots are places of the road, the counters numbers, in every         *)
(* reachable state: no replay leaves the road. *)
THEOREM RecoveryTyped == RecoverySpec => []RecoveryTypeOK
<1>1. RecoveryOK => RecoveryTypeOK
  BY DEF RecoveryOK
<1> QED
  BY <1>1, RecoveryTypedInit, RecoveryTypedStep, PTL DEF RecoverySpec

-----------------------------------------------------------------------------
(* The cadence of the needs: a tick is the last of its period or one nearer *)
(* to it. *)
LEMMA PeriodStep ==
    ASSUME NEW t \in Nat, NEW b \in Nat \ {0}
    PROVE  /\ t % b \in 0..(b - 1)
           /\ (t + 1) % b = 0 => t % b = b - 1
           /\ (t + 1) % b # 0 => (t + 1) % b = (t % b) + 1
<1> DEFINE q == t \div b
           r == t % b
           p == (t + 1) \div b
           u == (t + 1) % b
<1>1. q \in Int /\ r \in Int /\ t = b * q + r /\ 0 <= r /\ r < b
  OBVIOUS
<1>2. p \in Int /\ u \in Int /\ t + 1 = b * p + u /\ 0 <= u /\ u < b
  OBVIOUS
<1> HIDE DEF q, r, p, u
<1>3. CASE p = q
  BY <1>1, <1>2, <1>3
<1>4. CASE p > q
  <2>1. p - q - 1 \in Nat
    BY <1>1, <1>2, <1>4
  <2>2. b * p = b * q + b + b * (p - q - 1)
    BY <1>1, <1>2
  <2>3. b * (p - q - 1) >= 0
    BY <2>1
  <2>4. r + 1 = u + b + b * (p - q - 1)
    BY <1>1, <1>2, <2>2
  <2>5. b * (p - q - 1) \in Int
    BY <2>1
  <2> HIDE DEF q
  <2>6. u = 0 /\ r = b - 1
    BY <1>1, <1>2, <2>3, <2>4, <2>5
  <2> QED
    BY <1>1, <2>6 DEF u, r
<1>5. CASE p < q
  <2>1. q - p - 1 \in Nat
    BY <1>1, <1>2, <1>5
  <2>2. b * q = b * p + b + b * (q - p - 1)
    BY <1>1, <1>2
  <2>3. b * (q - p - 1) >= 0 /\ b * (q - p - 1) \in Int
    BY <2>1
  <2>4. u = r + 1 + b + b * (q - p - 1)
    BY <1>1, <1>2, <2>2
  <2>5. FALSE
    BY <1>1, <1>2, <2>3, <2>4
  <2> QED
    BY <2>5
<1>6. p = q \/ p > q \/ p < q
  BY <1>1, <1>2
<1> QED
  BY <1>1, <1>2, <1>3, <1>4, <1>5, <1>6 DEF u, r

(* What the needs may lag behind after n deaths. *)
Slack(n) == (BiologyEvery - 1) * n

(* One more death is one more period. *)
LEMMA SlackGrows ==
    ASSUME NEW n \in Nat
    PROVE  /\ Slack(n) \in Nat /\ Slack(n + 1) = Slack(n) + (BiologyEvery - 1)
           /\ BiologyEvery - 1 \in Nat
<1>1. BiologyEvery \in Nat /\ BiologyEvery > 0
  BY CadencesPositive
<1>2. BiologyEvery - 1 \in Nat
  BY <1>1
<1>3. \A b \in Nat : b * n \in Nat /\ b * (n + 1) = b * n + b
  OBVIOUS
<1> QED
  BY <1>2, <1>3 DEF Slack

(* The ticks the needs of a soul have been charged or let off. *)
Made(s) == aged[s] + tally.forgiven

(* The deaths there have been, and the one there will be. *)
Deaths == tally.crashes + (IF up THEN 1 ELSE 0)

(* Unless there was trouble, the loop runs while the process does; the      *)
(* needs lag by less than a period a death, and by the ticks of the present *)
(* period; and so they do behind every state a boot may start from. *)
CaughtUp ==
    tally.trouble = 0 =>
        /\ looping = up
        /\ up => \A s \in Souls :
                     now - Made(s) <= Slack(tally.crashes) + (tick % BiologyEvery)
        /\ \A s \in Souls : mark.at - Made(s) <= Slack(Deaths)
        /\ \A s \in Souls : \A i \in 1..Len(snaps) : snaps[i].at - Made(s) <= Slack(Deaths)

(* The numbers that the needs are compared with. *)
LEMMA NeedsNumbers ==
    ASSUME RecoveryOK
    PROVE  /\ now \in Nat /\ tick \in Nat /\ mark.at \in Nat /\ mark.at <= now
           /\ tally.crashes \in Nat /\ tally.trouble \in Nat
           /\ tally.forgiven \in Nat
           /\ \A s \in Souls : aged[s] \in Nat /\ Made(s) \in Nat
           /\ \A i \in 1..Len(snaps) : snaps[i].at \in Nat /\ snaps[i].at <= now
           /\ Deaths \in Nat /\ Slack(Deaths) \in Nat /\ Slack(tally.crashes) \in Nat
           /\ (up => Slack(Deaths) = Slack(tally.crashes) + (BiologyEvery - 1))
           /\ (~ up => Slack(Deaths) = Slack(tally.crashes))
           /\ tick % BiologyEvery \in 0..(BiologyEvery - 1)
           /\ BiologyEvery \in Nat /\ BiologyEvery - 1 \in Nat
<1>1. /\ now \in Nat /\ tick \in Nat /\ mark.at \in Nat /\ mark.at <= now
      /\ up \in BOOLEAN
      /\ \A s \in Souls : aged[s] \in Nat
  BY RecoveryParts, ShotsOK
<1>2. tally.crashes \in Nat /\ tally.trouble \in Nat /\ tally.forgiven \in Nat
  <2>1. tally \in Tally
    BY RecoveryParts
  <2> QED
    BY <2>1 DEF Tally
<1>8. ASSUME NEW s \in Souls PROVE Made(s) \in Nat
  <2>1. aged[s] \in Nat /\ tally.forgiven \in Nat
    BY <1>1, <1>2
  <2> QED
    BY <2>1 DEF Made
<1>3. \A i \in 1..Len(snaps) : snaps[i].at \in Nat /\ snaps[i].at <= now
  BY ShotsOK DEF Shot
<1>4. /\ up => Deaths = tally.crashes + 1
      /\ ~ up => Deaths = tally.crashes
  BY <1>2 DEF Deaths
<1>5. /\ Deaths \in Nat /\ Slack(Deaths) \in Nat /\ Slack(tally.crashes) \in Nat
      /\ (up => Slack(Deaths) = Slack(tally.crashes) + (BiologyEvery - 1))
      /\ (~ up => Slack(Deaths) = Slack(tally.crashes))
  BY <1>1, <1>2, <1>4, SlackGrows
<1>6. tick % BiologyEvery \in 0..(BiologyEvery - 1)
  BY <1>1, PeriodStep, CadencesPositive
<1>7. BiologyEvery \in Nat /\ BiologyEvery - 1 \in Nat
  BY SlackGrows, CadencesPositive
<1> QED
  BY <1>1, <1>2, <1>3, <1>5, <1>6, <1>7, <1>8

(* While the process runs, a state kept now may be booted from after one    *)
(* more death. *)
LEMMA NowCharged ==
    ASSUME RecoveryOK, CaughtUp, tally.trouble = 0, up
    PROVE  \A s \in Souls : now - Made(s) <= Slack(Deaths)
<1> SUFFICES ASSUME NEW s \in Souls PROVE now - Made(s) <= Slack(Deaths)
  OBVIOUS
<1> DEFINE r == tick % BiologyEvery
<1>1. now - Made(s) <= Slack(tally.crashes) + r
  BY DEF CaughtUp
<1>2. /\ Made(s) \in Nat /\ now \in Nat /\ Slack(tally.crashes) \in Nat
      /\ r \in 0..(BiologyEvery - 1) /\ BiologyEvery - 1 \in Nat
      /\ Slack(Deaths) = Slack(tally.crashes) + (BiologyEvery - 1)
  BY NeedsNumbers
<1> HIDE DEF r
<1> QED
  BY <1>1, <1>2

(* A step that moves no clock and keeps nothing new. *)
LEMMA PumpCaughtUp ==
    ASSUME CaughtUp, UNCHANGED <<now, aged, tick, mark, snaps, up, looping>>,
           tally'.crashes = tally.crashes, tally'.forgiven = tally.forgiven,
           tally'.trouble = 0 => tally.trouble = 0
    PROVE  CaughtUp'
BY DEF CaughtUp, Deaths, Made

(* A trouble that is counted. *)
LEMMA TroubleCounts ==
    ASSUME RecoveryOK, tally' = [tally EXCEPT !.trouble = @ + 1]
    PROVE  /\ tally'.crashes = tally.crashes /\ tally'.forgiven = tally.forgiven
           /\ tally'.trouble # 0
<1>1. tally \in Tally
  BY RecoveryParts
<1>2. /\ tally'.trouble = tally.trouble + 1 /\ tally'.crashes = tally.crashes
      /\ tally'.forgiven = tally.forgiven /\ tally.trouble \in Nat
  BY <1>1 DEF Tally
<1> QED
  BY <1>2

(* A death that is counted. *)
LEMMA CrashCounts ==
    ASSUME RecoveryOK, tally' = [tally EXCEPT !.crashes = @ + 1]
    PROVE  /\ tally'.crashes = tally.crashes + 1 /\ tally'.trouble = tally.trouble
           /\ tally'.forgiven = tally.forgiven
<1>1. tally \in Tally
  BY RecoveryParts
<1> QED
  BY <1>1 DEF Tally

(* The pump. *)
LEMMA PumpsCaughtUp ==
    ASSUME RecoveryOK, CaughtUp, NEW s \in Souls, NEW x \in Goals,
           \/ MoveTo(s, x) \/ Steer(s, x) \/ CarryTo(s, x) \/ SaveSoul(s, x)
           \/ Rest(s) \/ GoDormant(s) \/ Wake(s) \/ Collapse(s)
    PROVE  CaughtUp'
<1>1. UNCHANGED <<now, aged, tick, mark, snaps, up, looping>>
  BY DEF MoveTo, Steer, CarryTo, SaveSoul, Rest, GoDormant, Wake, Collapse, ram
<1>2. /\ tally'.crashes = tally.crashes /\ tally'.forgiven = tally.forgiven
      /\ tally'.trouble = 0 => tally.trouble = 0
  <2>1. tally \in Tally
    BY RecoveryParts
  <2>2. \/ tally' = tally \/ tally' = [tally EXCEPT !.trouble = @ + 1]
        \/ tally' = [tally EXCEPT !.moves = @ + 1]
    BY DEF MoveTo, Steer, CarryTo, SaveSoul, Rest, GoDormant, Wake, Collapse, Unrecorded
  <2>3. CASE tally' = [tally EXCEPT !.trouble = @ + 1]
    BY <2>3, TroubleCounts
  <2>4. CASE tally' = [tally EXCEPT !.moves = @ + 1]
    BY <2>1, <2>4 DEF Tally
  <2> QED
    BY <2>2, <2>3, <2>4
<1> QED
  BY <1>1, <1>2, PumpCaughtUp

(* A tick: the needs are charged on the last one of a period. *)
LEMMA PhysicsCaughtUp ==
    ASSUME RecoveryOK, CaughtUp, Physics PROVE CaughtUp'
<1>1. /\ UNCHANGED <<mark, snaps, up, looping, tally>>
      /\ now' = now + 1 /\ tick' = tick + 1
      /\ aged' = [s \in Souls |-> IF (tick + 1) % BiologyEvery = 0
                                  THEN aged[s] + BiologyEvery ELSE aged[s]]
      /\ up /\ looping
  BY DEF Physics, Pumping
<1>2. Deaths' = Deaths
  BY <1>1 DEF Deaths
<1> SUFFICES ASSUME tally.trouble = 0
             PROVE  /\ \A s \in Souls : now' - Made(s)'
                                          <= Slack(tally.crashes) + ((tick + 1) % BiologyEvery)
                    /\ \A s \in Souls : mark.at - Made(s)' <= Slack(Deaths)
                    /\ \A s \in Souls : \A i \in 1..Len(snaps) :
                           snaps[i].at - Made(s)' <= Slack(Deaths)
  BY <1>1, <1>2 DEF CaughtUp
<1>3. ASSUME NEW s \in Souls
      PROVE  now' - Made(s)' <= Slack(tally.crashes) + ((tick + 1) % BiologyEvery)
  <2>1. now - Made(s) <= Slack(tally.crashes) + (tick % BiologyEvery)
    BY <1>1 DEF CaughtUp
  <2>2. /\ Made(s) \in Nat /\ now \in Nat /\ tick \in Nat /\ Slack(tally.crashes) \in Nat
        /\ BiologyEvery \in Nat \ {0} /\ now' = now + 1
    BY <1>1, NeedsNumbers, CadencesPositive
  <2> DEFINE r == tick % BiologyEvery
             next == (tick + 1) % BiologyEvery
  <2>3. /\ r \in 0..(BiologyEvery - 1)
        /\ next = 0 => r = BiologyEvery - 1
        /\ next # 0 => next = r + 1
    BY <2>2, PeriodStep
  <2>4. now - Made(s) <= Slack(tally.crashes) + r
    BY <2>1
  <2>5. Made(s)' = IF next = 0 THEN Made(s) + BiologyEvery ELSE Made(s)
    <3>1. aged'[s] = IF next = 0 THEN aged[s] + BiologyEvery ELSE aged[s]
      BY <1>1
    <3>2. aged[s] \in Nat /\ tally.forgiven \in Nat /\ tally' = tally /\ BiologyEvery \in Nat
      BY <1>1, <2>2, NeedsNumbers
    <3> HIDE DEF next
    <3> QED
      BY <3>1, <3>2 DEF Made
  <2> HIDE DEF r, next
  <2>6. now' - Made(s)' <= Slack(tally.crashes) + next
    <3>1. CASE next = 0
      BY <2>2, <2>3, <2>4, <2>5, <3>1
    <3>2. CASE next # 0
      BY <2>2, <2>3, <2>4, <2>5, <3>2
    <3> QED
      BY <3>1, <3>2
  <2> QED
    BY <2>6 DEF next
<1>4. ASSUME NEW s \in Souls
      PROVE  /\ mark.at - Made(s)' <= Slack(Deaths)
             /\ \A i \in 1..Len(snaps) : snaps[i].at - Made(s)' <= Slack(Deaths)
  <2>1. /\ mark.at - Made(s) <= Slack(Deaths)
        /\ \A i \in 1..Len(snaps) : snaps[i].at - Made(s) <= Slack(Deaths)
    BY DEF CaughtUp
  <2>2. Made(s) \in Nat /\ Made(s)' \in Nat /\ Made(s)' >= Made(s)
    <3>1. /\ aged[s] \in Nat /\ BiologyEvery \in Nat /\ tally.forgiven \in Nat
          /\ tally' = tally
      BY <1>1, NeedsNumbers
    <3> QED
      BY <1>1, <3>1 DEF Made
  <2>3. /\ mark.at \in Nat /\ Slack(Deaths) \in Nat
        /\ \A i \in 1..Len(snaps) : snaps[i].at \in Nat
    BY NeedsNumbers
  <2> QED
    BY <2>1, <2>2, <2>3
<1> QED
  BY <1>3, <1>4

(* What is kept now may be booted from. *)
LEMMA KeptCaughtUp ==
    ASSUME RecoveryOK, CaughtUp, up, UNCHANGED <<now, aged>>,
           tally'.forgiven = tally.forgiven,
           tally'.trouble = 0 => tally.trouble = 0,
           mark' = mark \/ mark'.at = now,
           \A i \in 1..Len(snaps') :
               \/ snaps'[i].at = now
               \/ \E j \in 1..Len(snaps) : snaps'[i] = snaps[j],
           Deaths' = Deaths, looping' = up',
           up' => tick' = tick /\ tally'.crashes = tally.crashes
    PROVE  CaughtUp'
<1> SUFFICES ASSUME tally'.trouble = 0 PROVE CaughtUp'
  BY DEF CaughtUp
<1>1. \A s \in Souls : now - Made(s) <= Slack(Deaths)
  BY NowCharged
<1>4. \A s \in Souls : Made(s)' = Made(s)
  BY DEF Made
<1>2. \A s \in Souls : mark'.at - Made(s)' <= Slack(Deaths')
  BY <1>1, <1>4 DEF CaughtUp
<1>3. \A s \in Souls : \A i \in 1..Len(snaps') : snaps'[i].at - Made(s)' <= Slack(Deaths')
  <2>1. \A s \in Souls : \A j \in 1..Len(snaps) : snaps[j].at - Made(s) <= Slack(Deaths)
    BY DEF CaughtUp
  <2> QED
    BY <1>1, <1>4, <2>1
<1> QED
  BY <1>1, <1>2, <1>3, <1>4 DEF CaughtUp

(* A flush, a snapshot, a stop and a crash. *)
LEMMA WritesCaughtUp ==
    ASSUME RecoveryOK, CaughtUp, MaybeFlush \/ MaybeSnapshot \/ Stop \/ Crash
    PROVE  CaughtUp'
<1>1. CASE MaybeFlush
  <2>1. /\ UNCHANGED <<snaps, aged, tick, up, looping, now, tally>>
        /\ mark'.at = now /\ up /\ looping
    BY <1>1 DEF MaybeFlush, Flush
  <2>2. Deaths' = Deaths
    BY <2>1 DEF Deaths
  <2> QED
    BY <2>1, <2>2, KeptCaughtUp
<1>2. CASE MaybeSnapshot
  <2>1. /\ UNCHANGED <<mark, aged, tick, up, looping, now, tally>>
        /\ TakeSnapshot /\ up /\ looping
    BY <1>2 DEF MaybeSnapshot
  <2>2. Deaths' = Deaths
    BY <2>1 DEF Deaths
  <2>3. \A i \in 1..Len(snaps') :
            snaps'[i].at = now \/ \E j \in 1..Len(snaps) : snaps'[i] = snaps[j]
    BY <2>1, SnapshotKept, ShownTyped
  <2> QED
    BY <2>1, <2>2, <2>3, KeptCaughtUp
<1>3. ASSUME tally' = [tally EXCEPT !.crashes = @ + 1], up, ~ up'
      PROVE  Deaths' = Deaths
  BY <1>3, CrashCounts, NeedsNumbers DEF Deaths
<1>4. CASE Stop
  <2>1. /\ UNCHANGED <<aged, now>> /\ TakeSnapshot /\ up /\ ~ up' /\ ~ looping'
        /\ mark'.at = now /\ tally' = [tally EXCEPT !.crashes = @ + 1]
        /\ up' = FALSE /\ looping' = FALSE
    BY <1>4 DEF Stop, Flush
  <2>2. /\ Deaths' = Deaths /\ tally'.trouble = tally.trouble
        /\ tally'.forgiven = tally.forgiven
    BY <2>1, <1>3, CrashCounts
  <2>3. \A i \in 1..Len(snaps') :
            snaps'[i].at = now \/ \E j \in 1..Len(snaps) : snaps'[i] = snaps[j]
    BY <2>1, SnapshotKept, ShownTyped
  <2> QED
    BY <2>1, <2>2, <2>3, KeptCaughtUp
<1>5. CASE Crash
  <2>1. /\ UNCHANGED <<aged, now, mark, snaps>> /\ up /\ ~ up' /\ ~ looping'
        /\ tally' = [tally EXCEPT !.crashes = @ + 1]
        /\ up' = FALSE /\ looping' = FALSE
    BY <1>5 DEF Crash
  <2>2. /\ Deaths' = Deaths /\ tally'.trouble = tally.trouble
        /\ tally'.forgiven = tally.forgiven
    BY <2>1, <1>3, CrashCounts
  <2> QED
    BY <2>1, <2>2, KeptCaughtUp
<1> QED
  BY <1>1, <1>2, <1>4, <1>5

(* Time without a tick. *)
LEMMA DowntimeCaughtUp ==
    ASSUME RecoveryOK, CaughtUp, Downtime PROVE CaughtUp'
<1>1. /\ UNCHANGED <<tick, up, looping, mark, snaps, aged, tally>>
      /\ ~ up \/ ~ looping
  BY DEF Downtime, ram
<1>2. Deaths' = Deaths /\ \A s \in Souls : Made(s)' = Made(s)
  BY <1>1 DEF Deaths, Made
<1> QED
  BY <1>1, <1>2 DEF CaughtUp

(* A boot charges the whole gap since the state it starts from. *)
LEMMA BootCaughtUp ==
    ASSUME RecoveryOK, CaughtUp, ~ up, NEW motion, NEW base \in Nat, NEW at \in Nat,
           at <= now, NEW tail, RecoverFrom(motion, base, at, tail), Restarted,
           tally'.trouble = 0 => tally.trouble = 0, tally'.crashes = tally.crashes,
           tally'.forgiven = tally.forgiven + Gap(at) - Caught(at),
           tally.trouble = 0 => \A s \in Souls : at - Made(s) <= Slack(Deaths)
    PROVE  CaughtUp'
<1>1. /\ up' = TRUE /\ looping' = TRUE /\ snaps' = snaps /\ now' = now
      /\ aged' = [s \in Souls |-> aged[s] + Caught(at)]
      /\ mark'.at = now /\ tick' = base + Caught(at)
  BY DEF RecoverFrom, Restarted
<1>2. /\ Slack(Deaths) = Slack(tally.crashes) /\ Slack(tally.crashes) \in Nat
      /\ Slack(Deaths') = Slack(tally.crashes) + (BiologyEvery - 1)
      /\ BiologyEvery - 1 \in Nat
  <2>1. Deaths' = tally.crashes + 1 /\ tally.crashes \in Nat
    BY <1>1, NeedsNumbers DEF Deaths
  <2> QED
    BY <2>1, NeedsNumbers, SlackGrows
<1>3. tick' \in Nat /\ tick' % BiologyEvery \in 0..(BiologyEvery - 1)
  <2>1. tick' \in Nat
    <3>1. Caught(at) \in Nat
      BY BootCounts
    <3> QED
      BY <1>1, <3>1
  <2>2. BiologyEvery \in Nat \ {0}
    BY CadencesPositive
  <2> QED
    BY <2>1, <2>2, PeriodStep
<1> SUFFICES ASSUME tally'.trouble = 0
             PROVE  /\ \A s \in Souls : now' - Made(s)'
                                          <= Slack(tally.crashes) + (tick' % BiologyEvery)
                    /\ \A s \in Souls : mark'.at - Made(s)' <= Slack(Deaths')
                    /\ \A s \in Souls : \A i \in 1..Len(snaps) :
                           snaps[i].at - Made(s)' <= Slack(Deaths')
  BY <1>1 DEF CaughtUp
<1>4. ASSUME NEW s \in Souls
      PROVE  now - Made(s)' <= Slack(tally.crashes) /\ Made(s)' >= Made(s)
             /\ Made(s)' \in Nat /\ Made(s) \in Nat
  <2>1. at - Made(s) <= Slack(tally.crashes)
    BY <1>2
  <2>2. Made(s)' = Made(s) + (now - at) /\ Made(s) \in Nat /\ now \in Nat
    <3>1. aged'[s] = aged[s] + Caught(at) /\ Gap(at) = now - at
      BY <1>1 DEF Gap
    <3>2. /\ aged[s] \in Nat /\ Made(s) \in Nat /\ now \in Nat
          /\ tally.forgiven \in Nat /\ Caught(at) \in Nat /\ Gap(at) \in Nat
      BY NeedsNumbers, BootCounts
    <3> QED
      BY <3>1, <3>2 DEF Made
  <2>3. now - Made(s)' = at - Made(s)
    BY <2>2
  <2> QED
    BY <2>1, <2>2, <2>3, <1>2
<1>5. ASSUME NEW s \in Souls, NEW i \in 1..Len(snaps)
      PROVE  snaps[i].at - Made(s)' <= Slack(Deaths')
  <2>1. snaps[i].at - Made(s) <= Slack(tally.crashes)
    BY <1>2 DEF CaughtUp
  <2>2. snaps[i].at \in Nat
    BY NeedsNumbers
  <2> QED
    BY <1>2, <1>4, <2>1, <2>2
<1>6. ASSUME NEW s \in Souls
      PROVE  /\ now' - Made(s)' <= Slack(tally.crashes) + (tick' % BiologyEvery)
             /\ mark'.at - Made(s)' <= Slack(Deaths')
  <2> DEFINE r == tick' % BiologyEvery
  <2>1. r \in Nat
    BY <1>2, <1>3
  <2>2. now \in Nat /\ now' = now /\ mark'.at = now
    BY <1>1, NeedsNumbers
  <2> HIDE DEF r
  <2>3. now - Made(s)' <= Slack(tally.crashes) + r
    BY <1>2, <1>4, <2>1, <2>2
  <2>4. now - Made(s)' <= Slack(Deaths')
    BY <1>2, <1>4, <2>2
  <2> QED
    BY <2>2, <2>3, <2>4 DEF r
<1> QED
  BY <1>5, <1>6

(* Any boot. *)
LEMMA BootsCaughtUp ==
    ASSUME RecoveryOK, CaughtUp,
           BootFromTable \/ \E i \in 1..Len(snaps) : BootFrom(i)
    PROVE  CaughtUp'
<1>0. tally \in Tally /\ Len(snaps) \in Nat
  BY RecoveryParts
<1>1. ASSUME NEW i \in 1..Len(snaps), BootFrom(i) PROVE CaughtUp'
  <2>1. /\ ~ up /\ Restarted
        /\ RecoverFrom(snaps[i].motion, snaps[i].tick, snaps[i].at, Since(snaps[i]))
        /\ tally' = [tally EXCEPT !.trouble = @ + Len(snaps) - i,
                                  !.forgiven = @ + Gap(snaps[i].at) - Caught(snaps[i].at)]
    BY <1>1 DEF BootFrom
  <2>2. snaps[i].tick \in Nat /\ snaps[i].at \in Nat /\ snaps[i].at <= now
    BY ShotsOK DEF Shot
  <2>3. /\ tally'.crashes = tally.crashes /\ (tally'.trouble = 0 => tally.trouble = 0)
        /\ tally'.forgiven = tally.forgiven + Gap(snaps[i].at) - Caught(snaps[i].at)
    <3>1. /\ tally'.trouble = tally.trouble + Len(snaps) - i /\ tally'.crashes = tally.crashes
          /\ tally'.forgiven = tally.forgiven + Gap(snaps[i].at) - Caught(snaps[i].at)
      BY <1>0, <2>1 DEF Tally
    <3>2. tally.trouble \in Nat /\ Len(snaps) - i \in Nat
      BY <1>0 DEF Tally
    <3> QED
      BY <1>0, <3>1, <3>2
  <2>4. tally.trouble = 0 => \A s \in Souls : snaps[i].at - Made(s) <= Slack(Deaths)
    BY DEF CaughtUp
  <2> QED
    BY <2>1, <2>2, <2>3, <2>4, BootCaughtUp
<1>2. CASE BootFromTable
  <2>1. /\ ~ up /\ Restarted /\ RecoverFrom(disk, mark.tick, mark.at, << >>)
        /\ tally' = [tally EXCEPT !.trouble = @ + Len(snaps),
                                  !.forgiven = @ + Gap(mark.at) - Caught(mark.at)]
    BY <1>2 DEF BootFromTable
  <2>2. mark.tick \in Nat /\ mark.at \in Nat /\ mark.at <= now
    BY RecoveryParts, ShotsOK
  <2>3. /\ tally'.crashes = tally.crashes /\ (tally'.trouble = 0 => tally.trouble = 0)
        /\ tally'.forgiven = tally.forgiven + Gap(mark.at) - Caught(mark.at)
    <3>1. /\ tally'.trouble = tally.trouble + Len(snaps) /\ tally'.crashes = tally.crashes
          /\ tally'.forgiven = tally.forgiven + Gap(mark.at) - Caught(mark.at)
      BY <1>0, <2>1 DEF Tally
    <3>2. tally.trouble \in Nat
      BY <1>0 DEF Tally
    <3> QED
      BY <1>0, <3>1, <3>2
  <2>4. tally.trouble = 0 => \A s \in Souls : mark.at - Made(s) <= Slack(Deaths)
    BY DEF CaughtUp
  <2> QED
    BY <2>1, <2>2, <2>3, <2>4, BootCaughtUp
<1> QED
  BY <1>1, <1>2

(* Nobody lags at first. *)
LEMMA CaughtUpInit == RecoveryInit => CaughtUp
<1> SUFFICES ASSUME RecoveryInit PROVE CaughtUp
  OBVIOUS
<1>1. /\ now = 0 /\ tick = 0 /\ mark.at = 0 /\ aged = [s \in Souls |-> 0] /\ snaps = << >>
      /\ looping = TRUE /\ up = TRUE /\ tally.forgiven = 0
  BY DEF RecoveryInit
<1>2. RecoveryOK
  BY RecoveryTypedInit
<1>3. Slack(Deaths) \in Nat /\ Slack(tally.crashes) \in Nat /\ tick % BiologyEvery \in Nat
  BY <1>2, NeedsNumbers
<1> DEFINE r == tick % BiologyEvery
<1> HIDE DEF r
<1> DEFINE k == Slack(tally.crashes)
           d == Slack(Deaths)
<1>4. k \in Nat /\ d \in Nat /\ r \in Nat
  BY <1>3 DEF r
<1> HIDE DEF k, d
<1>5. ASSUME NEW s \in Souls PROVE now - Made(s) = 0 /\ mark.at - Made(s) = 0
  <2>1. now = 0 /\ mark.at = 0 /\ Made(s) = 0
    BY <1>1 DEF Made
  <2> QED
    BY <2>1
<1>6. ASSUME NEW s \in Souls PROVE now - Made(s) <= k + r
  <2>1. 0 <= k + r
    BY <1>4
  <2> QED
    BY <1>5, <2>1
<1>7. ASSUME NEW s \in Souls PROVE mark.at - Made(s) <= d
  <2>1. 0 <= d
    BY <1>4
  <2> QED
    BY <1>5, <2>1
<1> QED
  BY <1>1, <1>6, <1>7 DEF CaughtUp, r, k, d

(* And every step keeps it so. *)
LEMMA CaughtUpStep == RecoveryOK /\ CaughtUp /\ [RecoveryNext]_recoveryVars => CaughtUp'
<1> SUFFICES ASSUME RecoveryOK, CaughtUp, [RecoveryNext]_recoveryVars PROVE CaughtUp'
  OBVIOUS
<1>1. CASE UNCHANGED recoveryVars
  BY <1>1 DEF recoveryVars, CaughtUp, Deaths, Made
<1>2. CASE FlushFails \/ SkipTicks
  <2>1. tally' = [tally EXCEPT !.trouble = @ + 1]
    BY <1>2 DEF FlushFails, SkipTicks
  <2>2. tally'.trouble # 0
    BY <2>1, TroubleCounts
  <2> QED
    BY <2>2 DEF CaughtUp
<1>3. CASE \E s \in Souls, x \in Goals :
               MoveTo(s, x) \/ Steer(s, x) \/ CarryTo(s, x) \/ SaveSoul(s, x)
  BY <1>3, PumpsCaughtUp
<1>8. CASE ChangeAccess
  <2>1. UNCHANGED <<now, aged, tick, mark, snaps, up, looping>>
    BY <1>8 DEF ChangeAccess, ram
  <2>2. tally' = [tally EXCEPT !.moves = @ + 1] /\ tally \in Tally
    BY <1>8, RecoveryParts DEF ChangeAccess
  <2>3. /\ tally'.crashes = tally.crashes /\ tally'.forgiven = tally.forgiven
        /\ tally'.trouble = tally.trouble
    BY <2>2 DEF Tally
  <2> QED
    BY <2>1, <2>3, PumpCaughtUp
<1>4. CASE \E s \in Souls : Rest(s) \/ GoDormant(s) \/ Wake(s) \/ Collapse(s)
  <2>1. PICK s \in Souls : Rest(s) \/ GoDormant(s) \/ Wake(s) \/ Collapse(s)
    BY <1>4
  <2>2. UNCHANGED <<now, aged, tick, mark, snaps, up, looping>>
    BY <2>1 DEF Rest, GoDormant, Wake, Collapse, ram
  <2>3. tally' = tally \/ tally' = [tally EXCEPT !.trouble = @ + 1]
    BY <2>1 DEF Rest, GoDormant, Wake, Collapse, Unrecorded
  <2>4. /\ tally'.crashes = tally.crashes /\ tally'.forgiven = tally.forgiven
        /\ tally'.trouble = 0 => tally.trouble = 0
    BY <2>3, TroubleCounts
  <2> QED
    BY <2>2, <2>4, PumpCaughtUp
<1>5. CASE Physics \/ MaybeFlush \/ MaybeSnapshot \/ Stop \/ Crash \/ Downtime
  BY <1>5, PhysicsCaughtUp, WritesCaughtUp, DowntimeCaughtUp
<1>6. CASE BootFromTable \/ \E i \in 1..Len(snaps) : BootFrom(i)
  BY <1>6, BootsCaughtUp
<1>7. CASE RecoveryNext
  BY <1>7, <1>2, <1>3, <1>4, <1>5, <1>6, <1>8 DEF RecoveryNext
<1> QED
  BY <1>1, <1>7

(* What the needs of the souls have been charged stays behind the clock by  *)
(* less than a period of the biology per death of the process and one: the  *)
(* boot charges the downtime (recover_world), from whatever base state it   *)
(* starts, and the live path the ticks.  What is beyond the cap of the      *)
(* catch-up is let off, tick by tick counted here. *)
THEOREM NeedsCharged == RecoverySpec => []NeedsFollowTheClock
<1>1. RecoveryOK /\ CaughtUp => NeedsFollowTheClock
  <2> SUFFICES ASSUME RecoveryOK, CaughtUp, up, tally.trouble = 0, NEW s \in Souls
               PROVE  now - aged[s] <= (BiologyEvery - 1) * (tally.crashes + 1)
                                           + tally.forgiven
    BY DEF NeedsFollowTheClock
  <2>1. now - Made(s) <= Slack(Deaths)
    BY NowCharged
  <2>2. Deaths = tally.crashes + 1
    BY DEF Deaths
  <2>3. Slack(Deaths) = (BiologyEvery - 1) * (tally.crashes + 1)
    BY <2>2 DEF Slack
  <2> DEFINE slack == (BiologyEvery - 1) * (tally.crashes + 1)
  <2>4. /\ slack \in Nat /\ now \in Nat /\ aged[s] \in Nat /\ tally.forgiven \in Nat
        /\ now - (aged[s] + tally.forgiven) <= slack
    BY <2>1, <2>3, NeedsNumbers DEF Made
  <2> HIDE DEF slack
  <2>5. now - aged[s] <= slack + tally.forgiven
    BY <2>4
  <2> QED
    BY <2>5 DEF slack
<1> QED
  BY <1>1, RecoveryTypedInit, RecoveryTypedStep, CaughtUpInit, CaughtUpStep, PTL
     DEF RecoverySpec
-----------------------------------------------------------------------------
(* The motion a soul has, or would have had the process not died. *)
Expected(s) == IF up THEN View(s) ELSE should[s]

Newest == snaps[Len(snaps)]

(* The soul is replayed to where it is expected; the ticks were counted as  *)
(* they passed; and dormancy holds it only where it stands. *)
OnRecordAt(s) ==
    /\ Tracked(Newest, journal, now, s, Expected(s))
    /\ up => tick = Newest.tick + (now - Newest.at)
    /\ ~ funded[s] => Expected(s).vel = 0

OnRecord == snaps # << >> => \A s \in Souls \ offRecord : OnRecordAt(s)

(* There is a newest snapshot, and the journal has gone on behind it. *)
LEMMA NewestIs ==
    ASSUME RecoveryOK, snaps # << >>
    PROVE  /\ Len(snaps) \in 1..Len(snaps) /\ Newest \in Shot
           /\ Behind(Newest, journal, now)
<1>1. Len(snaps) \in 1..Len(snaps)
  BY RecoveryParts
<1> QED
  BY <1>1, ShotsOK DEF Newest

(* What an entry of the overlay shows. *)
LEMMA ViewOfEntry ==
    ASSUME NEW s \in Souls, dirty'[s] \in Motion
    PROVE  View(s)' = dirty'[s]
<1>1. dirty'[s] # Clean
  BY PlacesNamed DEF Motion, Road
<1> QED
  BY <1>1 DEF View

(* Nothing moves, or what moves goes off the record. *)
LEMMA KeptOnRecord ==
    ASSUME OnRecord, UNCHANGED <<snaps, journal, now, up, tick, should>>,
           offRecord \subseteq offRecord',
           \A s \in Souls \ offRecord' :
               View(s)' = View(s) /\ (funded[s] => funded'[s])
    PROVE  OnRecord'
<1> SUFFICES ASSUME snaps # << >>, NEW s \in Souls \ offRecord'
             PROVE  OnRecordAt(s)'
  BY DEF OnRecord
<1>1. OnRecordAt(s)
  BY DEF OnRecord
<1>2. Expected(s)' = Expected(s) /\ (~ funded'[s] => ~ funded[s]) /\ Newest' = Newest
  BY DEF Expected, Newest
<1> QED
  BY <1>1, <1>2 DEF OnRecordAt

(* An adjudicated move: the journal says of the soul what the overlay says. *)
LEMMA MoveToOnRecord ==
    ASSUME RecoveryOK, OnRecord, NEW s \in Souls, NEW x \in Goals, MoveTo(s, x)
    PROVE  OnRecord'
<1> DEFINE m == View(s)
           v == IF x > m.at THEN 1 ELSE IF x < m.at THEN -1 ELSE 0
           g == IF x = m.at THEN NoGoal ELSE x
           e == [tick |-> tick, soul |-> s, vel |-> v, goal |-> g]
           d == [at |-> m.at, vel |-> v, goal |-> g]
<1>1. /\ m \in Motion /\ x \in Road /\ v \in {-1, 0, 1} /\ g \in Road \cup {NoGoal}
      /\ m.at \in Int /\ x \in Int
  BY ViewTyped, MotionParts, PlacesNamed DEF Road
<1>2. /\ disk' = [disk EXCEPT ![s].vel = v, ![s].goal = g]
      /\ dirty' = [dirty EXCEPT ![s] = d]
      /\ journal' = Append(journal, e)
      /\ UNCHANGED <<funded, snaps, now, tick, up, should, offRecord>>
      /\ up /\ funded[s]
  BY DEF MoveTo, body, ram, Pumping
<1>3. d \in Motion /\ e \in Event /\ e.tick = tick /\ e.soul = s
  BY <1>1, RecoveryParts DEF Motion, Event
<1>4. Aimed(d)
  <2>1. CASE x > m.at
    <3>1. d.vel = 1 /\ d.goal = x /\ d.at = m.at
      BY <1>1, <2>1
    <3>2. (x - m.at) * 1 > 0
      BY <1>1, <2>1
    <3> QED
      BY <1>1, <3>1, <3>2 DEF Aimed
  <2>2. CASE x < m.at
    <3>1. d.vel = -1 /\ d.goal = x /\ d.at = m.at
      BY <1>1, <2>2
    <3>2. (x - m.at) * (-1) > 0
      BY <1>1, <2>2
    <3> QED
      BY <1>1, <3>1, <3>2 DEF Aimed
  <2>3. CASE x = m.at
    <3>1. d.vel = 0
      BY <1>1, <2>3
    <3> QED
      BY <3>1 DEF Aimed
  <2> QED
    BY <1>1, <2>1, <2>2, <2>3
<1>5. ApplyEvent(m, e) = d
  <2>1. ApplyEvent(m, e) = [at |-> m.at, vel |-> e.vel, goal |-> e.goal]
    BY <1>1, <1>3, AppliedTyped
  <2> QED
    BY <2>1
<1>6. View(s)' = d
  <2>1. dirty'[s] = d
    BY <1>2, RecoveryParts
  <2> QED
    BY <1>3, <2>1, ViewOfEntry
<1>7. \A u \in Souls : u # s => View(u)' = View(u)
  <2>1. \A u \in Souls : u # s => dirty'[u] = dirty[u] /\ disk'[u] = disk[u]
    BY <1>2, RecoveryParts
  <2> QED
    BY <2>1 DEF View
<1> HIDE DEF m, v, g, e, d
<1> SUFFICES ASSUME snaps # << >>, NEW u \in Souls \ offRecord
             PROVE  OnRecordAt(u)'
  BY <1>2 DEF OnRecord
<1>8. OnRecordAt(u) /\ Behind(Newest, journal, now)
  BY NewestIs DEF OnRecord
<1>9. /\ Tracked(Newest, journal, now, u, View(u))
      /\ tick = Newest.tick + (now - Newest.at)
  BY <1>2, <1>8 DEF OnRecordAt, Expected
<1>10. e.soul = u => Aimed(ApplyEvent(View(u), e))
  BY <1>3, <1>4, <1>5 DEF m
<1>11. Tracked(Newest, Append(journal, e), now, u,
               IF e.soul = u THEN ApplyEvent(View(u), e) ELSE View(u))
  BY <1>3, <1>8, <1>9, <1>10, TrackedMove
<1>12. View(u)' = IF e.soul = u THEN ApplyEvent(View(u), e) ELSE View(u)
  BY <1>3, <1>5, <1>6, <1>7 DEF m
<1>13. Tracked(Newest, journal, now, u, Expected(u))'
  BY <1>2, <1>11, <1>12 DEF Expected, Newest
<1>14. ~ funded'[u] => Expected(u)'.vel = 0
  <2>1. ~ funded'[u] => u # s /\ ~ funded[u]
    BY <1>2
  <2> QED
    BY <1>2, <1>7, <1>8, <2>1 DEF OnRecordAt, Expected
<1> QED
  BY <1>2, <1>9, <1>13, <1>14 DEF OnRecordAt, Newest

(* What the journal does not replay concerns one soul, who goes off the record. *)
LEMMA UnrecordedOnRecord ==
    ASSUME RecoveryOK, OnRecord, NEW s \in Souls, Unrecorded(s),
           UNCHANGED <<snaps, journal, now, up, tick, should>>,
           \A u \in Souls :
               u # s => dirty'[u] = dirty[u] /\ disk'[u] = disk[u] /\ (funded[u] => funded'[u])
    PROVE  OnRecord'
<1>1. offRecord \subseteq offRecord' /\ s \in offRecord'
  BY UnrecordedTyped
<1>2. ASSUME NEW u \in Souls \ offRecord'
      PROVE  View(u)' = View(u) /\ (funded[u] => funded'[u])
  <2>1. dirty'[u] = dirty[u] /\ disk'[u] = disk[u] /\ (funded[u] => funded'[u])
    BY <1>1
  <2> QED
    BY <2>1 DEF View
<1> QED
  BY <1>1, <1>2, KeptOnRecord

(* A steering, a carry, a save. *)
LEMMA PumpsOnRecord ==
    ASSUME RecoveryOK, OnRecord, NEW s \in Souls, NEW x \in Goals,
           Steer(s, x) \/ CarryTo(s, x) \/ SaveSoul(s, x)
    PROVE  OnRecord'
<1>1. Unrecorded(s) /\ UNCHANGED <<snaps, journal, now, up, tick, should>>
  BY DEF Steer, CarryTo, SaveSoul, ram
<1>2. ASSUME NEW u \in Souls, u # s
      PROVE  dirty'[u] = dirty[u] /\ disk'[u] = disk[u] /\ (funded[u] => funded'[u])
  <2>1. CASE Steer(s, x)
    BY <1>2, <2>1, RecoveryParts DEF Steer, body
  <2>2. CASE CarryTo(s, x)
    BY <1>2, <2>2, RecoveryParts DEF CarryTo, body
  <2>3. CASE SaveSoul(s, x)
    BY <1>2, <2>3, RecoveryParts DEF SaveSoul, body
  <2> QED
    BY <2>1, <2>2, <2>3
<1> QED
  BY <1>1, <1>2, UnrecordedOnRecord

(* A rest, an empty wallet, a collapse. *)
LEMMA StillsOnRecord ==
    ASSUME RecoveryOK, OnRecord, NEW s \in Souls,
           Rest(s) \/ GoDormant(s) \/ Collapse(s)
    PROVE  OnRecord'
<1>1. Unrecorded(s) /\ UNCHANGED <<snaps, journal, now, up, tick, should>>
  BY DEF Rest, GoDormant, Collapse, ram
<1>2. ASSUME NEW u \in Souls, u # s
      PROVE  dirty'[u] = dirty[u] /\ disk'[u] = disk[u] /\ (funded[u] => funded'[u])
  <2>1. CASE Rest(s)
    BY <1>2, <2>1, RecoveryParts DEF Rest, body
  <2>2. CASE GoDormant(s)
    BY <1>2, <2>2, RecoveryParts DEF GoDormant
  <2>3. CASE Collapse(s)
    BY <1>2, <2>3, RecoveryParts DEF Collapse
  <2> QED
    BY <2>1, <2>2, <2>3
<1> QED
  BY <1>1, <1>2, UnrecordedOnRecord

(* A wallet that is filled again. *)
LEMMA WakeOnRecord ==
    ASSUME RecoveryOK, OnRecord, NEW s \in Souls, Wake(s) PROVE OnRecord'
<1>1. /\ UNCHANGED <<disk, dirty, snaps, journal, now, up, tick, should, offRecord>>
      /\ funded' = [funded EXCEPT ![s] = TRUE]
  BY DEF Wake, ram
<1>2. \A u \in Souls : funded[u] => funded'[u]
  BY <1>1, RecoveryParts
<1> QED
  BY <1>1, <1>2, KeptOnRecord DEF View

(* A flush: the table says what the overlay said. *)
LEMMA MaybeFlushOnRecord ==
    ASSUME RecoveryOK, OnRecord, MaybeFlush PROVE OnRecord'
<1>1. /\ UNCHANGED <<funded, snaps, journal, now, up, tick, should, offRecord>>
      /\ disk' = [s \in Souls |-> View(s)] /\ dirty' = [s \in Souls |-> Clean]
  BY DEF MaybeFlush, Flush, body
<1>2. \A s \in Souls : View(s)' = View(s)
  BY <1>1 DEF View
<1> QED
  BY <1>1, <1>2, KeptOnRecord

(* A flush that fails: the overlay is as before. *)
LEMMA FlushFailsOnRecord ==
    ASSUME OnRecord, FlushFails PROVE OnRecord'
<1>1. UNCHANGED <<disk, dirty, funded, snaps, journal, now, up, tick, should, offRecord>>
  BY DEF FlushFails, body
<1> QED
  BY <1>1, KeptOnRecord DEF View

(* A soul that stands is where it is a tick later. *)
LEMMA TrackedStands ==
    ASSUME RecoveryOK, snaps # << >>, NEW s \in Souls, OnRecordAt(s)
    PROVE  /\ Expected(s) \in Motion
           /\ Expected(s).vel = 0 => Integrate(Expected(s)) = Expected(s)
           /\ Tracked(Newest, journal, now + 1, s, Integrate(Expected(s)))
<1>1. Behind(Newest, journal, now) /\ Tracked(Newest, journal, now, s, Expected(s))
  BY NewestIs DEF OnRecordAt
<1>2. Expected(s) \in Motion /\ Aimed(Expected(s))
  BY <1>1, TrackedTells
<1> QED
  BY <1>1, <1>2, TrackedTick, IntegrateAt

(* A tick: what moves is what the replay moves, one tick further. *)
LEMMA PhysicsOnRecord ==
    ASSUME RecoveryOK, OnRecord, Physics PROVE OnRecord'
<1>1. /\ UNCHANGED <<disk, funded, snaps, journal, up, should>>
      /\ now' = now + 1 /\ tick' = tick + 1 /\ up
      /\ dirty' = [s \in Souls |-> IF s \in Moving THEN Stride(s, View(s)) ELSE dirty[s]]
      /\ offRecord' = offRecord \cup {s \in Moving : Stopped(s, View(s))}
  BY DEF Physics, Pumping, body
<1> SUFFICES ASSUME snaps # << >>, NEW s \in Souls \ offRecord'
             PROVE  OnRecordAt(s)'
  BY <1>1 DEF OnRecord
<1>2. OnRecordAt(s) /\ Expected(s) = View(s) /\ (s \in Moving => ~ Stopped(s, View(s)))
  BY <1>1 DEF OnRecord, Expected
<1>3. /\ View(s) \in Motion
      /\ View(s).vel = 0 => Integrate(View(s)) = View(s)
      /\ Tracked(Newest, journal, now + 1, s, Integrate(View(s)))
      /\ ~ funded[s] => View(s).vel = 0
  BY <1>2, TrackedStands DEF OnRecordAt
<1>4. View(s)' = Integrate(View(s))
  <2>1. CASE funded[s] /\ View(s).vel # 0
    <3>1. dirty'[s] = Integrate(View(s))
      BY <1>1, <1>2, <2>1 DEF Moving, Stride
    <3> QED
      BY <1>3, <3>1, IntegrateTyped, ViewOfEntry
  <2>2. CASE ~ (funded[s] /\ View(s).vel # 0)
    <3>1. dirty'[s] = dirty[s] /\ disk'[s] = disk[s]
      BY <1>1, <2>2 DEF Moving
    <3>2. View(s)' = View(s)
      BY <3>1 DEF View
    <3> QED
      BY <1>3, <2>2, <3>2
  <2> QED
    BY <2>1, <2>2
<1>5. Expected(s)' = Integrate(View(s)) /\ Newest' = Newest
  BY <1>1, <1>4 DEF Expected, Newest
<1>6. Tracked(Newest, journal, now, s, Expected(s))'
  BY <1>1, <1>3, <1>5
<1>7. tick' = Newest.tick + (now' - Newest.at)
  <2>1. tick = Newest.tick + (now - Newest.at)
    BY <1>1, <1>2 DEF OnRecordAt
  <2>2. Newest.tick \in Nat /\ Newest.at \in Nat /\ now \in Nat
    BY NewestIs, RecoveryParts DEF Shot
  <2> QED
    BY <1>1, <2>1, <2>2
<1>8. ~ funded'[s] => Expected(s)'.vel = 0
  BY <1>1, <1>3, <1>5
<1> QED
  BY <1>5, <1>6, <1>7, <1>8 DEF OnRecordAt

(* Time passes without a process, and for a process whose loop is dead. *)
LEMMA DowntimeOnRecord ==
    ASSUME RecoveryOK, OnRecord, Downtime PROVE OnRecord'
<1>1. /\ UNCHANGED <<disk, dirty, funded, snaps, journal, up, tick>>
      /\ now' = now + 1
      /\ should' = IF up THEN should ELSE [s \in Souls |-> Stride(s, should[s])]
      /\ offRecord' = IF up THEN Souls
                      ELSE offRecord \cup {s \in Souls : Stopped(s, should[s])}
  BY DEF Downtime, body, ram
<1>2. CASE up
  BY <1>1, <1>2 DEF OnRecord
<1>3. CASE ~ up
  <2> SUFFICES ASSUME snaps # << >>, NEW s \in Souls \ offRecord'
               PROVE  OnRecordAt(s)'
    BY <1>1, <1>3 DEF OnRecord
  <2>1. OnRecordAt(s) /\ Expected(s) = should[s]
    BY <1>1, <1>3 DEF OnRecord, Expected
  <2>2. /\ should[s].vel = 0 => Integrate(should[s]) = should[s]
        /\ Tracked(Newest, journal, now + 1, s, Integrate(should[s]))
        /\ ~ funded[s] => should[s].vel = 0
    BY <2>1, TrackedStands DEF OnRecordAt
  <2>3. Expected(s)' = Integrate(should[s]) /\ Newest' = Newest
    <3>1. ~ Stopped(s, should[s])
      BY <1>1, <1>3
    <3> QED
      BY <1>1, <1>3, <3>1 DEF Expected, Newest, Stride
  <2>4. Tracked(Newest, journal, now, s, Expected(s))'
    BY <1>1, <2>2, <2>3
  <2>5. ~ funded'[s] => Expected(s)'.vel = 0
    BY <1>1, <2>2, <2>3
  <2> QED
    BY <1>1, <1>3, <2>4, <2>5 DEF OnRecordAt
<1> QED
  BY <1>2, <1>3

(* A snapshot puts on the record whoever stands, or is on the way to a      *)
(* goal and awake. *)
LEMMA SnapshotOnRecord ==
    ASSUME RecoveryOK, TakeSnapshot, UNCHANGED <<funded, journal, now, tick>>,
           offRecord' = StillOffRecord, \A s \in Souls : Expected(s)' = View(s)
    PROVE  OnRecord'
<1> SUFFICES ASSUME NEW s \in Souls, s \notin StillOffRecord
             PROVE  OnRecordAt(s)'
  BY DEF OnRecord
<1>1. Newest' = Shown /\ Shown \in Shot
  BY SnapshotKept, ShownTyped DEF Newest
<1>2. /\ Shown.tick = tick /\ Shown.at = now /\ Shown.seq = Len(journal)
      /\ Shown.motion[s] = View(s)
  BY DEF Shown
<1>3. Aimed(View(s)) /\ (~ funded[s] => View(s).vel = 0)
  BY DEF StillOffRecord
<1>4. Tracked(Shown, journal, now, s, View(s))
  <2>1. Aimed(Shown.motion[s]) /\ Shown.seq = Len(journal) /\ journal \in Seq(Event)
    BY <1>2, <1>3, RecoveryParts
  <2>2. Tracked(Shown, journal, Shown.at, s, Shown.motion[s])
    BY <1>1, <2>1, TrackedStart
  <2> QED
    BY <1>2, <2>2
<1>5. Tracked(Newest, journal, now, s, Expected(s))'
  BY <1>1, <1>4
<1>6. tick' = Newest'.tick + (now' - Newest'.at)
  BY <1>1, <1>2, RecoveryParts
<1> QED
  BY <1>3, <1>5, <1>6 DEF OnRecordAt

(* A snapshot. *)
LEMMA MaybeSnapshotOnRecord ==
    ASSUME RecoveryOK, MaybeSnapshot PROVE OnRecord'
<1>1. /\ UNCHANGED <<disk, dirty, funded, journal, now, tick, up>> /\ up
      /\ TakeSnapshot /\ offRecord' = StillOffRecord
  BY DEF MaybeSnapshot, body
<1>2. \A s \in Souls : Expected(s)' = View(s)
  BY <1>1 DEF Expected, View
<1> QED
  BY <1>1, <1>2, SnapshotOnRecord

(* A stop: the snapshot is of where everybody is expected. *)
LEMMA StopOnRecord ==
    ASSUME RecoveryOK, Stop PROVE OnRecord'
<1>1. /\ UNCHANGED <<funded, journal, now, tick>> /\ up' = FALSE
      /\ TakeSnapshot /\ offRecord' = StillOffRecord
      /\ should' = [s \in Souls |-> View(s)]
  BY DEF Stop, body
<1>2. \A s \in Souls : Expected(s)' = View(s)
  BY <1>1 DEF Expected
<1> QED
  BY <1>1, <1>2, SnapshotOnRecord

(* A crash: the overlay is lost, what is expected is not. *)
LEMMA CrashOnRecord ==
    ASSUME OnRecord, Crash PROVE OnRecord'
<1>1. /\ UNCHANGED <<funded, journal, snaps, now, offRecord>> /\ up' = FALSE /\ up
      /\ should' = [s \in Souls |-> View(s)]
  BY DEF Crash, body
<1> SUFFICES ASSUME snaps # << >>, NEW s \in Souls \ offRecord
             PROVE  OnRecordAt(s)'
  BY <1>1 DEF OnRecord
<1>2. OnRecordAt(s) /\ Expected(s)' = Expected(s) /\ Newest' = Newest
  BY <1>1 DEF OnRecord, Expected, Newest
<1> QED
  BY <1>1, <1>2 DEF OnRecordAt

(* From the newest snapshot, what the replay leads on the way is on the     *)
(* record; from an older one, or from the table, nothing is. *)
LEMMA BootsOnRecord ==
    ASSUME RecoveryOK, OnRecord,
           BootFromTable \/ \E i \in 1..Len(snaps) : BootFrom(i)
    PROVE  OnRecord'
<1>1. CASE offRecord' = Souls
  BY <1>1 DEF OnRecord
<1>2. CASE BootFromTable
  BY <1>1, <1>2 DEF BootFromTable
<1>3. ASSUME NEW i \in 1..Len(snaps), BootFrom(i), i < Len(snaps) PROVE OnRecord'
  BY <1>1, <1>3 DEF BootFrom
<1>6. CASE snaps # << >> /\ BootFrom(Len(snaps)) /\ Gap(Newest.at) > CatchUpMax
  BY <1>1, <1>6 DEF BootFrom, Newest
<1>4. ASSUME snaps # << >>, BootFrom(Len(snaps)), ~ (Gap(Newest.at) > CatchUpMax)
      PROVE  OnRecord'
  <2> DEFINE gap == now - Newest.at
             exact == gap <= FastForward
             tail == SubSeq(journal, Newest.seq + 1, Len(journal))
  <2>1. Newest \in Shot /\ Behind(Newest, journal, now) /\ Len(snaps) \in Nat
    BY <1>4, NewestIs, RecoveryParts
  <2>2. /\ RecoverFrom(Newest.motion, Newest.tick, Newest.at, tail)
        /\ offRecord' = {s \in Souls : \/ ~ funded[s] /\ disk'[s].vel # 0
                                       \/ Misled(Newest.motion[s], s, tail, Newest.tick, gap)}
        /\ Restarted
    <3>1. ~ (Len(snaps) < Len(snaps) \/ Gap(Newest.at) > CatchUpMax)
      BY <1>4, <2>1
    <3> QED
      BY <1>4, <3>1 DEF BootFrom, Newest, Since, Gap
  <2>3. /\ disk' = [s \in Souls |-> ReplayTail(Newest.motion[s], s, tail, Newest.tick,
                                               gap, exact)]
        /\ tick' = Newest.tick + gap
    <3>1. Gap(Newest.at) = gap /\ Caught(Newest.at) = gap
      <4>1. Newest.at \in Nat /\ now \in Nat /\ CatchUpMax \in Nat
        BY <2>1, RecoveryParts, RecoveryBoundsNat DEF Shot
      <4> QED
        BY <1>4, <4>1 DEF Gap, Caught
    <3> QED
      BY <2>2, <3>1 DEF RecoverFrom
  <2>4. /\ UNCHANGED <<funded, journal, snaps, now>> /\ up' = TRUE
        /\ dirty' = [s \in Souls |-> Clean]
    BY <2>2 DEF Restarted, body
  <2> SUFFICES ASSUME NEW s \in Souls, s \notin offRecord' PROVE OnRecordAt(s)'
    BY DEF OnRecord
  <2>5. Expected(s)' = disk'[s] /\ Newest' = Newest
    BY <2>4 DEF Expected, View, Newest
  <2>6. ~ Misled(Newest.motion[s], s, tail, Newest.tick, gap)
        /\ (~ funded[s] => disk'[s].vel = 0)
    BY <2>2
  <2>7. Tracked(Newest, journal, now, s, ReplayTail(Newest.motion[s], s, tail, Newest.tick,
                                                   gap, exact))
    BY <2>1, <2>6, TrackedBoot
  <2>8. Tracked(Newest, journal, now, s, Expected(s))'
    BY <2>3, <2>4, <2>5, <2>7
  <2> QED
    BY <2>3, <2>4, <2>5, <2>6, <2>8 DEF OnRecordAt
<1>5. ASSUME NEW i \in 1..Len(snaps), BootFrom(i) PROVE OnRecord'
  <2>1. Len(snaps) \in Nat /\ i \in Nat /\ i <= Len(snaps) /\ 1 <= i
    BY RecoveryParts
  <2>2. CASE i < Len(snaps)
    BY <1>3, <1>5, <2>2
  <2>3. CASE i = Len(snaps)
    <3>1. snaps # << >>
      BY <2>1
    <3> QED
      BY <1>4, <1>5, <1>6, <2>3, <3>1
  <2> QED
    BY <2>1, <2>2, <2>3
<1> QED
  BY <1>2, <1>5

(* There is no snapshot at first. *)
LEMMA OnRecordInit == RecoveryInit => OnRecord
BY DEF RecoveryInit, OnRecord

(* Every step keeps the record. *)
LEMMA OnRecordStep == RecoveryOK /\ OnRecord /\ [RecoveryNext]_recoveryVars => OnRecord'
<1> SUFFICES ASSUME RecoveryOK, OnRecord, [RecoveryNext]_recoveryVars PROVE OnRecord'
  OBVIOUS
<1>1. CASE UNCHANGED recoveryVars
  BY <1>1, KeptOnRecord DEF recoveryVars, View
<1>2. CASE SkipTicks
  BY <1>2 DEF SkipTicks, OnRecord
<1>3. CASE \E s \in Souls, x \in Goals :
               MoveTo(s, x) \/ Steer(s, x) \/ CarryTo(s, x) \/ SaveSoul(s, x)
  BY <1>3, MoveToOnRecord, PumpsOnRecord
<1>4. CASE \E s \in Souls : Rest(s) \/ GoDormant(s) \/ Wake(s) \/ Collapse(s)
  BY <1>4, StillsOnRecord, WakeOnRecord
<1>8. CASE ChangeAccess
  BY <1>8, KeptOnRecord DEF ChangeAccess, ram, View
<1>5. CASE \/ Physics \/ MaybeFlush \/ FlushFails \/ MaybeSnapshot \/ Stop \/ Crash
           \/ Downtime
  BY <1>5, PhysicsOnRecord, MaybeFlushOnRecord, FlushFailsOnRecord, MaybeSnapshotOnRecord,
     StopOnRecord, CrashOnRecord, DowntimeOnRecord
<1>6. CASE BootFromTable \/ \E i \in 1..Len(snaps) : BootFrom(i)
  BY <1>6, BootsOnRecord
<1>7. CASE RecoveryNext
  BY <1>7, <1>2, <1>3, <1>4, <1>5, <1>6, <1>8 DEF RecoveryNext
<1> QED
  BY <1>1, <1>7

(* The table that a boot from the newest snapshot writes. *)
LEMMA BootIsExact ==
    ASSUME RecoveryOK, OnRecord, snaps # << >>, BootFrom(Len(snaps)),
           Gap(snaps[Len(snaps)].at) <= CatchUpMax, NEW s \in Souls \ offRecord
    PROVE  disk'[s] = should[s]
<1>1. Behind(Newest, journal, now)
  BY NewestIs
<1>2. Tracked(Newest, journal, now, s, should[s])
  BY DEF OnRecord, OnRecordAt, Expected, BootFrom
<1>3. disk'[s] = ReplayTail(Newest.motion[s], s,
                            SubSeq(journal, Newest.seq + 1, Len(journal)), Newest.tick,
                            now - Newest.at, now - Newest.at <= FastForward)
  BY DEF BootFrom, RecoverFrom, Since, Newest, Gap, Caught
<1> QED
  BY <1>1, <1>2, <1>3, TrackedTells

(* A restart from the newest snapshot, within the cap of the catch-up, puts *)
(* a soul that only adjudicated moves have set in motion, and that no       *)
(* closed plot has stopped, exactly where it would be had the process never *)
(* died: the journal behind the snapshot, replayed per tick or in closed    *)
(* form (recover_world, replay_tail), gives what the tick loop and the      *)
(* overlay gave, and the clock after them, over any number of crashes. *)
THEOREM RecoveryIsExact == RecoverySpec => RecoveryExact
<1>1. /\ RecoveryOK /\ OnRecord /\ [RecoveryNext]_recoveryVars
      => [snaps # << >> /\ BootFrom(Len(snaps)) /\ Gap(snaps[Len(snaps)].at) <= CatchUpMax
            => \A s \in Souls \ offRecord : disk'[s] = should[s]]_recoveryVars
  BY BootIsExact
<1> QED
  BY <1>1, RecoveryTypedInit, RecoveryTypedStep, OnRecordInit, OnRecordStep, PTL
     DEF RecoverySpec, RecoveryExact

=============================================================================
