-------------------------- MODULE IntentPumpProofs --------------------------
(***************************************************************************)
(* Proofs about the intent queue and its pump (IntentPump), for any set of *)
(* keys and any bounds.                                                    *)
(***************************************************************************)
EXTENDS IntentPump, FiniteSetTheorems, TLAPS

(* The order of the rows: no two have the same place, and the next row to  *)
(* be inserted gets a place of its own.                                    *)
OrderInv ==
    /\ \A k \in Rows : born[k] <= Cardinality(Rows)
    /\ \A j, k \in Rows : born[j] = born[k] => j = k

(* An older row that a pass has left pending was put off by a failed       *)
(* write.                                                                  *)
QueueInv ==
    /\ \A j \in batch, k \in Pending \ batch : born[k] < born[j] => k \in late
    /\ \A j \in Rows \ Pending, k \in Pending : born[k] < born[j] => k \in late

PumpIInv == PumpTypeOK /\ PassIsFresh /\ OrderInv /\ QueueInv

(* The intents enqueued so far are finitely many, so their count is a number. *)
LEMMA RowsCount == IsFiniteSet(Rows) /\ Cardinality(Rows) \in Nat
<1>1. Rows \subseteq Keys
  BY DEF Rows
<1>2. QED
  BY <1>1, KeysFinite, FS_Subset, FS_CardinalityType

(* The queue starts in the invariant. *)
LEMMA PumpInitInv == PumpInit => PumpIInv /\ batch \subseteq Pending
<1> SUFFICES ASSUME PumpInit PROVE PumpIInv /\ batch \subseteq Pending
  OBVIOUS
<1> USE DEF PumpInit
<1>1. PumpTypeOK
  BY DEF PumpTypeOK, Statuses, Settled
<1>2. Rows = {}
  BY DEF Rows
<1>3. QED
  BY <1>1, <1>2 DEF PumpIInv, PassIsFresh, OrderInv, QueueInv, Pending

(* What the parts of the invariant say of numbers and sets.                *)
LEMMA PumpParts ==
    ASSUME PumpIInv
    PROVE  /\ \A k \in Keys : born[k] \in Nat
           /\ Pending \subseteq Rows /\ Rows \subseteq Keys /\ batch \subseteq Keys
           /\ \A k \in Keys : status[k] \in {"absent", "pending"} \cup Settled
BY DEF PumpIInv, PumpTypeOK, Pending, Rows, Statuses

(* What a pass reads reaches back to the oldest pending row. *)
LEMMA OldestReachBack ==
    ASSUME PumpTypeOK, NEW j \in OldestPending, NEW k \in Pending, born[k] < born[j]
    PROVE  k \in OldestPending
<1> DEFINE A == {i \in Pending : born[i] < born[k]}
           B == {i \in Pending : born[i] < born[j]}
<1>1. j \in Keys /\ k \in Keys /\ Pending \subseteq Keys
  BY DEF OldestPending, Pending
<1>2. \A i \in Keys : born[i] \in Nat
  BY DEF PumpTypeOK
<1>3. A \subseteq B
  BY <1>1, <1>2
<1>4. B \subseteq Keys /\ Cardinality(B) < PumpLimit
  BY <1>1 DEF OldestPending
<1> HIDE DEF A, B
<1>5. IsFiniteSet(B)
  BY <1>4, KeysFinite, FS_Subset
<1>6. IsFiniteSet(A) /\ Cardinality(A) <= Cardinality(B)
  BY <1>3, <1>5, FS_Subset
<1>7. Cardinality(A) \in Nat /\ Cardinality(B) \in Nat
  BY <1>5, <1>6, FS_CardinalityType
<1>8. Cardinality(A) < PumpLimit
  BY <1>4, <1>6, <1>7, PumpLimitPos
<1>9. QED
  BY <1>8 DEF OldestPending, A

(* A new row goes to the end of the order.                                 *)
LEMMA InsertInv ==
    ASSUME PumpIInv, NEW k \in Keys, Insert(k)
    PROVE  PumpIInv'
<1> USE DEF PumpIInv, Insert
<1>0. acked' \subseteq acked \cup {k}
  BY DEF Reply
<1>1. PumpTypeOK'
  BY <1>0, RowsCount DEF PumpTypeOK, Statuses, Settled
<1>2. /\ k \notin Rows /\ Rows' = Rows \cup {k}
      /\ Pending' = Pending \cup {k} /\ Rows' \ Pending' = Rows \ Pending
  BY DEF Rows, Pending, PumpTypeOK, Statuses, Settled
<1>3. Cardinality(Rows') = Cardinality(Rows) + 1
  BY <1>2, RowsCount, FS_AddElement
<1>4. born'[k] = Cardinality(Rows) + 1 /\ \A j \in Rows : born'[j] = born[j]
  BY <1>2 DEF PumpTypeOK, Rows
<1>5. \A j \in Rows : born[j] \in Nat /\ born[j] < Cardinality(Rows) + 1
  BY RowsCount DEF OrderInv, PumpTypeOK, Rows
<1>6. OrderInv'
  BY <1>2, <1>3, <1>4, <1>5, RowsCount DEF OrderInv
<1>7. PassIsFresh'
  BY <1>0, <1>2, <1>6 DEF PassIsFresh, OrderInv
<1>8. QueueInv'
  <2>1. ASSUME NEW j \in Rows \ Pending, NEW i \in Pending', born'[i] < born'[j]
        PROVE  i \in late
    <3>1. born'[j] = born[j] /\ born[j] < born'[k] /\ born'[k] \in Nat /\ born[j] \in Nat
      BY <1>4, <1>5, RowsCount
    <3>2. i # k
      BY <2>1, <3>1
    <3>3. i \in Pending /\ i \in Rows
      BY <1>2, <3>2 DEF Pending, Rows
    <3>4. QED
      BY <1>4, <2>1, <3>1, <3>3 DEF QueueInv
  <2>2. QED
    BY <1>2, <2>1 DEF QueueInv
<1>9. QED
  BY <1>1, <1>6, <1>7, <1>8

(* A step that leaves the rows and their order alone keeps the invariant   *)
(* when what is left of the batch is pending, and no row has been passed   *)
(* over that was not put off.                                              *)
LEMMA SameRowsInv ==
    ASSUME PumpIInv, PumpTypeOK', Rows' = Rows, born' = born, acked' \subseteq Rows,
           \A j \in batch' : status'[j] # "pending" =>
              status'[j] \in Settled /\ Turn(j)',
           QueueInv'
    PROVE  PumpIInv'
BY DEF PumpIInv, PassIsFresh, OrderInv

(* The row in turn, alone, may be settled, be it by its handler or by the  *)
(* pump's rejection, and leaves the batch then or right after.             *)
LEMMA TurnTaken ==
    ASSUME PumpIInv, NEW k \in Keys, Turn(k),
           NEW outcome \in Settled \cup {"pending"},
           outcome = "pending" => status[k] = "pending",
           status' = [status EXCEPT ![k] = outcome], UNCHANGED <<born, acked>>,
           batch' = batch \ {k} \/ (batch' = batch /\ outcome # "pending"),
           late' = late \/ late' = late \cup {k},
           outcome = "pending" => late' = late \cup {k},
           PumpTypeOK'
    PROVE  PumpIInv'
<1>1. k \in batch /\ \A j \in batch : born[k] <= born[j]
  BY DEF Turn
<1>2. \A j \in batch \ {k} : status[j] = "pending"
  <2>1. SUFFICES ASSUME NEW j \in batch, status[j] # "pending" PROVE j = k
    OBVIOUS
  <2>2. status[j] \in Settled /\ born[j] <= born[k] /\ j \in Keys
    BY <1>1, <2>1, PumpParts DEF PumpIInv, PassIsFresh, Turn
  <2>3. j \in Rows
    BY <2>2 DEF Rows, Settled
  <2>4. status[k] # "absent"
    BY <1>1 DEF PumpIInv, PassIsFresh, Settled
  <2>5. born[j] = born[k]
    BY <1>1, <2>2, PumpParts
  <2>6. QED
    BY <2>3, <2>4, <2>5 DEF PumpIInv, OrderInv, Rows
<1>3. status[k] # "absent" /\ status[k] \in Statuses
  BY <1>1 DEF PumpIInv, PassIsFresh, PumpTypeOK, Settled
<1>4. Rows' = Rows
  BY <1>3 DEF PumpIInv, PumpTypeOK, Rows, Settled
<1>5. Pending' = IF outcome = "pending" THEN Pending ELSE Pending \ {k}
  BY DEF PumpIInv, PumpTypeOK, Pending, Settled
<1>6. ASSUME NEW i \in Pending, i # k, born[i] < born[k] PROVE i \in late
  <2>1. i \notin batch
    BY <1>1, <1>6, PumpParts
  <2>2. QED
    BY <1>1, <1>6, <2>1 DEF PumpIInv, QueueInv
<1>7. \A j \in batch' : status'[j] # "pending" => status'[j] \in Settled /\ Turn(j)'
  BY <1>1, <1>2 DEF PumpIInv, PumpTypeOK, Turn
<1>8. QueueInv'
  <2>1. \A j \in batch', i \in Pending' \ batch' : born'[i] < born'[j] => i \in late'
    BY <1>5 DEF PumpIInv, QueueInv, Pending
  <2>2. ASSUME NEW j \in Rows' \ Pending', NEW i \in Pending', born'[i] < born'[j]
        PROVE  i \in late'
    <3>1. i \in Pending /\ i \in Keys /\ (i = k => outcome = "pending")
      BY <1>5 DEF Pending
    <3>2. CASE j = k
      <4>1. born[i] < born[k] /\ i # k
        BY <2>2, <3>2, PumpParts
      <4>2. QED
        BY <1>6, <3>1, <4>1
    <3>3. CASE j # k
      <4>1. j \in Rows \ Pending
        BY <1>4, <1>5, <2>2, <3>3
      <4>2. QED
        BY <2>2, <3>1, <4>1 DEF PumpIInv, QueueInv
    <3>4. QED
      BY <3>2, <3>3
  <2>3. QED
    BY <2>1, <2>2 DEF QueueInv
<1>9. QED
  BY <1>4, <1>7, <1>8, SameRowsInv DEF PumpIInv, PassIsFresh

(* A step that leaves the rows alone, and the batch or none of it. *)
LEMMA TableKept ==
    ASSUME PumpIInv, UNCHANGED <<status, born, late>>, batch' = batch \/ batch' = {},
           acked' \subseteq Rows, PumpTypeOK'
    PROVE  PumpIInv'
<1>1. Rows' = Rows /\ Pending' = Pending
  BY DEF Rows, Pending
<1>2. QueueInv'
  BY <1>1 DEF PumpIInv, QueueInv
<1>3. \A j \in batch' : status'[j] # "pending" => status'[j] \in Settled /\ Turn(j)'
  BY DEF PumpIInv, PassIsFresh, Turn
<1>4. QED
  BY <1>1, <1>2, <1>3, SameRowsInv

(* Every step of the pump keeps the invariant.                             *)
LEMMA PumpStepInv ==
    ASSUME PumpIInv, [PumpNext]_pumpVars
    PROVE  PumpIInv'
<1>0. PumpTypeOK /\ acked \subseteq Rows
  BY DEF PumpIInv, PassIsFresh
<1>1. ASSUME NEW k \in Keys, Insert(k) PROVE PumpIInv'
  BY <1>1, InsertInv
<1>2. ASSUME NEW k \in Keys, Retry(k) PROVE PumpIInv'
  <2>1. PumpTypeOK' /\ acked' \subseteq Rows
    BY <1>0, <1>2 DEF PumpTypeOK, Retry, Rows
  <2>2. QED
    BY <1>2, <2>1, TableKept DEF Retry
<1>3. ASSUME NEW k \in Keys, NEW outcome \in Settled, Settle(k, outcome), faults' \in Nat
      PROVE  PumpIInv'
  <2>1. PumpTypeOK'
    BY <1>0, <1>3 DEF PumpTypeOK, Settle, Statuses
  <2>2. outcome # "pending"
    BY DEF Settled
  <2>3. QED
    BY <1>3, <2>1, <2>2, TurnTaken DEF Settle
<1>4. ASSUME NEW k \in Keys, Adjudicate(k) PROVE PumpIInv'
  BY <1>0, <1>3, <1>4 DEF Adjudicate, NoFault, PumpTypeOK
<1>5. ASSUME NEW k \in Keys, RejectInternal(k) PROVE PumpIInv'
  <2>1. faults' \in Nat
    BY <1>0, <1>5 DEF RejectInternal, Fault, NoFault, PumpTypeOK
  <2>2. PumpTypeOK'
    BY <1>0, <1>5, <2>1 DEF PumpTypeOK, RejectInternal, Statuses, Settled
  <2>3. "rejected" \in Settled /\ "rejected" # "pending"
    BY DEF Settled
  <2>4. QED
    BY <1>5, <2>2, <2>3, TurnTaken DEF RejectInternal
<1>6. ASSUME NEW k \in Keys, NEW outcome \in Settled, SettleThenRaise(k, outcome)
      PROVE  PumpIInv'
  <2>1. PumpTypeOK'
    BY <1>0, <1>6 DEF PumpTypeOK, SettleThenRaise, Fault, Statuses
  <2>2. outcome # "pending"
    BY DEF Settled
  <2>3. QED
    BY <1>6, <2>1, <2>2, TurnTaken DEF SettleThenRaise
<1>7. ASSUME NEW k \in Keys, Postpone(k) PROVE PumpIInv'
  <2>1. PumpTypeOK'
    BY <1>0, <1>7 DEF PumpTypeOK, Postpone, Fault
  <2>2. k \in batch /\ status[k] \in Settled \cup {"pending"}
    BY <1>7 DEF Postpone, Turn, PumpIInv, PassIsFresh
  <2>3. status' = [status EXCEPT ![k] = status[k]]
    BY <1>0, <1>7 DEF Postpone, PumpTypeOK
  <2>4. QED
    BY <1>7, <2>1, <2>2, <2>3, TurnTaken DEF Postpone
<1>8. ASSUME PumpBegin PROVE PumpIInv'
  <2>1. batch' = OldestPending /\ UNCHANGED <<status, born, late, acked>>
    BY <1>8 DEF PumpBegin
  <2>2. Pending' = Pending /\ Rows' = Rows /\ OldestPending \subseteq Pending
    BY <2>1 DEF Pending, Rows, OldestPending
  <2>3. PumpTypeOK'
    BY <1>0, <1>8, <2>2 DEF PumpTypeOK, PumpBegin, Pending
  <2>4. QueueInv'
    BY <1>0, <2>1, <2>2, OldestReachBack DEF QueueInv, PumpIInv
  <2>5. \A j \in batch' : status'[j] = "pending"
    BY <2>1, <2>2 DEF Pending
  <2>6. QED
    BY <1>0, <2>1, <2>2, <2>3, <2>4, <2>5, SameRowsInv
<1>9. ASSUME Crash \/ LoopEnds PROVE PumpIInv'
  <2>1. PumpTypeOK'
    <3>1. faults' \in Nat /\ crashes' \in Nat
      BY <1>0, <1>9 DEF PumpTypeOK, Crash, LoopEnds, Fault
    <3>2. up' \in BOOLEAN /\ ticking' \in BOOLEAN
      BY <1>0, <1>9, Zenon DEF PumpTypeOK, Crash, LoopEnds
    <3>3. QED
      BY <1>0, <1>9, <3>1, <3>2 DEF PumpTypeOK, Crash, LoopEnds
  <2>2. QED
    BY <1>0, <1>9, <2>1, TableKept DEF Crash, LoopEnds
<1>10. ASSUME Boot PROVE PumpIInv'
  <2>1. PumpTypeOK'
    BY <1>0, <1>10 DEF PumpTypeOK, Boot
  <2>2. QED
    BY <1>0, <1>10, <2>1, TableKept DEF Boot
<1>11. CASE UNCHANGED pumpVars
  <2>1. PumpTypeOK'
    BY <1>0, <1>11 DEF PumpTypeOK, pumpVars
  <2>2. QED
    BY <1>0, <1>11, <2>1, TableKept DEF pumpVars
<1>12. QED
  BY <1>1, <1>2, <1>4, <1>5, <1>6, <1>7, <1>8, <1>9, <1>10, <1>11
     DEF PumpNext, QuietNext

(* A pass only ever has pending rows left to do, but for the one whose     *)
(* handler has just raised, and replies are only given for rows of the     *)
(* table (world_tick.py:432).                                              *)
THEOREM PumpSafe == PumpSpec => [](PumpTypeOK /\ PassIsFresh)
<1>1. PumpIInv => PumpTypeOK /\ PassIsFresh
  BY DEF PumpIInv
<1>2. QED
  BY <1>1, PumpInitInv, PumpStepInv, PTL DEF PumpSpec

(* An older intent is still pending behind a settled one only when its own *)
(* writes failed at its turn: what the limit of a pass leaves over, and    *)
(* what a crash interrupts, is older than whatever is settled later        *)
(* (intents.py:368).                                                       *)
THEOREM PumpOrdered == PumpSpec => []OldestFirst
<1>1. PumpIInv => OldestFirst
  BY DEF PumpIInv, QueueInv, OldestFirst, Rows, Pending, Settled
<1>2. QED
  BY <1>1, PumpInitInv, PumpStepInv, PTL DEF PumpSpec

-----------------------------------------------------------------------------
(* Every step moves a settled intent to "rejected" at most, and then it is *)
(* the one in turn.                                                        *)
LEMMA PumpStepOverturns ==
    ASSUME PumpTypeOK, [PumpNext]_pumpVars, NEW k \in Keys, status[k] \in Settled,
           status'[k] # status[k]
    PROVE  status'[k] = "rejected" /\ Turn(k) /\ batch' = batch \ {k}
<1> USE DEF PumpTypeOK, Settled
<1>1. ASSUME NEW j \in Keys, Insert(j) PROVE status'[k] = status[k]
  BY <1>1 DEF Insert
<1>2. ASSUME NEW j \in Keys, NEW outcome,
             Settle(j, outcome) \/ SettleThenRaise(j, outcome)
      PROVE  status'[k] = status[k]
  BY <1>2 DEF Settle, SettleThenRaise
<1>3. ASSUME NEW j \in Keys, RejectInternal(j)
      PROVE  \/ status'[k] = status[k]
             \/ status'[k] = "rejected" /\ Turn(k) /\ batch' = batch \ {k}
  BY <1>3 DEF RejectInternal
<1>4. CASE UNCHANGED status
  BY <1>4
<1>5. QED
  BY <1>1, <1>2, <1>3, <1>4
     DEF PumpNext, QuietNext, pumpVars, Retry, Adjudicate, Postpone, PumpBegin,
         LoopEnds, Crash, Boot

(* An outcome is overturned only within the pass that gave it, by the      *)
(* pump's rejection of an intent whose handler committed and then raised   *)
(* (world_tick.py:487-502): through later passes, retries and restarts it  *)
(* stays.                                                                  *)
THEOREM PumpFinal == PumpSpec => OverturnedInItsPass
<1>1. PumpTypeOK /\ [PumpNext]_pumpVars =>
        [\A k \in Keys :
            status[k] \in Settled /\ status'[k] # status[k]
            => /\ status'[k] = "rejected"
               /\ Turn(k) /\ batch' = batch \ {k}]_pumpVars
  BY PumpStepOverturns
<1>2. QED
  BY <1>1, PumpSafe, PTL DEF PumpSpec, OverturnedInItsPass

(* Where no handler raises after its commit, a pass has pending rows only. *)
LEMMA QuietStepInv ==
    ASSUME PumpIInv, batch \subseteq Pending, [QuietNext]_pumpVars
    PROVE  batch' \subseteq Pending'
<1>1. ASSUME NEW k \in Keys, NEW outcome,
             \/ Settle(k, outcome) \/ RejectInternal(k) \/ Postpone(k)
      PROVE  batch' \subseteq Pending'
  BY <1>1 DEF Settle, RejectInternal, Postpone, Pending, PumpIInv, PumpTypeOK
<1>2. ASSUME NEW k \in Keys, Insert(k) PROVE batch' \subseteq Pending'
  BY <1>2 DEF Insert
<1>3. CASE PumpBegin
  BY <1>3 DEF PumpBegin, OldestPending, Pending
<1>4. CASE UNCHANGED status /\ (batch' = batch \/ batch' = {})
  BY <1>4 DEF Pending
<1>5. QED
  BY <1>1, <1>2, <1>3, <1>4
     DEF QuietNext, Adjudicate, pumpVars, Retry, LoopEnds, Crash, Boot

(* No step of such a queue moves an intent that is settled. *)
LEMMA QuietStepFinal ==
    ASSUME PumpIInv, batch \subseteq Pending, [QuietNext]_pumpVars,
           NEW k \in Keys, status[k] \in Settled
    PROVE  status'[k] = status[k]
<1>1. [PumpNext]_pumpVars
  BY DEF PumpNext
<1>2. k \notin batch
  BY DEF Pending, Settled
<1>3. QED
  BY <1>1, <1>2, PumpStepOverturns DEF PumpIInv, Turn

(* Such a queue is one of the pump's.                                      *)
LEMMA QuietPumps == QuietSpec => PumpSpec
<1>1. QuietNext => PumpNext
  BY DEF PumpNext
<1>2. QED
  BY <1>1, PTL DEF QuietSpec, PumpSpec

(* Where no handler raises after its commit, a settled intent keeps its    *)
(* outcome through retries, later passes and restarts.                     *)
THEOREM QuietFinal == QuietSpec => OutcomeFinal
<1>1. PumpIInv /\ batch \subseteq Pending /\ [QuietNext]_pumpVars =>
        [\A k \in Keys : status[k] \in Settled => status'[k] = status[k]]_pumpVars
  BY QuietStepFinal
<1>2. PumpIInv /\ batch \subseteq Pending /\ [QuietNext]_pumpVars
        => (PumpIInv /\ batch \subseteq Pending)'
  BY PumpStepInv, QuietStepInv DEF PumpNext
<1>3. QED
  BY <1>1, <1>2, PumpInitInv, PTL DEF QuietSpec, OutcomeFinal
=============================================================================
