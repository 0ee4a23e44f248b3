----------------------------- MODULE IntentPump -----------------------------
(***************************************************************************)
(* The durable intent queue of hub-sim and the tick pump that drains it:   *)
(* the table `intents` (server/intents.py), the IPC handler that inserts   *)
(* into it (server/sim_ipc.py) and the pump of the tick loop               *)
(* (server/world_tick.py).                                                 *)
(*                                                                         *)
(* An intent is named by its idempotency key, the pair (session_id, nonce) *)
(* that the table declares UNIQUE.  Every kind of intent has this life;    *)
(* what a kind does to the rest of the world is added by the modules that  *)
(* extend this one (Market), whose actions conjoin the ones below.         *)
(*                                                                         *)
(* The step lock of the tick is held by a whole pump pass and by every     *)
(* insertion, so no intent is inserted while a pass is under way.  A pass  *)
(* is still many steps: each intent is adjudicated by a transaction of its *)
(* own, and the process may die between two of them.                       *)
(***************************************************************************)
EXTENDS Integers, FiniteSets

CONSTANTS
    Keys,        \* idempotency keys: (session_id, nonce)
    PumpLimit,   \* pending_intents(limit): the most one pass reads
    MaxCrashes,  \* bound: crashes of the sim process in a behaviour
    MaxFaults,   \* bound: failed database writes between two boots
    MaxLost      \* bound: lost replies whose submitters have yet to try again

ASSUME KeysFinite == IsFiniteSet(Keys)
ASSUME BoundsNat == {MaxCrashes, MaxFaults, MaxLost} \subseteq Nat
ASSUME PumpLimitPos == PumpLimit \in Nat \ {0}

VARIABLES
    status,   \* intents.status; "absent" when the table has no row for the key
    born,     \* the row's place in (created_at, rowid) order
    acked,    \* keys whose submitter has been given the row
    batch,    \* rows the current pump pass has read and not yet adjudicated
    late,     \* history: rows a pass had to leave as they were
    up,       \* the sim process has booted and serves IPC
    ticking,  \* its tick loop runs
    faults,   \* failed writes since the last boot
    crashes   \* crashes so far

pumpVars == <<status, born, acked, batch, late, up, ticking, faults, crashes>>

Settled == {"adjudicated", "rejected"}
Statuses == {"absent", "pending"} \cup Settled

Rows == {k \in Keys : status[k] # "absent"}
Pending == {k \in Keys : status[k] = "pending"}

(* Mutant: the newest pending rows are read.                               *)
NewestPending ==
    {k \in Pending :
        Cardinality({j \in Pending : born[j] > born[k]}) < PumpLimit}

(* The rows a pass reads: the PumpLimit oldest pending ones.               *)
OldestPending ==
    {k \in Pending :
        Cardinality({j \in Pending : born[j] < born[k]}) < PumpLimit}

(* The row of the batch whose turn it is.                                  *)
Turn(k) == k \in batch /\ \A j \in batch : born[k] <= born[j]

PumpInit ==
    /\ status = [k \in Keys |-> "absent"]
    /\ born = [k \in Keys |-> 0]
    /\ acked = {}
    /\ batch = {}
    /\ late = {}
    /\ up = TRUE
    /\ ticking = TRUE
    /\ faults = 0
    /\ crashes = 0

-----------------------------------------------------------------------------
(* Submission.  The row is committed before the reply is sent; the reply   *)
(* may be lost with the connection.                                        *)
Reply(k) ==
    \/ acked' = acked \cup {k}
    \/ Cardinality(Rows \ acked) < MaxLost /\ UNCHANGED acked

(* Mutant: the reply is sent before the row is committed.                  *)
InsertAcksFirst(k) ==
    /\ up
    /\ batch = {}
    /\ status[k] = "absent"
    /\ status' \in {status, [status EXCEPT ![k] = "pending"]}
    /\ born' = [born EXCEPT ![k] = Cardinality(Rows) + 1]
    /\ acked' = acked \cup {k}
    /\ UNCHANGED <<batch, late, up, ticking, faults, crashes>>

Insert(k) ==
    /\ up
    /\ batch = {}
    /\ status[k] = "absent"
    /\ status' = [status EXCEPT ![k] = "pending"]
    /\ born' = [born EXCEPT ![k] = Cardinality(Rows) + 1]
    /\ Reply(k)
    /\ UNCHANGED <<batch, late, up, ticking, faults, crashes>>

(* Mutant: INSERT OR REPLACE makes the row pending again.                  *)
RetryReplaces(k) ==
    /\ up
    /\ batch = {}
    /\ status[k] # "absent"
    /\ k \notin acked
    /\ acked' = acked \cup {k}
    /\ status' = [status EXCEPT ![k] = "pending"]
    /\ UNCHANGED <<born, batch, late, up, ticking, faults, crashes>>

(* The submitter repeats a key whose row exists: the UNIQUE constraint     *)
(* refuses the insertion and the row itself is returned.                   *)
Retry(k) ==
    /\ up
    /\ batch = {}
    /\ status[k] # "absent"
    /\ k \notin acked
    /\ acked' = acked \cup {k}
    /\ UNCHANGED <<status, born, batch, late, up, ticking, faults, crashes>>

-----------------------------------------------------------------------------
(* The pump pass of one tick, and the one that boot runs.                  *)
PumpBegin ==
    /\ ticking
    /\ batch = {}
    /\ Pending # {}
    /\ batch' = OldestPending
    /\ UNCHANGED <<status, born, acked, late, up, ticking, faults, crashes>>

(* The transaction that adjudicates one row re-reads its status, and       *)
(* settles it only when it is still pending.                               *)
Settle(k, outcome) ==
    /\ up
    /\ Turn(k)
    /\ status[k] = "pending"
    /\ status' = [status EXCEPT ![k] = outcome]
    /\ batch' = batch \ {k}
    /\ UNCHANGED <<born, acked, late, up, ticking, crashes>>

(* The database refuses one more write, or a handler raises.               *)
Fault ==
    /\ faults < MaxFaults
    /\ faults' = faults + 1

NoFault == UNCHANGED faults

(* A handler commits its transaction and raises after it: the row is       *)
(* settled, and the pump is about to reject it.                            *)
SettleThenRaise(k, outcome) ==
    /\ up
    /\ Turn(k)
    /\ status[k] = "pending"
    /\ Fault
    /\ status' = [status EXCEPT ![k] = outcome]
    /\ UNCHANGED <<born, acked, batch, late, up, ticking, crashes>>

(* _reject, after an exception of the handler: an UPDATE by intent id that *)
(* does not look at the status, which is no longer pending when the        *)
(* handler had committed.                                                  *)
RejectInternal(k) ==
    /\ up
    /\ Turn(k)
    /\ IF status[k] = "pending" THEN Fault ELSE NoFault
    /\ status' = [status EXCEPT ![k] = "rejected"]
    /\ batch' = batch \ {k}
    /\ UNCHANGED <<born, acked, late, up, ticking, crashes>>

(* Neither the adjudication nor its rejection could be written, or only    *)
(* the adjudication: the row stays as it is, and when that is pending the  *)
(* next pass reads it again.                                               *)
Postpone(k) ==
    /\ up
    /\ Turn(k)
    /\ Fault
    /\ batch' = batch \ {k}
    /\ late' = late \cup {k}
    /\ UNCHANGED <<status, born, acked, up, ticking, crashes>>

(* An exception outside the handlers (the read of the pending rows, the    *)
(* connection for a rejection, the batcher, biology) leaves `step` and     *)
(* ends the task of the tick loop.  Nothing awaits that task: the process  *)
(* stays up, and its IPC server goes on acknowledging intents.             *)
LoopEnds ==
    /\ ticking
    /\ Fault
    /\ ticking' = FALSE
    /\ batch' = {}
    /\ UNCHANGED <<status, born, acked, late, up, crashes>>

-----------------------------------------------------------------------------
(* The process dies: what it held in memory is gone, the table is not.     *)
Crash ==
    /\ up
    /\ crashes < MaxCrashes
    /\ up' = FALSE
    /\ ticking' = FALSE
    /\ batch' = {}
    /\ crashes' = crashes + 1
    /\ UNCHANGED <<status, born, acked, late, faults>>

Boot ==
    /\ ~up
    /\ up' = TRUE
    /\ ticking' = TRUE
    /\ faults' = 0
    /\ UNCHANGED <<status, born, acked, batch, late, crashes>>

-----------------------------------------------------------------------------
Adjudicate(k) == \E outcome \in Settled : Settle(k, outcome) /\ NoFault

(* The pump when no handler raises after its commit, as those of the       *)
(* market and of the message board.                                        *)
QuietNext ==
    \/ \E k \in Keys : \/ Insert(k)
                       \/ Retry(k)
                       \/ Adjudicate(k)
                       \/ RejectInternal(k)
                       \/ Postpone(k)
    \/ PumpBegin
    \/ LoopEnds
    \/ Crash
    \/ Boot

PumpNext ==
    \/ QuietNext
    \/ \E k \in Keys, outcome \in Settled : SettleThenRaise(k, outcome)

PumpSpec == PumpInit /\ [][PumpNext]_pumpVars

QuietSpec == PumpInit /\ [][QuietNext]_pumpVars

-----------------------------------------------------------------------------
PumpTypeOK ==
    /\ status \in [Keys -> Statuses]
    /\ born \in [Keys -> Nat]
    /\ acked \subseteq Keys
    /\ batch \subseteq Keys
    /\ late \subseteq Keys
    /\ up \in BOOLEAN
    /\ ticking \in BOOLEAN
    /\ faults \in Nat
    /\ crashes \in Nat

(* What a pass still has to do is pending work: the rows it read cannot    *)
(* have been settled behind its back, but for the one whose handler has    *)
(* just committed and raised; no reply was ever given for a row that is    *)
(* not in the table, and two rows never share a place in the order.        *)
(* `pending_intents` is read once per pass and used for its whole length,  *)
(* across many transactions.                                               *)
PassIsFresh ==
    /\ \A k \in batch : status[k] # "pending" => status[k] \in Settled /\ Turn(k)
    /\ acked \subseteq Rows
    /\ \A j, k \in Rows : born[j] = born[k] => j = k

(* A settled intent keeps its outcome: a retried submission, a second pass *)
(* over the table or a restart never reopens or overturns it.              *)
OutcomeFinal ==
    [][\A k \in Keys : status[k] \in Settled => status'[k] = status[k]]_pumpVars

(* A settled intent is never reopened, and its outcome is overturned by    *)
(* nothing but a rejection in the very pass that settled it, before any    *)
(* other row of that pass is taken up: what a submitter saw after that, or *)
(* after a restart, stays true.                                            *)
OverturnedInItsPass ==
    [][\A k \in Keys :
          status[k] \in Settled /\ status'[k] # status[k]
          => /\ status'[k] = "rejected"
             /\ Turn(k) /\ batch' = batch \ {k}]_pumpVars

(* Intents are settled in the order of their submission, however many are  *)
(* waiting, over passes, crashes and restarts: an older one is still       *)
(* pending behind a settled one only when its own writes failed at its     *)
(* turn.                                                                   *)
OldestFirst ==
    \A j, k \in Rows :
        status[j] \in Settled /\ status[k] = "pending" /\ born[k] < born[j]
        => k \in late

(* While the tick loop runs, every intent whose submitter was given its    *)
(* row is settled in the end, whatever crashes, restarts and failed writes *)
(* came in between, and however many rows are ahead of it.                 *)
SettledWhileTicking ==
    \A k \in Keys : (k \in acked) ~> (status[k] \in Settled \/ (up /\ ~ticking))

=============================================================================
