------------------------------ MODULE Metering ------------------------------
(***************************************************************************)
(* The metering of LLM calls (server/agents/metering.py).  A deliberation  *)
(* (server/agents/deliberation.py) commits a usage row and then, in a      *)
(* second transaction, its metering event and decision trace; a quip       *)
(* (server/quips.py) commits a usage row alone, with its own price.  The   *)
(* batcher of the tick backfills missing events and claims the unsettled   *)
(* ones into one debit intent per soul; the pump settles each intent in a  *)
(* transaction of its own.                                                 *)
(*                                                                         *)
(* One action is one transaction.  Deliberations, quips, the batcher and   *)
(* the pump all run under the step lock of the tick, so nothing happens    *)
(* between the two transactions of a deliberation but its own failure.     *)
(* Amounts are in the smallest unit of essence.  The batcher's cadence and *)
(* threshold decide only when it acts, and an operator may force it, so a  *)
(* batch may be made at any time.                                          *)
(*                                                                         *)
(* An LLM call whose output fails the validation of a deliberation leaves  *)
(* no usage row and is not metered at all.                                 *)
(***************************************************************************)
EXTENDS Inhabitants, Integers, FiniteSets, Sums

CONSTANTS
    Calls,         \* LLM calls that may be made: a soul and what it uses
    Rates,         \* prices the operator may set
    QuipPrice,     \* what a quip costs by itself
    StartEssence,
    NoCall, NoIntent,
    MaxUsage,      \* bound: usage rows
    MaxBatches,    \* bound: batches
    MaxPricings,   \* bound: changes of the price
    MaxCrashes,    \* bound: crashes of the process, and events not written
    MaxFaults      \* bound: failed writes

ASSUME MeteringBounds ==
    /\ MaxUsage \in Nat /\ MaxBatches \in Nat /\ MaxPricings \in Nat
    /\ MaxCrashes \in Nat /\ MaxFaults \in Nat
ASSUME CallsTyped ==
    /\ IsFiniteSet(Souls)
    /\ Calls \subseteq [soul : Souls, tokens : Nat]
ASSUME QuipPriceNat == QuipPrice \in Nat
ASSUME RatesTyped == Rates \subseteq Nat /\ Rates # {}
ASSUME WalletsTyped == StartEssence \in [Souls -> Nat]

(* What a usage row says: the call it is of, or that a soul, none of whose *)
(* providers gave an output that passed, has acted on its reflexes.        *)
Reflexes(s) == [soul |-> s, tokens |-> 0]
UsageRows == Calls \cup {Reflexes(s) : s \in Souls}

ASSUME NoCallDistinct == NoCall \notin UsageRows

Events == 1..MaxUsage       \* usage_id, in the order of created_at
Batches == 1..MaxBatches
Intents == Batches \X Souls \* "metering:<batch_id>:<soul_id>"

ASSUME NoIntentDistinct == NoIntent \notin Intents

VARIABLES
    call,      \* llm_usage: what each row says
    writing,   \* the usage row whose deliberation has yet to write event and trace
    quips,     \* usage rows of quips, each with a quip_debit row in the ledger
    events,    \* metering_events
    traced,    \* decision_traces, by usage event
    batch,     \* metering_events.batch_id; 0 when the event is unclaimed
    settled,   \* metering_events.settled_by
    charged,   \* metering_events.essence_charged
    shortfall, \* metering_events.shortfall_essence
    status,    \* intents.status of the debit intents
    seq,       \* metering_config "batch_seq"
    rate,      \* metering_config "pricing"
    essence, fund,
    ticking,   \* the tick loop runs
    pricings, crashes, faults

usageVars == <<call, writing, quips, events, traced>>
claimVars == <<batch, status, seq>>
chargeVars == <<settled, charged, shortfall, essence, fund>>
boundVars == <<pricings, crashes, faults>>
vars == <<usageVars, claimVars, chargeVars, rate, ticking, boundVars>>

Usage == {e \in Events : call[e] # NoCall}
Unsettled(e) == settled[e] = NoIntent
Cost(e) == call[e].tokens * rate

Init ==
    /\ call = [e \in Events |-> NoCall]
    /\ writing = {} /\ quips = {} /\ events = {} /\ traced = {}
    /\ batch = [e \in Events |-> 0]
    /\ settled = [e \in Events |-> NoIntent]
    /\ charged = [e \in Events |-> 0]
    /\ shortfall = [e \in Events |-> 0]
    /\ status = [i \in Intents |-> "absent"]
    /\ seq = 0
    /\ rate \in Rates
    /\ essence = StartEssence
    /\ fund = 0
    /\ ticking = TRUE
    /\ pricings = 0 /\ crashes = 0 /\ faults = 0

-----------------------------------------------------------------------------
Idle == writing = {}

NewRow(e, row) ==
    /\ Idle
    /\ e = Cardinality(Usage) + 1
    /\ call' = [call EXCEPT ![e] = row]

(* A deliberation asks one provider after the other until an output        *)
(* passes; record_usage commits the row of that call, or of the reflexes,  *)
(* by itself ...                                                           *)
RecordUsage(e, row) ==
    /\ NewRow(e, row)
    /\ writing' = {e}
    /\ UNCHANGED <<quips, events, traced, claimVars, chargeVars, rate, ticking,
                   boundVars>>

(* ... and then event and trace are written together.                      *)
RecordEvent(e) ==
    /\ e \in writing
    /\ events' = events \cup {e}
    /\ traced' = traced \cup {e}
    /\ writing' = {}
    /\ UNCHANGED <<call, quips, claimVars, chargeVars, rate, ticking, boundVars>>

(* Or the second transaction fails, and the usage row stays alone.         *)
Abandon ==
    /\ writing # {}
    /\ crashes < MaxCrashes
    /\ crashes' = crashes + 1
    /\ writing' = {}
    /\ UNCHANGED <<call, quips, events, traced, claimVars, chargeVars, rate,
                   ticking, pricings, faults>>

(* So it does when the process dies; the next one starts a new tick loop.  *)
Restart ==
    /\ crashes < MaxCrashes
    /\ crashes' = crashes + 1
    /\ writing' = {}
    /\ ticking' = TRUE
    /\ UNCHANGED <<call, quips, events, traced, claimVars, chargeVars, rate,
                   pricings, faults>>

(* quip_charge: the price of the quip and its usage row in one.            *)
Quip(e, c) ==
    /\ NewRow(e, c)
    /\ essence[c.soul] >= QuipPrice
    /\ essence' = [essence EXCEPT ![c.soul] = @ - QuipPrice]
    /\ quips' = quips \cup {e}
    /\ UNCHANGED <<writing, events, traced, claimVars, settled, charged, shortfall,
                   fund, rate, ticking, boundVars>>

-----------------------------------------------------------------------------
(* maybe_run_batch.  Every usage row without an event is backfilled; when  *)
(* the batcher then acts, one intent for each soul claims its unclaimed    *)
(* events, all under one batch id.                                         *)
(* Mutant: usage rows without an event are not looked for.                 *)
UnclaimedTraced == {e \in traced : Unsettled(e) /\ batch[e] = 0}

Unclaimed == {e \in Usage : Unsettled(e) /\ batch[e] = 0}

Backfill ==
    /\ Idle
    /\ events # Usage
    /\ events' = Usage
    /\ UNCHANGED <<call, writing, quips, traced, claimVars, chargeVars, rate, ticking,
                   boundVars>>

(* Its writes fail: they are rolled back, and since nothing in `step`      *)
(* catches the exception, the tick loop is over.                           *)
LoopEnds ==
    /\ Idle
    /\ ticking
    /\ faults < MaxFaults
    /\ faults' = faults + 1
    /\ ticking' = FALSE
    /\ UNCHANGED <<usageVars, claimVars, chargeVars, rate, pricings, crashes>>

ClaimedBy(E, b) == [e \in Events |-> IF e \in E THEN b ELSE batch[e]]

RunBatch ==
    LET b == seq + 1
        souls == {call[e].soul : e \in Unclaimed} IN
    /\ Idle
    /\ seq < MaxBatches
    /\ Unclaimed # {}
    /\ events' = Usage
    /\ seq' = b
    /\ batch' = ClaimedBy(Unclaimed, b)
    /\ status' = [i \in Intents |-> IF i \in {b} \X souls THEN "pending" ELSE status[i]]
    /\ UNCHANGED <<call, writing, quips, traced, chargeVars, rate, ticking, boundVars>>

-----------------------------------------------------------------------------
(* _settle_once, in the pump of the tick.  The events of the batch are     *)
(* priced at the current rate and charged in order, each to what is left   *)
(* of the wallet.  They are selected by the batch alone.                   *)
(* Mutant: settled events are selected again.                              *)
OfBatchAgain(b) == {e \in events : batch[e] = b}

OfBatch(b) == {e \in events : batch[e] = b /\ Unsettled(e)}

Lesser(x, y) == IF x < y THEN x ELSE y

Costs == [e \in Usage |-> Cost(e)]

(* What is left of the wallet of s once the events of E are paid for.      *)
Left(s, E) ==
    LET due == Total(Costs, E) IN
    IF due < essence[s] THEN essence[s] - due ELSE 0

(* Mutants: every event may take the whole wallet; an event is charged in  *)
(* full or not at all.                                                     *)
ChargeFromWhole(s, E, e) == Lesser(Cost(e), essence[s])

ChargeAllOrNothing(s, E, e) ==
    IF Cost(e) <= Left(s, {d \in E : d < e}) THEN Cost(e) ELSE 0

Charge(s, E, e) == Lesser(Cost(e), Left(s, {d \in E : d < e}))

Charges(s, E) == [e \in E |-> Charge(s, E, e)]

Settle(b, s) ==
    LET E == OfBatch(b)
        debited == Total(Charges(s, E), E) IN
    /\ Idle
    /\ ticking
    /\ status[<<b, s>>] = "pending"
    /\ status' = [status EXCEPT ![<<b, s>>] = "adjudicated"]
    /\ settled' = [e \in Events |-> IF e \in E THEN <<b, s>> ELSE settled[e]]
    /\ charged' = [e \in Events |-> IF e \in E THEN Charges(s, E)[e] ELSE charged[e]]
    /\ shortfall' = [e \in Events |-> IF e \in E THEN Cost(e) - Charges(s, E)[e]
                                      ELSE shortfall[e]]
    /\ essence' = [essence EXCEPT ![s] = @ - debited]
    /\ fund' = fund + debited
    /\ UNCHANGED <<usageVars, batch, seq, rate, ticking, boundVars>>

(* The settlement cannot be written: the intent is rejected and the claims *)
(* of its batch are released.                                              *)
Compensate(b, s) ==
    /\ faults < MaxFaults
    /\ faults' = faults + 1
    /\ Idle
    /\ ticking
    /\ status[<<b, s>>] = "pending"
    /\ status' = [status EXCEPT ![<<b, s>>] = "rejected"]
    /\ batch' = ClaimedBy(OfBatch(b), 0)
    /\ UNCHANGED <<usageVars, chargeVars, seq, rate, ticking, pricings,
                   crashes>>

(* The compensation cannot begin either: its exception reaches the pump,   *)
(* whose own rejection knows nothing of claims.                            *)
RejectUnreleased(b, s) ==
    /\ faults + 1 < MaxFaults
    /\ faults' = faults + 2
    /\ Idle
    /\ ticking
    /\ status[<<b, s>>] = "pending"
    /\ status' = [status EXCEPT ![<<b, s>>] = "rejected"]
    /\ UNCHANGED <<usageVars, chargeVars, batch, seq, rate, ticking, pricings,
                   crashes>>

SetPricing(r) ==
    /\ Idle
    /\ pricings < MaxPricings
    /\ r # rate
    /\ rate' = r
    /\ pricings' = pricings + 1
    /\ UNCHANGED <<usageVars, claimVars, chargeVars, ticking, crashes, faults>>

-----------------------------------------------------------------------------
RecordAny == \E e \in Events : RecordEvent(e)
SettleAny == \E b \in Batches, s \in Souls : Settle(b, s)

Next ==
    \/ \E e \in Events, row \in UsageRows : RecordUsage(e, row)
    \/ \E e \in Events, c \in Calls : Quip(e, c)
    \/ RecordAny
    \/ Abandon
    \/ Restart
    \/ Backfill
    \/ RunBatch
    \/ LoopEnds
    \/ SettleAny
    \/ \E b \in Batches, s \in Souls : Compensate(b, s) \/ RejectUnreleased(b, s)
    \/ \E r \in Rates : SetPricing(r)

(* The loop makes batches and settles them while it runs.                  *)
Fairness ==
    /\ WF_vars(RecordAny)
    /\ WF_vars(ticking /\ RunBatch)
    /\ WF_vars(SettleAny)

Spec == Init /\ [][Next]_vars

FairSpec == Spec /\ Fairness

-----------------------------------------------------------------------------
MeteringTypeOK ==
    /\ call \in [Events -> UsageRows \cup {NoCall}]
    /\ writing \subseteq Usage /\ quips \subseteq Usage
    /\ events \subseteq Usage
    /\ traced \subseteq events
    /\ batch \in [Events -> 0..seq]
    /\ settled \in [Events -> Intents \cup {NoIntent}]
    /\ charged \in [Events -> Nat]
    /\ shortfall \in [Events -> Nat]
    /\ status \in [Intents -> {"absent", "pending", "adjudicated", "rejected"}]
    /\ seq \in 0..MaxBatches
    /\ rate \in Rates
    /\ essence \in [Souls -> Int]
    /\ fund \in Nat
    /\ ticking \in BOOLEAN
    /\ pricings \in Nat /\ crashes \in Nat /\ faults \in Nat

(* A claim has somebody to settle it: while an event is claimed and        *)
(* unsettled, the debit intent of its own soul in that batch is pending.   *)
(* Two failed writes in a row break this (metering.py:621-664,             *)
(* world_tick.py:487-493).                                                 *)
ClaimsInFlight ==
    faults < 2 =>
        \A e \in Events :
            batch[e] # 0 /\ Unsettled(e) => status[<<batch[e], call[e].soul>>] = "pending"

QuipsOf(s) == {e \in quips : call[e].soul = s}
SettledAgainst(s) == {e \in Events : ~Unsettled(e) /\ settled[e][2] = s}

(* What a wallet lost is what the quips cost and what the events settled   *)
(* against it say was charged; all of the latter is in the Essence Fund,   *)
(* and no wallet is overdrawn.                                             *)
ChargesAccounted ==
    /\ fund = Total(charged, Events)
    /\ \A s \in Souls :
          /\ essence[s] >= 0
          /\ StartEssence[s] - essence[s] =
                QuipPrice * Cardinality(QuipsOf(s)) + Total(charged, SettledAgainst(s))

(* A settled event keeps its charge: neither a later batch nor a new price *)
(* nor a restart settles it again (metering.py:22-24, 31-33).              *)
ChargeFinal ==
    [][\A e \in Events :
          ~Unsettled(e) =>
             /\ settled'[e] = settled[e]
             /\ charged'[e] = charged[e]
             /\ shortfall'[e] = shortfall[e]]_vars

(* An event is let off only by a wallet that has nothing left              *)
(* (metering.py:26-29).                                                    *)
ShortOnlyWhenEmpty ==
    [][\A e \in Events :
          Unsettled(e) /\ settled'[e] # NoIntent /\ shortfall'[e] > 0
          => essence'[settled'[e][2]] = 0]_vars

(* The intents of a batch were all rejected, and its claims not released.  *)
Stranded(e) == batch[e] # 0 /\ \A s \in Souls : status[<<batch[e], s>>] # "pending"

(* The spend of every usage row is settled in the end (metering.py:622-625:*)
(* "no spend is ever lost"), be it claimed by several batches, or by none  *)
(* before a crash, unless the tick loop is over or its claim was stranded  *)
(* by two writes that failed in a row.                                     *)
AllMetered ==
    \A e \in Events : (e \in Usage) ~> (~Unsettled(e) \/ ~ticking \/ Stranded(e))

=============================================================================
