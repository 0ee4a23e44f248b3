-------------------------------- MODULE Body --------------------------------
(***************************************************************************)
(* The body of the souls (server/biology.py, server/agents/consume.py,     *)
(* server/resources.py): needs decay, starvation collapses, a collapsed    *)
(* soul that has been fed by another and has rested long enough stands up  *)
(* again.  Feeding costs the feeder a gift held in escrow from the         *)
(* submission on; a soul whose wallet is empty is dormant, which slows its *)
(* decay and makes it immune to collapse.                                  *)
(*                                                                         *)
(* One span is the time between two biology ticks.  Satiety, hit points    *)
(* and rest are integers in units small enough for the rates: a resting    *)
(* soul loses RestRate satiety per span, a moving one twice, a dormant one *)
(* a quarter of that, and starving takes Chip hit points.  Hydration       *)
(* decays without any effect on the state and is left out, and with it     *)
(* `drink`.                                                                *)
(***************************************************************************)
EXTENDS Inhabitants, Integers, FiniteSets

CONSTANTS
    Feeds,        \* feed_soul intents that may be submitted
    Nobody,
    SatFull,      \* satiety 100
    Starving,     \* STARVING_SATIETY
    RestRate,     \* satiety lost in a span at rest
    HpFull,
    Chip,         \* hit points lost in a span of starvation, and the number
                  \* of units of the rest clock in a span
    RestNeeded,   \* RECOVERY_REST_SECONDS
    EatGain,      \* EAT_SATIETY_GAIN
    Capacity,     \* units of a resource node
    Gap,          \* spans of downtime a boot catches up
    Busy,         \* bound: souls to which more than feeding happens
    StartEssence, \* soul -> gifts its wallet holds at first
    Saved,        \* [sat, hp, idle, food] that a client may save
    MaxSpans,     \* bound: spans lived through
    MaxGathers,   \* bound: units gathered
    MaxFunds,     \* bound: gifts and spending from outside
    MaxSaves,     \* bound: saves of a client
    MaxFaults,    \* bound: failed settlements
    MaxCrashes

ASSUME BodyConstantsNat ==
    /\ {SatFull, Starving, RestNeeded, EatGain, Capacity, Gap, MaxSpans,
        MaxGathers, MaxFunds, MaxSaves, MaxFaults, MaxCrashes} \subseteq Nat
    /\ {RestRate, Chip, HpFull} \subseteq Nat \ {0}
    /\ Busy \subseteq Souls /\ IsFiniteSet(Feeds)
    /\ StartEssence \in [Souls -> Nat]
    /\ Saved \subseteq [sat : 0..SatFull, hp : 0..HpFull, idle : BOOLEAN, food : Nat]

VARIABLES
    soul,     \* soul -> [sat, hp, fallen, fed, rest, idle, moving, essence, food]
    feed,     \* feed -> [status, from, to]
    escrow,   \* feed -> "none", "held", "released" or "applied"
    node,     \* units left in the resource node
    up,
    tally     \* history: [spans, gathers, funds, saves, faults, crashes,
              \*           risen (soul -> recoveries), gifts (soul -> gifts)]

bodyVars == <<soul, feed, escrow, node, up, tally>>

NotResting == -1
FeedStatus == {"new", "pending", "adjudicated", "rejected"}

SoulRecord ==
    [sat : 0..SatFull, hp : 0..HpFull, fallen : BOOLEAN, fed : BOOLEAN,
     rest : NotResting..RestNeeded, idle : BOOLEAN, moving : BOOLEAN,
     essence : Nat, food : Nat]

Dormant(b) == b.essence = 0
Awake(b) == ~Dormant(b) /\ ~b.fallen
Lower(a, b) == IF a < b THEN a ELSE b
Higher(a, b) == IF a < b THEN b ELSE a

-----------------------------------------------------------------------------
(* _decay_soul: the body after n spans, in closed form.                    *)
SatRate(b) ==
    LET awake == IF b.moving /\ ~b.fallen THEN 2 * RestRate ELSE RestRate
    IN  IF Dormant(b) THEN awake \div 4 ELSE awake

(* Mutant: the whole span counts as starvation once it has begun.          *)
StarvedUnitsWhole(b, n) ==
    IF b.sat - n * SatRate(b) >= Starving THEN 0 ELSE n * Chip

(* Units of the n spans during which the soul starves.                     *)
StarvedUnits(b, n) ==
    IF b.sat < Starving THEN n * Chip
    ELSE Higher(0, n * Chip - ((b.sat - Starving) * Chip) \div SatRate(b))

Resting(b) == b.fallen \/ b.idle

RestAfter(b, n) ==
    IF ~Resting(b) THEN NotResting
    ELSE Lower(RestNeeded, (IF b.rest = NotResting THEN 0 ELSE b.rest) + n * Chip)

(* The rest clock of a soul that collapses starts at the moment its last   *)
(* hit point goes; the span before it is not rest.                         *)
Fallen(b, n) ==
    LET starved == StarvedUnits(b, n)
        lying == IF starved > 0 /\ b.hp > 0 THEN starved - b.hp ELSE n * Chip
    IN  [b EXCEPT !.sat = Higher(0, b.sat - n * SatRate(b)),
                  !.hp = 0,
                  !.fallen = TRUE,
                  !.moving = FALSE,
                  !.rest = Lower(RestNeeded, lying)]

Weakened(b, n) ==
    [b EXCEPT !.sat = Higher(0, b.sat - n * SatRate(b)),
              !.hp = IF Dormant(b) THEN Higher(1, b.hp)
                     ELSE IF b.fallen THEN b.hp ELSE b.hp - StarvedUnits(b, n),
              !.rest = RestAfter(b, n)]

(* Standing up clears the flag and the clock; the hit points stay as they  *)
(* are.                                                                    *)
Stands(b) == b.fallen /\ b.fed /\ b.rest >= RestNeeded

Decay(b, n) ==
    IF ~b.fallen /\ ~Dormant(b) /\ b.hp <= StarvedUnits(b, n) THEN Fallen(b, n)
    ELSE LET w == Weakened(b, n) IN
         IF Stands(w)
         THEN [w EXCEPT !.fallen = FALSE, !.fed = FALSE, !.rest = NotResting]
         ELSE w

-----------------------------------------------------------------------------
BodyInit ==
    /\ soul = [s \in Souls |->
                 [sat |-> SatFull, hp |-> HpFull, fallen |-> FALSE, fed |-> FALSE,
                  rest |-> NotResting, idle |-> FALSE, moving |-> FALSE,
                  essence |-> StartEssence[s], food |-> 0]]
    /\ feed = [k \in Feeds |-> [status |-> "new", from |-> Nobody, to |-> Nobody]]
    /\ escrow = [k \in Feeds |-> "none"]
    /\ node = Capacity
    /\ up = TRUE
    /\ tally = [spans |-> 0, gathers |-> 0, funds |-> 0, saves |-> 0, faults |-> 0,
                crashes |-> 0, risen |-> [s \in Souls |-> 0],
                gifts |-> [s \in Souls |-> 0]]

Risen(n) ==
    [s \in Souls |-> IF soul[s].fallen /\ ~Decay(soul[s], n).fallen
                     THEN tally.risen[s] + 1 ELSE tally.risen[s]]

Live(n) ==
    /\ tally.spans + n <= MaxSpans
    /\ soul' = [s \in Souls |-> Decay(soul[s], n)]

(* apply_biology_tick                                                      *)
BiologyTick ==
    /\ up
    /\ Live(1)
    /\ tally' = [tally EXCEPT !.spans = @ + 1, !.risen = Risen(1)]
    /\ UNCHANGED <<feed, escrow, node, up>>

(* A move adjudicated, an arrival or a rest intent: the soul starts or     *)
(* stops moving.  Only rest writes the activity.                           *)
SetOff(s) ==
    /\ up /\ Awake(soul[s])
    /\ ~soul[s].moving
    /\ soul' = [soul EXCEPT ![s].moving = TRUE]
    /\ UNCHANGED <<feed, escrow, node, up, tally>>

Rest(s) ==
    /\ up
    /\ soul[s].moving \/ ~soul[s].idle
    /\ soul' = [soul EXCEPT ![s].moving = FALSE, ![s].idle = TRUE]
    /\ UNCHANGED <<feed, escrow, node, up, tally>>

(* adjudicate_gather: one unit from the node to the inventory.             *)
Gather(s) ==
    /\ up /\ Awake(soul[s])
    /\ node > 0
    /\ tally.gathers < MaxGathers
    /\ node' = node - 1
    /\ soul' = [soul EXCEPT ![s].food = @ + 1]
    /\ tally' = [tally EXCEPT !.gathers = @ + 1]
    /\ UNCHANGED <<feed, escrow, up>>

(* respawn_sweep: only a node that has been emptied grows again.           *)
RespawnSweep ==
    /\ up /\ node = 0
    /\ node' = Capacity
    /\ UNCHANGED <<soul, feed, escrow, up, tally>>

(* adjudicate_consume                                                      *)
Eat(s) ==
    /\ up /\ Awake(soul[s])
    /\ soul[s].food > 0
    /\ soul' = [soul EXCEPT ![s].food = @ - 1,
                            ![s].sat = Lower(SatFull, @ + EatGain)]
    /\ UNCHANGED <<feed, escrow, node, up, tally>>

-----------------------------------------------------------------------------
(* enqueue_feed_soul: the intent and the hold of the gift in one           *)
(* transaction.                                                            *)
EnqueueFeed(k, f, r) ==
    /\ up
    /\ feed[k].status = "new"
    /\ Awake(soul[f])
    /\ feed' = [feed EXCEPT ![k] = [status |-> "pending", from |-> f, to |-> r]]
    /\ escrow' = [escrow EXCEPT ![k] = "held"]
    /\ soul' = [soul EXCEPT ![f].essence = @ - 1]
    /\ UNCHANGED <<node, up, tally>>

(* Mutant: a soul that has been fed already may be fed again.              *)
MayBeFedAgain(k) == soul[feed[k].to].fallen

MayBeFed(k) == soul[feed[k].to].fallen /\ ~soul[feed[k].to].fed

Pending(k) == up /\ feed[k].status = "pending"

(* adjudicate_feed_soul: flag, gift, escrow and intent in one transaction. *)
(* The episodes are logged after the commit; when that raises, the pump's  *)
(* handler turns the adjudicated intent into a rejected one.               *)
Give(k, outcome, faults) ==
    LET r == feed[k].to IN
    /\ Pending(k)
    /\ escrow[k] = "held"
    /\ MayBeFed(k)
    /\ soul' = [soul EXCEPT ![r].fed = TRUE, ![r].essence = @ + 1]
    /\ escrow' = [escrow EXCEPT ![k] = "applied"]
    /\ feed' = [feed EXCEPT ![k].status = outcome]
    /\ tally' = [tally EXCEPT !.gifts[r] = @ + 1, !.faults = @ + faults]
    /\ UNCHANGED <<node, up>>

Feed(k) == Give(k, "adjudicated", 0)

FeedThenReject(k) == tally.faults < MaxFaults /\ Give(k, "rejected", 1)

(* _release_feed_escrow                                                    *)
Refund(k) ==
    /\ soul' = [soul EXCEPT ![feed[k].from].essence = @ + 1]
    /\ escrow' = [escrow EXCEPT ![k] = "released"]

RejectFeed(k) ==
    /\ Pending(k)
    /\ ~MayBeFed(k)
    /\ feed' = [feed EXCEPT ![k].status = "rejected"]
    /\ Refund(k)
    /\ UNCHANGED <<node, up, tally>>

(* A settlement that raises is rejected by the pump, which does not know   *)
(* of the escrow.                                                          *)
FeedFails(k) ==
    /\ Pending(k)
    /\ tally.faults < MaxFaults
    /\ tally' = [tally EXCEPT !.faults = @ + 1]
    /\ feed' = [feed EXCEPT ![k].status = "rejected"]
    /\ UNCHANGED <<soul, escrow, node, up>>

-----------------------------------------------------------------------------
(* Metering charges and gifts of tamers: a wallet loses or gains a gift.   *)
Spend(s) ==
    /\ tally.funds < MaxFunds
    /\ soul[s].essence > 0
    /\ soul' = [soul EXCEPT ![s].essence = @ - 1]
    /\ tally' = [tally EXCEPT !.funds = @ + 1]
    /\ UNCHANGED <<feed, escrow, node, up>>

Fund(s) ==
    /\ tally.funds < MaxFunds
    /\ soul' = [soul EXCEPT ![s].essence = @ + 1]
    /\ tally' = [tally EXCEPT !.funds = @ + 1]
    /\ UNCHANGED <<feed, escrow, node, up>>

(* souls_upsert replaces the row by what the client knows: satiety, hit    *)
(* points and items are the client's, the columns the statement does not   *)
(* name (state, fed_flag, rest_started_at, move_target) take their         *)
(* defaults.                                                               *)
Save(s) ==
    /\ up
    /\ tally.saves < MaxSaves
    /\ tally' = [tally EXCEPT !.saves = @ + 1]
    /\ \E client \in Saved :
         soul' = [soul EXCEPT ![s] =
                    [@ EXCEPT !.sat = client.sat, !.hp = client.hp,
                              !.idle = client.idle, !.food = client.food,
                              !.fallen = FALSE, !.fed = FALSE, !.rest = NotResting,
                              !.moving = FALSE]]
    /\ UNCHANGED <<feed, escrow, node, up>>

-----------------------------------------------------------------------------
Crash ==
    /\ up
    /\ tally.crashes < MaxCrashes
    /\ up' = FALSE
    /\ tally' = [tally EXCEPT !.crashes = @ + 1]
    /\ UNCHANGED <<soul, feed, escrow, node>>

(* recover_world: apply_biology_decay over the gap, then reconcile_escrows *)
(* finishes the escrows whose intent is settled.                           *)
Boot(n) ==
    LET lost == {k \in Feeds : escrow[k] = "held" /\ feed[k].status = "rejected"}
    IN
    /\ ~up
    /\ tally.spans + n <= MaxSpans
    /\ up' = TRUE
    /\ soul' = [s \in Souls |->
                  LET b == Decay(soul[s], n) IN
                  [b EXCEPT !.essence =
                        @ + Cardinality({k \in lost : feed[k].from = s})]]
    /\ escrow' = [k \in Feeds |-> IF k \in lost THEN "released" ELSE escrow[k]]
    /\ tally' = [tally EXCEPT !.spans = @ + n, !.risen = Risen(n)]
    /\ UNCHANGED <<feed, node>>

-----------------------------------------------------------------------------
BodyNext ==
    \/ BiologyTick \/ RespawnSweep \/ Crash
    \/ \E s \in Busy :
         SetOff(s) \/ Rest(s) \/ Gather(s) \/ Eat(s) \/ Spend(s) \/ Fund(s) \/ Save(s)
    \/ \E k \in Feeds :
         \/ Feed(k) \/ RejectFeed(k) \/ FeedFails(k) \/ FeedThenReject(k)
         \/ \E f, r \in Souls : EnqueueFeed(k, f, r)
    \/ \E n \in {0, Gap} : Boot(n)

BodySpec == BodyInit /\ [][BodyNext]_bodyVars

-----------------------------------------------------------------------------
BodyTypeOK ==
    /\ soul \in [Souls -> SoulRecord]
    /\ feed \in [Feeds -> [status : FeedStatus, from : Souls \cup {Nobody},
                           to : Souls \cup {Nobody}]]
    /\ escrow \in [Feeds -> {"none", "held", "released", "applied"}]
    /\ node \in 0..Capacity
    /\ up \in BOOLEAN

(* No gift is wasted: every gift that was made either still marks its      *)
(* recipient as fed, who then lies collapsed, or has been followed by one  *)
(* recovery, and nobody recovers without one.  Two feeders of the same     *)
(* soul, a refused one, a crash and a catch-up do not change that; a save  *)
(* of the client does, it stands the soul up for nothing.                  *)
OneGiftOneRecovery ==
    tally.saves = 0 =>
        \A s \in Souls :
            /\ tally.gifts[s] = tally.risen[s] + (IF soul[s].fed THEN 1 ELSE 0)
            /\ soul[s].fed => soul[s].fallen

(* The body after n live ticks. *)
Lived(b, n) ==
    LET live[i \in 0..n] == IF i = 0 THEN b ELSE Decay(live[i - 1], 1)
    IN  live[n]

(* Downtime does to a body what the live ticks would have done (the module *)
(* docstring of biology.py: the rates match exactly between live and       *)
(* catch-up): one closed step over several spans gives the same state,     *)
(* hit points and rest.  Excepted are a soul that may stand up meanwhile   *)
(* and, for its satiety, one that collapses on the move.                   *)
DecayComposes ==
    \A s \in Souls, n \in 1..Gap :
        LET b == soul[s]
            once == Decay(b, n)
        IN  ~b.fed /\ (b.moving => ~once.fallen) => Lived(b, n) = once

=============================================================================
