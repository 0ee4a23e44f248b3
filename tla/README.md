# Soulscape, verified

TLA+ specifications of the Soulscape hub (`server/`), the TLC runs that check
them on small instances, and TLAPS proofs of the results that hold for every
instance. Source references are `path:line` below `server/` unless they say
otherwise.

    tlc -workers 2 -config market_exchange.cfg MCAudit    # a run
    tlapm MarketProofs.tla                                # proofs

## 1. The system

The hub is two processes over one SQLite file (docs/adr/0003). **hub-api**
(`main.py`, `routers/`) authenticates, reads, makes the LLM calls of quips and
forwards every mutation to **hub-sim** (`sim_process.py`) over a localhost TCP
IPC (`sim_gateway.py`, `sim_ipc.py`). hub-sim is meant to be the only writer of
the simulation tables. It has a tick loop (`world_tick.py`, 5 Hz), IPC handler
threads, and one lock, the step lock, which a tick holds from end to end and
every IPC command takes.

What a client wants done is an **intent**: a row of the table `intents`,
committed before it is acknowledged, unique by `(session_id, nonce)`, and
adjudicated by the pump at the beginning of a tick, each row in a transaction
of its own. At boot the sim recovers its tables (`persistence.py`), pumps once
and only then ticks and serves.

### Inventory

| Component | State | Operations | What is hard | What makes it correct | Here |
|---|---|---|---|---|---|
| Intent queue, tick pump (`intents.py`, `world_tick.py`, `sim_ipc.py`, `sim_process.py`) | `intents`, the rows of the current pass, the tick task | submit, retry, pass, adjudicate, reject, boot | lost replies, crashes inside a pass, failing writes, an exception that ends the loop | outcomes are final, order is kept, what was acknowledged is settled | `IntentPump` |
| Marketplace (`market.py`, `wallets.py`, `inventory.py`) | `marketplace`, `escrows`, wallets, inventories, `ledger`, `essence_fund` | list, buy, cancel, compensate, refund at boot | a hold in one transaction and its settlement in another; ids chosen by clients | nothing overdrawn, created or lost; no escrow stranded; the ledger explains the wallets | `Market`, `Exchange` |
| Balance audit (`market.py:745`) | baselines in `globals` | verify, repair | runs while essence is held | blames nobody who did nothing | `MarketAudit` |
| Message board (`social.py`) | `messages`, `escrows`, wallets | post, reply, edit, delete | the parent, the purse and the order may change before adjudication | the board is what the intents made of it; a debit for each message | `Social` |
| Dormancy, gifts (`dormancy.py`, `routers/tamers.py`) | derived from the wallet | freeze, wake, fund | every writer of a wallet must note it; gifts come from the API process | frozen souls neither move, decay as usual nor collapse | `Market`, `Body`, `Travel`, `Recovery` |
| Bodies (`biology.py`, `agents/consume.py`, `resources.py`) | needs, hit points, state, rest, nodes | decay, collapse, feed, recover, gather, eat | gifts in escrow, saves and crashes between collapse and recovery, downtime | one gift, one recovery; downtime is worth what living through it is | `Body` |
| Expeditions, carry, plots (`expeditions.py`, `affection.py`, `plots.py`) | `expeditions`, carry sessions, plots, motion | trigger, depart, walk, dwell, return, time out; grab, drag, escape, release | five writers of one position in one tick, stale tables, closed ways, restarts | a trip ends, a traveller is hidden, a carried soul is held | `Travel` |
| Recovery (`persistence.py`) | dirty set, snapshots, journal, table | flush, snapshot, replay, catch up | a crash between any two | after a restart a soul is where it would have been | `Recovery` |
| Commands (`sim_ipc.py`, `sim_gateway.py`, `sim_commands.py`, `routers/souls.py`, `quips.py`, bridge) | souls, budgets, requests in flight | hello, save, quip, note, act, retry | a reply is lost after the work is done; several commands make one request | a slot for each quip; a retry repeats nothing | `SimCommands` |
| LLM metering (`agents/metering.py`, `agents/deliberation.py`) | `llm_usage`, `metering_events`, `decision_traces`, pricing | record, batch, settle, compensate, reprice | two transactions per deliberation, claims, price changes, a batcher whose failure ends the loop | each usage row charged once, to the extent of the wallet | `Metering` |
| Brains (`agents/pool.py`, `agents/scheduler.py`, `agents/jev_*.py`, `agents/brain_busy.py`, `wander.py`) | schedules, jobs, busy flags, breaker, wander episodes | think, note, pump, requeue, fail, wander | two threads, one soul; failures, shedding | one brain at a time, paced; every event answered | `Brains` |
| Memory (`agents/memory.py`) | episodes, digests, semantic store | log, fold, prune, recall | a night repeated after a crash or days late | nothing forgotten before it is folded, nothing folded twice | `Memories` |
| Mailbag, recap, retention (`mailbag.py`, `recap.py`) | questions, loyalty, recap sources, journal | ask, answer, fade, tell, compact | answers race the sweep; windows, crashes | told once; the journal's tail has no gap | `Letters` |
| Viewport (`viewport.py`, `routers/websockets.py`, `client/system/network/`) | sessions, rings, frames in flight, the client's view | connect, pump, flush, resume, resync, close | backpressure, reconnects, a pump reading while it is replayed to | at rest the client shows the world; replays are exact | `Viewport` |
| Prompts, cryptography, rendering, local AI (`security.py`, `client/`) | | | text, numerics or I/O | | not modelled |

`PROJECT.json` lists every hazard of this code that we know of, at its line,
with the properties that would notice it, or why none does.

## 2. What is modelled

The modules stand beside each other; the table they share most often is
`souls`, of which each models the columns its component reads and writes.
`Market` and `Social` extend `IntentPump` and conjoin its actions; `Letters`
extends `Memories`; `MarketAudit` extends `MarketAccounts`, which extends
`Market`. `Inhabitants` declares the souls, which most modules speak of, and `Sums`
names the sum of a function over a set, in which the money properties are stated.
The MC modules hold the instances.

The theorems about a module `M` are in `MProofs`, but for those about what belongs
together: `MarketProofs` also has those of `MarketAccounts` and `MarketAudit`,
`SoulProofs` those of `Travel`, `Body` and `Brains`, `WriteBehindProofs` those of
`Metering` and `Recovery`, `OwnerProofs` those of `Memories`, `Letters` and
`Viewport`, which is what reaches an owner. What they all need of sums and least
numbers is in `SumTheorems`.

### `IntentPump`: the life of an intent

A key is `(session_id, nonce)`. `status` is the row (`absent` before it exists),
`born` its place in `ORDER BY created_at, rowid`, `acked` the keys whose submitter
has a reply, `batch` the rows a pass has read and not reached, `late` remembers
the rows whose turn passed without a write, `up` whether the process serves,
`ticking` whether its tick loop runs.

| Action | Code |
|---|---|
| `Insert`, `Retry` | `enqueue_intent` (`intents.py:320`): commit, then reply; the UNIQUE constraint turns a repeat into a read of the row. A reply may be lost. |
| `PumpBegin` | `pending_intents` (`intents.py:368`): the `PumpLimit` oldest pending rows (500 in the code) |
| `Settle`, used by `Adjudicate` | `_adjudicate_one` (`world_tick.py:439`): the status is read again in the settling transaction |
| `SettleThenRaise` | a handler commits and raises after it, as a feeding does whose episode cannot be logged: the row is settled and its turn is not over |
| `RejectInternal` | `_reject` (`world_tick.py:495`), an UPDATE by id that does not look at the status: of a pending row, or of one whose handler raised after its commit |
| `Postpone` | adjudication and rejection both fail to write, or only the rejection of a settled row; what is pending is read again by the next pass |
| `LoopEnds` | an exception leaves `step`; nothing awaits the task (`world_tick.py:415`) |
| `Crash`, `Boot` | death of the process; `_amain` (`sim_process.py:70`) |

An insertion waits for the step lock, so it has the guard `batch = {}`. A pass
is many steps, because each row is a transaction and the process can die, or an
API-side write can happen, between two. `QuietNext` is the pump without
`SettleThenRaise`: the handlers of the market and of the board do nothing that
raises after their commit.

### `Market` (extends `IntentPump`)

Its actions conjoin those of the pump, so each is one database transaction that
moves the intent's row and the rest of the world together. `request` is the
row's kind, payload and identity; `escrow` and `amount` the escrow row;
`essence`, `inv`, `market`, `fund`, `ledger` the tables of those names; `noted`
what the journal last said of each soul's dormancy.

| Action | Code |
|---|---|
| `EnqueueList`, `EnqueueBuy`, `EnqueueCancel` | `enqueue_market_intent` (`market.py:281`); a purchase takes the price out of the wallet in the same transaction |
| `AdjudicateList/Buy/Cancel`, `Reject…` | `_apply_list/_buy/_cancel`, `_settle_once` (`market.py:442-685`), refusals included. `RejectShort` commits the deletion of the listing, as the code does |
| `Compensate`, `RejectUncompensated`, `LeavePending` | what follows a settling transaction that fails (`market.py:688`, `world_tick.py:487`) |
| `Reconcile`, `BootSim` | `reconcile_escrows` (`persistence.py:823`), one escrow at a time, all before the boot is over |
| `FundSoul` | the gift of `routers/tamers.py:138`, enabled at any time |

Essence is in hundredths. The 2% tax is rounded by binary floating point, so on
a tie `Taxes` allows both neighbours. A listing id the sim mints is the key of
its list intent, which is unique as minted ids are; ids that clients choose are
a set of their own (`ClientListings`), because the code takes them as they are
and lets them be used again; `StartMarket` are listings from before under such ids.

`MarketAccounts` states what the tables add up to. `Exchange` is what the
market promises, with no intents, escrows or failures: offers, take-backs, and
sales as one indivisible exchange. Under the mapping "what you own is your
wallet and what is held for your open purchases" `Market` implements it
(`SalesAreExchanges`). `MarketAudit` adds `verify_balances`, which opens no
transaction for its reads: `SumLedger` is the grouped sum (`market.py:805`) and
`CheckWallet` the read of one wallet (`market.py:859`), and the market, the gifts
and the death of the sim come in between, until the audit writes something itself
(`audit.writing`).

### `Metering`

`call` are the usage rows in order, `writing` the one whose deliberation has
not yet written its event and trace, `events` and `traced` those two tables,
`batch`, `settled`, `charged`, `shortfall` columns of `metering_events`,
`status` the debit intents. Deliberations, quips, the batcher and the pump all
run under the step lock, so between the two transactions of a deliberation
nothing happens but its own failure (`Abandon`) or the death of the process
(`Restart`). `Settle` charges the events of
a batch in order, each to what is left of the wallet, as `_settle_once`
(`agents/metering.py:472`) does. When the batcher acts (cadence, threshold) is
left open: it may act at any time. `step` calls it without a guard
(`world_tick.py:670`), so a write of it that fails ends the tick loop until the
process is started anew (`LoopEnds`, `ticking`). A deliberation tries one
provider after the other and records the call whose output passes, or, when none
does, that the soul acted on its reflexes (`Reflexes`, a row without tokens). A
call whose output fails the validation leaves no row at all
(`agents/deliberation.py:885-888`): nothing here meters it. The payload's estimate
is left out, since settlement ignores it; so is the replay clock.

### `Social` (extends `IntentPump`)

A message carries the key of its intent. `escrow`, `essence` and `debits` are
the money, `board` the `messages` table, `spent` remembers charges by others.

| Action | Code |
|---|---|
| `EnqueueMessage`, `EnqueueMutation`, `Resubmit` | `enqueue_social_intent` (`social.py:282`): checks, and for a soul the hold, in one transaction |
| `Publish`, `Edit`, `Delete`, `Refuse` | `_apply_*` and `_settle_once` (`social.py:375-615`); `CanApply` are their checks, made again |
| `Compensate`, `RejectUncompensated`, `LeavePending` | the second transaction and what follows when it cannot begin or fails |
| `Reconcile`, `BootSim` | the same boot sweep as the market's |

Gifts are left out and other charges are `Drain`; custody is fixed; the end of
the tick loop is the business of `Market`.

### `Recovery`

`disk` is the table, `dirty` the overlay, `journal` the motion events, `snaps` the
snapshots, `mark` the last tick known. Space is a road of integer places, a soul
covers one per tick; in these units `integrate_soul` is exact. `MoveTo`, `Rest`
are the journaled intents; `Steer`, `CarryTo`, `SaveSoul`, `GoDormant`, `Wake`,
`Collapse` change motion without an event that replay understands (`offRecord`).
The road crosses a plot, and `ChangeAccess` closes it to some souls (`barred`), by
the operator or by a claim; `Physics` stops those before it (`Stopped`), of which
the journal hears nothing either. `Physics`, `MaybeFlush`, `FlushFails`,
`MaybeSnapshot` are the rest of the tick. `BootFrom(i)`, `BootFromTable` are
`recover_world` (`persistence.py:897`) from the i-th snapshot or none; `should` is
where the clock would have taken each soul. Of a downtime beyond the cap of 24 h
(`CATCHUP_MAX_S`, here `CatchUpMax`) only the cap is simulated, charged and
counted in ticks (`Caught`), while the clock is set to the present;
`tally.forgiven` adds up the rest.

`Replayed` is `replay_tail`, tick by tick from the snapshot, and without the
barrier: events of a tick before it apply at once, those after the end at the end,
the last one of a tick decides, and the closed form of the motion starts anew at
every event. The two ways to catch up differ for a soul that walks away from its
goal: per tick it is stopped there at once, in closed form when it is near
(`Aimed`). A replay that leads a soul there, because what moved it was not
recorded, leaves it off the record (`Misled`), and so does a snapshot of such a
soul (`StillOffRecord`). TLC needs a longer road, more moves and three deaths to
meet one.

### `Body`

A span is the time between two biology ticks; satiety, hit points and rest are
integers in units fine enough for the rates. `BiologyTick` is `_advance_rows`,
`EnqueueFeed`, `Feed`, `RejectFeed`, `FeedFails`, `FeedThenReject` the gift and
its escrow, `Boot(n)` the catch-up over `n` spans in closed form, `Save` the
upsert that resets the columns it does not name.

### `Travel`

One soul; plots in a row; clocks are flags that time sets. `stage` is the order
of `WorldTick.step`: the pump (`MoveTo`, `Claim`, `SetPolicy`, `Grab`, `Drag`,
`Release`, `Escape`), the trigger sweep (`Trigger`), the expeditions
(`Advance`), biology (`Collapse`, `Recover`), `Physics`. `table` is the
position written behind, which the trigger reads. `AdvanceLost` is a tick whose
expeditions are rolled back as a whole and the exception swallowed
(`expeditions.py:866-875`). `Restart` is a crash and a
boot: sessions are forgotten, the expedition is not.

### `SimCommands` (also `MCSimCommands`)

Five kinds of request of one tamer (`hello`, `save`, `quip`, `note`, `act`),
each a sequence of commands to the sim. `net` holds the copies still to be
executed: `SimClient` repeats once, and the sim executes every copy it
received, whenever it comes to hold the step lock. `Grant`, `Upsert`,
`Reserve`, `Charge`, `Release`, `Ingest`, `Finalize`, `Submit` are the
commands; `Outside` other writers of a wallet; `Resend` a client that repeats a
message over the websocket, which is answered from the row of its nonce or
submitted again. Of `souls` the model keeps `rows`, the tamer's souls, and `first`,
the one with the smallest rowid, which is all that bridge events ask for.

### `Brains`

The tick thread (`RunAgentPool`, thinks, sweep) and the JEV worker thread run
beside each other; delays are flags that timers clear. The breaker, the queue's
requeue and shedding, the busy set, the scheduler's gap, and wander episodes
are modelled; what a brain decides is left open. `past.owed` are events noted
and neither thought about nor reported as shed or refused.

### `Memories`, `Letters`

A unit of time is a day. The summarizer folds dull episodes into weekly digests
and writes its stamp in a second transaction, so that a crash between the two
repeats the night. `Letters` adds questions, the sweep, the recap with its
window, the morning note and retention, in the order of the tick's cadences
(`stage`); `Deliver` is what `answer_question` does after its commit.

### `Viewport`

One owner, connections numbered as they are made. `hub` is the world, `vp` the
sessions of the API process with what each counts as told (`Committed`), its ring
and sequence, `pump` the loop that reads, diffs and flushes, `wire` the frames
in flight, `client` the consumer. A send returns while fewer than `Window`
frames are in flight; slow flushes saturate a session. Left out: the abroad
heartbeat, the interpolation of positions (`MoveEpsilon` is 0), the eviction of
quiet sessions after 300 s.

## 3. What the runs check

| Run | Bounds | Shows | States |
|---|---|---|---|
| `market_exchange` | 3 keys, passes of 2, crash 1, failed write 1, gift 1, reporting audits | The market implements `Exchange`; essence and items are conserved; `EscrowFollowsIntent`, `NoStrandedEscrow`, `PostedOnce`, `LedgerExplainsWallets`, `NothingOverdrawn`; outcomes are final, the oldest intents settled first; an audit blames only holds, and what is posted while it reads | 535k |
| `market_live` | 1 soul, 3 keys, one client-chosen id listed from before, passes of 2, crash 1, failed write 1 per boot, gift 1, fairness | While the loop ticks, what was acknowledged is settled; reusing an id at a higher price can lose something and creates nothing | 541k |
| `social` | 3 keys, a thread from before, failed write 1, crash 1, charge 1 | The board is what the intents made of it, a purse is explained by holds, debits and charges, nobody answers a deleted message | 772k |
| `metering` | 2 usage rows, 4 batches, price change 1, abandoned deliberation or restart 1, failed writes 2, fairness | Each usage row is charged once, in full or to an empty wallet, and settled in the end while the loop ticks and its claim is not stranded | 168k |
| `recovery` | road of 3 places, a plot in its middle, 6 ticks, cap of 3, moves and changes of access 2, trouble 1, crashes 2 | Table, overlay, journal, exact and analytic advance agree after a restart within the cap; needs follow the clock up to the cap | 3.7M |
| `body` | 2 souls, 2 gifts, 5 spans, downtime of 2, one of each trouble | A gift raises one soul once, whatever fails or crashes; catch-up equals living through | 3.7M |
| `travel` | 3 plots, the middle one another's, fairness | A carried soul stays on its plot, a traveller is hidden, trips end | 565k |
| `commands` | 2 requests, 2 losses, one other write, crash 1, 2 days | Quips have their slots, wallets differ from ledgers only by a raced save, a repeated grant or intent does nothing | 1.8M |
| `brains` | 1 soul, breaker at 1 failure, 1 event, fairness | One brain at a time, the minimum gap is kept, events are answered | 238k |
| `letters` | 1 question, 5 days, crash 1, unlock 1, fairness | A faded question is told of once, compaction leaves no gap, memory forgets and repeats nothing, questions settle | 985k |
| `viewport` | 1 soul, 2 streams, 2 connections, 2 changes, loss 1 | Replays are exact, bubbles are shown once, at rest the client shows the world | 956k |

One run shows a disagreement between the code and what the repository says of
it. `commands_stale_save`: `POST /souls` reads the essence in the API process
and the upsert writes it back as it was, so that whatever another writer did
between the two is undone in the wallet and stays in the ledger
(`SavesKeepWallets`).

**Deviations built into the models.** What the code does differently from what
its documents say is modelled as it is, and the properties except it:

- An exception that escapes `step` ends the tick task for good while the
  process goes on acknowledging (`LoopEnds`; docs/adr/0003 61-69).
- `RejectShort` commits the deletion of a listing whose purchase it refuses; a
  listing reused at a lower price is bought with the whole escrow. Hence
  `NothingCreated`, and conservation only for minted ids.
- A soul gone dormant after it submitted a listing still lists
  (`dormancy.py:27-31`); the boot refund wakes souls without journaling it.
- A repairing audit pays held essence back a second time; audits are run with
  `RepairModes = {FALSE}`.
- The snapshot withholds the souls that are abroad (`viewport.py:497`) and yet
  commits their identities as told (`viewport.py:527`): a soul which comes home on
  that connection has no card, or an old one, until something of it changes,
  whereas docs/architecture.md:149 promises a card that never waits for a new
  snapshot. The session field `veiled` names those souls and `RestShows`
  excuses their identities.
- The replay of the journal and the advance over a downtime have no barrier
  (`persistence.py:789`): a restart carries a soul onto a plot that is closed to
  it. `RecoveryExact` excepts the souls that the plot stopped, or would have.
- Downtime beyond 24 h is neither simulated nor charged (`persistence.py:988`).
- A balance audit takes what is posted between its reads for drift.
- An intent whose handler raised after its commit turns from adjudicated to
  rejected (`SettleThenRaise`; `world_tick.py:499`), in the same pass.
- An LLM call whose output fails the validation is never metered
  (`agents/deliberation.py:885-888`), though `agents/metering.py:625` says that no
  spend is ever lost.
- A metering batch is settled by whichever soul's intent comes first, out of
  its wallet; the backfill's events have no trace.
- A save resets the columns it does not name (`Save`, `SaveSoul`): it ends a
  collapse and a walk. A feeding that went through is reported rejected when
  its episode cannot be logged (`FeedThenReject`).
- A second crash before the next snapshot charges the downtime from the same
  snapshot again. Flushed positions are overwritten by those of the snapshot.
- A soul whose essence equals the price of a message can never send it: the
  hold makes it dormant, and adjudication refuses the dormant. A failed write
  can put an edit off until after a later one (`late`).
- A command executed twice frees, charges or records twice (`past.twice`): only
  grants and intents are idempotent.
- Expeditions: the phase flips a tick late, or later when whole ticks are lost
  (`AdvanceLost`), and the second timeout cancels on
  the next tick. A carry ends only by its holder.
- Viewport: bubbles and economy operations said by code in the sim process
  reach a manager without sessions (docs/architecture.md:153-155); a resume
  replays old frames over the newer snapshot, and a snapshot in the middle of a
  flush shares its sequence (`crossed`); an exception ends the pump while the
  connection lives; a session with more than 256 operations never drains.
- Recaps older than the newest unshown one are shown by later unlocks; an
  answer whose process dies right after its commit is never felt (`lost`).

**Why the bounds are enough.** In the market, three intents are a listing and two
that compete for it, or two listings of one item, with each order of adjudication;
passes of two leave a third row for a later pass; `s2` can pay once and is dormant
after it; one lost reply at a time waits for its repetition (`MaxLost`), and the
audit follows the wallet of `s1` (`Watched`), who sells, buys and is given the
gift, the theorem any wallets; 0.75 has a rounding tie in its tax and 1.00 none.
With a listing from before, three intents are a purchase, a cancel and a relisting
at another price in between. One crash can come between any two transactions, and
the boot after it forgets the faults. One failed write reaches each branch of the
failure handling, two in metering the rejection that leaves its claims behind. In
`recovery` two crashes are a restart and another before the next snapshot; six
ticks hold two flushes and two snapshots, a downtime that is made up per tick (2),
in closed form (3), and one beyond the cap. In `body` one soul is restricted to
feeding (`Busy`) and both can feed each other; a downtime of two spans crosses the
threshold of starvation in its middle. In `travel` the foreign plot is the only
way. In `commands` two requests are each pair of kinds, which is where one
disturbs another. One soul in `brains` is enough for both threads to contend;
which of several souls is served first is left open by the model. `viewport` has
two connections because only a second one resumes the first; a ring of one frame
overflows. Keys are symmetric where no liveness is checked. Behaviours of these
models end when their bounds are used up, so deadlock is not an error there.

**Fairness.** The tick loop (`world_tick.py:400`) pumps in every tick, which is
weak fairness of `BeginPass`, of `RunBatch` and of the settlements, required
only while the loop ticks: where an unguarded failure has ended it, the liveness
properties promise nothing (`ticking`). A deliberation's second
transaction follows the first in the same call. The sim is restarted when it
dies (`docker-compose.yml:40`) and its boot runs `recover_world` before
anything else (`sim_process.py:79`), which is weak fairness of `Reconcile`,
`BootSim` and `Boot`. In `Travel` the tick (`Physics`) and the passing of
`EXPEDITION_MAX_S` are weakly fair, and `Advance` strongly: any tick may lose its
expeditions, but not every one from some tick on. In `Brains` the two threads and the
timers are; strong fairness of `JobStale` says that a job which waits again and
again is over its age once. In `Letters` days pass, the tick goes on strongly
(a crash may interrupt it) and the code after a commit runs. Nothing is assumed
fair about clients, failures, gifts, saves or operators.

## 4. What is proved

For every value of the constants that the ASSUMEs allow; TLC evaluates these in
every run that extends their module.

| Theorem | Module | States |
|---|---|---|
| `PumpSafe` | `IntentPumpProofs` | the pump is typed; a pass has pending rows only, but for one whose handler raised after its commit, replies have rows, places are unique |
| `PumpFinal` | `IntentPumpProofs` | `OverturnedInItsPass`: no intent is reopened, and an outcome is overturned only in the pass that settled it |
| `QuietFinal` | `IntentPumpProofs` | `OutcomeFinal`, where no handler raises after its commit |
| `PumpOrdered` | `IntentPumpProofs` | `OldestFirst`: an older intent is pending behind a settled one only when its own writes failed |
| `MarketPumps` | `MarketProofs` | every behaviour of `Market` is one of `QuietSpec` |
| `MarketTyped` | `MarketProofs` | `MarketTypeOK` |
| `MarketSolvent` | `MarketProofs` | no wallet and no inventory below zero |
| `PurchasesBacked` | `MarketProofs` | `EscrowFollowsIntent` |
| `EscrowsReleased` | `MarketProofs` | `NoStrandedEscrow` |
| `LedgerPostedOnce` | `MarketProofs` | `PostedOnce` |
| `MarketDecidesInOrder` | `MarketProofs` | `OutcomeFinal` and `OldestFirst` of the market |
| `NothingFromNothing` | `MarketProofs` | `NothingCreated`, whatever ids clients choose |
| `EssenceIsConserved` | `MarketProofs` | `EssenceConserved`, for minted ids |
| `ItemsAreConserved` | `MarketProofs` | `ItemsConserved`, for minted ids |
| `LedgerIsTruth` | `MarketProofs` | `LedgerExplainsWallets`, for minted ids |
| `MarketImplementsExchange` | `MarketProofs` | `SalesAreExchanges`, for minted ids |
| `AuditsBlameHolds` | `MarketProofs` | `AuditBlamesHolds`, for minted ids and audits that repair nothing |
| `ClaimsHaveIntents` | `WriteBehindProofs` | `ClaimsInFlight` |
| `ChargesFinal` | `WriteBehindProofs` | `ChargeFinal` |
| `ChargesAddUp` | `WriteBehindProofs` | `ChargesAccounted`: wallets, charges, fund and costs agree |
| `ShortfallsAreReal` | `WriteBehindProofs` | `ShortOnlyWhenEmpty` |
| `MeteringTyped` | `WriteBehindProofs` | `MeteringTypeOK` |
| `SocialPumps` | `SocialProofs` | every behaviour of `Social` is one of `QuietSpec` |
| `SocialDecidesInOrder` | `SocialProofs` | `OutcomeFinal` and `OldestFirst` of the board |
| `PursesExplained` | `SocialProofs` | `PurseExplained` |
| `BoardIsIntents` | `SocialProofs` | `BoardFollowsIntents` |
| `NoReplyUnderDead` | `SocialProofs` | `NoReplyUnderTombstone` |
| `SocialTyped` | `SocialProofs` | `SocialTypeOK` |
| `BudgetsCover` | `SimCommandsProofs` | `SlotsCovered` |
| `WalletsFollowLedgers` | `SimCommandsProofs` | `WalletsExplained` |
| `RepeatsAreHarmless` | `SimCommandsProofs` | `RetriesDoNotRepeat` |
| `CommandsTyped` | `SimCommandsProofs` | `SimTypeOK` |
| `TravelIsTyped` | `SoulProofs` | `TravelTypeOK` |
| `CarriedSoulsStay` | `SoulProofs` | `CarriedStaysPut` |
| `AbroadStaysHidden` | `SoulProofs` | `AbroadIsHidden` |
| `BodyIsTyped` | `SoulProofs` | `BodyTypeOK` |
| `GiftsAndRecoveries` | `SoulProofs` | `OneGiftOneRecovery` |
| `DecayAlwaysComposes` | `SoulProofs` | `DecayComposes` |
| `BrainsTyped` | `SoulProofs` | `BrainsTypeOK` |
| `OneBrainHolds` | `SoulProofs` | `OneBrain` |
| `ThinksArePaced` | `SoulProofs` | `PacedThinks` |
| `RecoveryTyped` | `WriteBehindProofs` | `RecoveryTypeOK` |
| `NeedsCharged` | `WriteBehindProofs` | `NeedsFollowTheClock` |
| `RecoveryIsExact` | `WriteBehindProofs` | `RecoveryExact` |
| `NothingForgotten` | `OwnerProofs` | `Remembered` |
| `TailsStayGapless` | `OwnerProofs` | `TailIsGapless` |
| `FadedToldOnce` | `OwnerProofs` | `ToldOnce` |
| `StreamIsTyped` | `OwnerProofs` | the types of the stream, with what binds sessions, handlers and the pump |
| `BubblesAreFresh` | `OwnerProofs` | `BubblesFresh` |
| `ReplaysAreExact` | `OwnerProofs` | `ReplayExact` |

**Assumptions.** `Keys`, actors, items, listings and events are finite sets
(`KeysFinite`, `WorldFinite`, `EventsFinite`): tables are. Constants are typed and
the values that stand for "nothing" are none of the values (`NoMessage`,
`NoIntent`, ...). What is minted by the hub is named apart from what a client may
name. The places that intents name are on the road and the marks for "no goal" and
"no entry" are no places (`PlacesNamed`); full hit points and the rates of decay
are positive (`BodyConstantsNat`). `RecapsOutlast` says that a recap is due again
before retention deletes it (22 hours and 30 days, `recap.py:83, 95`); without it
the window of a recap could start too early and tell a question twice. Two
assumptions belong to single theorems and are hypotheses there: `FreshIds`, that
listings go under minted ids, because a client that uses an id of its own again at
another price makes the market lose the difference (`NothingCreated` is what is
left then, and needs no such hypothesis); and `RepairModes \subseteq {FALSE}`,
because a repairing audit pays held essence a second time. Both are deviations of
the code listed above.

**The pump.** `PassIsFresh` is not inductive without the order: a new row must
get a place that no row has. `PumpIInv` adds `OrderInv`, that places do not
exceed the number of rows; counting them is where the finiteness of `Keys` is
used. `OldestFirst` rests on `QueueInv`: a pending row older than one of the batch is
of the batch itself, or was left at its turn. `Market` and
`Social` are first shown to be steps of `QuietNext`
(`MarketStepPumps`, `SocialStepPumps`), so the pump's results are inherited.

**The market.** `MarketIInv` adds to the properties themselves `Recorded`: a row
has its request, and the submitter of a *pending* purchase may act for its
buyer. Without the latter `RejectGone` could strand an escrow. Its preservation
is proved one table at a time (`BooksStep`, `WalletsStep`, `ShelvesStep`,
`LedgerStep`, `TablesStep`), each with one case per action.

**Sums.** Induction over a finite set is out of the prover's reach as a theorem
with an operator parameter, so `SumTheorems` argues from well-foundedness: of a
set of parts of a finite set there is a smallest (`SmallestPart`), hence a
smallest counterexample, hence `PartInduction` for a *set* of parts.
`SumsExists` and `SumsUnique` show that `Total` is defined, and then `TotalTake`,
`TotalChange`, `TotalPlus`, `TotalDisjoint`, `TotalReplaced` say how it changes.

**The accounts.** Every step of the market is one of a few *moves* of essence
between a wallet, a hold and the fund and of a lot between an inventory and a
listing; each move keeps its sum. `OnceListed`, with `FreshIds`, says that a
minted listing is the one its intent made, so a price never changes under a
purchase; `BalancedInv` conjoins it with the ledger and the sums. The refinement
needs nothing more: a hold moves essence inside what its buyer owns, and a
settled purchase is the only step that moves it between actors. Of the audit it is
enough that the actors it is to read are among those with a wallet and that it
repairs nothing (`LookingOn`): what a wallet differs by from its ledger is then
what is held, now or at its baseline, or was posted since the sum.

**Metering.** `ClaimInv` adds to `ClaimsInFlight` that usage ids are given out one
after the other (else a new row could overwrite the soul of a claimed one) and
that what is claimed is a recorded event of a batch already made. `ChargeInv`
adds the sums; a settlement charges events in the order of their ids, each what
the prefix before it has left in the wallet (`PaidInAll`).

**The board.** `SocialIInv` has the books (`BooksInv`: what is held, debited and
published for each intent), the accounts (`AccountsHold`), the thread
(`ThreadInv`: there is a function that gives each message one more than its
parent, which rules out cycles and makes the recursion of the depth unique) and
the marks (`MarksInv`: what edits and deletions left of each message).

**The commands.** `SimInv` holds for any number of requests, only finitely many of
which have begun (`Begun`). `PlacesInv` says where a request of each kind and its
copies can be; `FreshInv` that the copies of a request which have not run are of
one command, the one it waits for or has given up on. With it, a command that has
run only once finds its request before the answer, and the set of requests that
have a slot (`Slotted`: also the ones that gave up while a charge or a release is
on its way, which `SlotsCovered` does not count) loses a member exactly when a
slot is paid for or given back. `IntentsInv` has an intent only under a nonce
whose submission has run, and one for each client that was told so. `ReadInv` says
of a soul whose wallet no other write has touched that every open save has read
what the wallet holds, so that writing it back changes nothing. Each kind of step
is one of a few turns (`Turn`, `FreshTurn`, `IntentTurn`, `SlotTurn`, `OpenTurn`),
and each turn keeps its part.

**Travel.** `TravelInv` says when a trip has legs, where each phase keeps the
soul, and what a grab leaves true of the motion: nothing that runs between a
grab and its release un-suspends the soul on another plot.

**The body.** `BodyInv` is `OneGiftOneRecovery` with the types and `FeedsOK`, that a
gift under way has a giver and a recipient. `DecayComposes` says of every body and
span what a closed step does and needs no step of the system: among the numbers of
live ticks after which the body differs from the closed step there would be a least
one (`SumTheorems`), one tick before it both agree, and the divisions of one tick
and of the closed step are compared there (`StarvedUnits`).

**The brain.** `BrainsInv` says which of the two threads has which soul's brain
(`PoolOK`, `QueueOK`, and `OneBrain` itself), and for the gap (`Paced`) that a recent
think keeps it, that the gap keeps a soul from being due, and that the pool has
chosen no recent soul. What is noted between the choice and the think does not
shorten a gap.

**Recovery.** How far the needs may lag (`CaughtUp`) is said of the live state and
of every state that a boot may start from, the table and each kept snapshot, with one
period of the cadence for each death. `OnRecord` is the heart of the exactness:
at all times, for each soul on the record, replaying the journal behind the newest
snapshot up to the present tick leads to the motion the soul has now, or would have
had the process not died. The replay is a trace of its ticks (`Tracked`, `Traces`)
that keeps the soul on its way to its goal, so that both ways to catch up agree
(`BothWaysAgree`). A tick lengthens the trace (`TrackedTick`), a move applies its
event at the end (`TrackedMove`), a snapshot starts it (`TrackedStart`), and a boot
moves the base of none: the snapshot stays the newest one (`TrackedBoot`). That a
trace exists and is unique is again an argument from a least counterexample. What a
closed plot has stopped is taken off the record by the step that stops it, in life
and in a downtime.

**Letters.** `MemoryInv` ties the episodes, the digests and the log by ids: all
rows of a dull id agree on their day and on being folded, which is why a night
that is repeated finds nothing to fold again. That ids are not reused
(`IdsInv`: one wake for each life of the process, one silence for each question)
needs the mailbag. `JournalInv` has every position behind a snapshot taken; the
rows that compaction deletes lie at or before the oldest snapshot, and the ranks of
their days fill the positions of the rollups without a gap (`RanksFill`).
`ToldOnce` is not inductive: `RecapsInv` adds that the newest recap and its row
in the journal are still there, that the row makes the next due night a loud
one, and hence that a recap is not due when retention runs; `ToldInv` adds that
what was told is older than the newest recap.

**The viewport.** `StreamInv` has the types and what goes together: the sessions
that are live, the stage of each handler, the pump and the resume under way.
`BubbleInv` follows the one bubble through queue, frame and view; that the ring has
none is a property of what `Lasting` keeps (`AmongKeeps`). `ReplayInv` is a book of
the newest connection, with a send that waits counted as done: numbers on the wire
never fall and deltas have a number of their own (`Flows`), a ring holds exactly
what the client has not heard beyond the number it reached (`Kept`), and what was
sent is heard, or in the ring, or has left a gap in front of the ring that
`Replayable` sees (`Covered`). `Backed` says the same of the connection a client may
resume and `Replays` of what is left to replay. A snapshot may share its number
with a frame of a flush, which is why numbers are not strictly increasing; only the
deltas' are, and that is what keeps a frame from being replayed twice.

Each of these invariants was checked by TLC on the instance of its run before
it was proved. `PassIsFresh`, `MarketTypeOK` and `ClaimsInFlight` are proved and
no run spends a property on them any more.

**Only model-checked.** Liveness (`SettledWhileTicking`, `AllMetered`,
`TripsEnd`, `EventsAnswered`, `LettersSettle`), which the prover does not do; and
`RestShows`, which is said of a `MoveEpsilon` of 0. With the 0.5 px of the code
(`viewport.py:43`) a flush commits the positions of souls whose moves were too small
to be sent, so that the client may lag behind a slow soul by more than that.

## 5. Not modelled, and why

Planar geometry, vision and interpolation are floating-point numerics; prompts,
provider chains, the wording of recaps, reflexes and embeddings are text.
Authentication, bridge tokens, keys and rate limits are cryptography and request
filtering. The replay tool compares two runs of the program, which is not a
property of one behaviour. The desktop client beyond its network consumers
renders, keeps local files and runs a local AI. Theft, chirps, petting, foraging
and experience points are left out: single writes that none of the modelled
parts depends on. `managers.py` keeps a registry in which the
end of a replaced websocket removes its successor; no model has it. SQLite is
assumed to do what it promises: a transaction happens entirely or not at all,
and what is committed stays.
