------------------------------ MODULE Recovery ------------------------------
(***************************************************************************)
(* Where the souls are, and what a restart makes of it: the tick loop      *)
(* integrates motion into an in-memory overlay (server/persistence.py,     *)
(* DirtySet) that is written behind to the souls table, adjudicated moves  *)
(* go to the table and to the journal at once, and every few minutes a     *)
(* snapshot of the overlaid state is kept.  Boot starts from the newest    *)
(* good snapshot, replays the journal behind it and advances over the      *)
(* downtime, up to a cap.                                                  *)
(*                                                                         *)
(* Space is one road of integer places and a soul covers one place per     *)
(* tick; time is counted in ticks.  Both are the units in which            *)
(* `integrate_soul` is exact.  The road crosses a private plot, which its   *)
(* owner may close to the other souls: the tick loop stops them before it, *)
(* the replay does not look at it.                                         *)
(***************************************************************************)
EXTENDS Inhabitants, Integers, Sequences, FiniteSets

CONSTANTS
    RoadEnd,        \* SCREEN_BOUNDS less the margin: places are 0..RoadEnd
    Goals,          \* places that intents, steering, carries and saves name
    Plot,           \* the places of the private plot
    NoGoal,         \* move_target NULL
    Clean,          \* no entry in the dirty set
    FlushEvery,     \* FLUSH_INTERVAL_S in ticks
    SnapshotEvery,  \* SNAPSHOT_EVERY_TICKS
    SnapshotKeep,   \* SNAPSHOT_KEEP
    BiologyEvery,   \* BIOLOGY_EVERY_TICKS
    FastForward,    \* CATCHUP_FAST_FORWARD_S in ticks
    CatchUpMax,     \* CATCHUP_MAX_S in ticks
    MaxNow,         \* bound: ticks of wall clock in a behaviour
    MaxMoves,       \* bound: adjudicated moves, and changes of the plot's access
    MaxTrouble,     \* bound: failed flushes, corrupt snapshots, and changes of
                    \*        motion that journal no motion
    MaxDeaths       \* bound: process deaths

ASSUME CadencesPositive ==
    {FlushEvery, SnapshotEvery, SnapshotKeep, BiologyEvery} \subseteq Nat \ {0}
ASSUME PlacesNamed ==
    /\ Goals \subseteq 0..RoadEnd
    /\ NoGoal \notin 0..RoadEnd
    /\ Clean \notin [at : 0..RoadEnd, vel : {-1, 0, 1},
                     goal : (0..RoadEnd) \cup {NoGoal}]
ASSUME RecoveryBoundsNat ==
    {RoadEnd, FastForward, CatchUpMax, MaxNow, MaxMoves, MaxTrouble, MaxDeaths}
        \subseteq Nat

VARIABLES
    disk,      \* souls.position, velocity and move_target
    dirty,     \* the overlay: soul -> newest motion, or Clean
    funded,    \* the soul's essence is above zero
    fallen,    \* the soul's state is 'collapsed'
    barred,    \* the souls the plot is closed to
    journal,   \* motion events, in seq order: [tick, soul, vel, goal]
    snaps,     \* kept snapshots, oldest first: [tick, seq, at, motion]
    mark,      \* globals last_tick_at / last_tick_id: [at, tick]
    aged,      \* ticks of decay the soul's needs have been charged
    tick,      \* WorldTick.tick_id
    phase,     \* where the step is: "pump", or a "flush" or "snapshot" is due
    sinceFlush,\* ticks since _last_flush_at
    lastSnap,  \* _last_snapshot_tick
    up,        \* the sim process runs
    looping,   \* its tick task runs
    now,       \* the wall clock
    should,    \* history: the motion the soul had when the process died,
               \*          carried forward by the clock
    offRecord, \* history: souls whose motion changed since the newest
               \*          snapshot by something the journal does not replay
    tally      \* history: [moves, trouble, crashes, forgiven]: forgiven are
               \*          the ticks of downtime beyond the cap

recoveryVars == <<disk, dirty, funded, fallen, barred, journal, snaps, mark, aged, tick,
          phase, sinceFlush, lastSnap, up, looping, now, should, offRecord, tally>>

body == <<funded, fallen, barred>>
ram == <<tick, phase, sinceFlush, lastSnap, up, looping>>

Road == 0..RoadEnd
Motion == [at : Road, vel : {-1, 0, 1}, goal : Road \cup {NoGoal}]
Still(x) == [at |-> x, vel |-> 0, goal |-> NoGoal]

-----------------------------------------------------------------------------
(* The pure movement of a soul.                                            *)
Clamp(x) == IF x < 0 THEN 0 ELSE IF x > RoadEnd THEN RoadEnd ELSE x

Distance(m) == IF m.goal < m.at THEN m.at - m.goal ELSE m.goal - m.at

(* integrate_soul: one tick; the goal stops the soul when it is reached or *)
(* passed.                                                                 *)
Integrate(m) ==
    LET x == Clamp(m.at + m.vel) IN
    IF m.vel # 0 /\ m.goal # NoGoal /\ (m.goal - x) * m.vel <= 0
    THEN Still(m.goal)
    ELSE [m EXCEPT !.at = x]

(* can_enter_plot: off the plot everybody, on it whom it is open to.       *)
CanEnter(s, x) == x \in Plot => s \notin barred

(* The barrier of the tick loop: a soul whose next place it cannot enter   *)
(* stays where it is and forgets its goal.                                 *)
Stopped(s, m) == m.vel # 0 /\ ~CanEnter(s, Integrate(m).at)

Stride(s, m) == IF Stopped(s, m) THEN Still(m.at) ELSE Integrate(m)

(* analytic_advance: n ticks in closed form.                               *)
AnalyticAdvance(m, n) ==
    IF n = 0 \/ m.vel = 0 THEN m
    ELSE IF m.goal # NoGoal /\ Distance(m) <= n THEN Still(m.goal)
    ELSE [m EXCEPT !.at = Clamp(m.at + m.vel * n)]

FastForwarded(m, n) ==
    LET f[i \in 0..n] == IF i = 0 THEN m ELSE Integrate(f[i - 1]) IN f[n]

Advance(m, n, exact) ==
    IF exact THEN FastForwarded(m, n) ELSE AnalyticAdvance(m, n)

(* Still, or on the way to its goal.  A soul that walks away from its goal *)
(* is stopped at it at once per tick, and only when near it in closed form.*)
Aimed(m) == m.vel # 0 => m.goal \in Road /\ (m.goal - m.at) * m.vel > 0

(* read_state_through: the table overlaid with the dirty set.              *)
View(s) == IF dirty[s] = Clean THEN disk[s] ELSE dirty[s]

(* apply_event: only an event that carries a velocity moves anything.      *)
ApplyEvent(m, e) == [m EXCEPT !.vel = e.vel, !.goal = e.goal]

(* replay_tail, tick by tick from the base: k ticks after it, the soul has *)
(* the motion m of the t-th tick, advanced from there.  Events apply at    *)
(* their tick, those of before the base at once and those of after the end *)
(* at the end; the last one by tick and seq decides, outcomes being        *)
(* absolute.  The closed form starts anew at every event, whosesoever.     *)
(* Neither form has the barrier.                                           *)
Moment(e, base, n) ==
    IF e.tick < base THEN 0 ELSE IF e.tick > base + n THEN n ELSE e.tick - base

Own(s, tail, base, n, k) ==
    {j \in 1..Len(tail) : tail[j].soul = s /\ Moment(tail[j], base, n) = k}

Latest(tail, S) ==
    CHOOSE j \in S : \A i \in S :
        \/ tail[i].tick < tail[j].tick
        \/ tail[i].tick = tail[j].tick /\ i <= j

ReplayStep(past, k, s, tail, base, n, exact) ==
    LET here == Advance(past.m, k - past.t, exact)
        own == Own(s, tail, base, n, k)
    IN  IF own # {} THEN [m |-> ApplyEvent(here, tail[Latest(tail, own)]), t |-> k]
        ELSE IF \E j \in 1..Len(tail) : tail[j].tick = base + k THEN [m |-> here, t |-> k]
        ELSE past

Replayed(m0, s, tail, base, n, exact) ==
    LET run[k \in 0..n] ==
            ReplayStep(IF k = 0 THEN [m |-> m0, t |-> 0] ELSE run[k - 1],
                       k, s, tail, base, n, exact)
    IN  run

(* A replay that leads the soul away from a goal somewhere, or applies an  *)
(* event of a tick to come.                                                *)
Misled(m0, s, tail, base, n) ==
    LET run == Replayed(m0, s, tail, base, n, FALSE)
    IN  \/ \E j \in 1..Len(tail) : tail[j].soul = s /\ tail[j].tick > base + n
        \/ \E k \in 0..n : ~Aimed(run[k].m)

ReplayTail(m0, s, tail, base, n, exact) ==
    LET last == Replayed(m0, s, tail, base, n, exact)[n]
    IN  Advance(last.m, n - last.t, exact)

-----------------------------------------------------------------------------
RecoveryInit ==
    /\ disk = [s \in Souls |-> Still(0)]
    /\ dirty = [s \in Souls |-> Clean]
    /\ funded = [s \in Souls |-> TRUE]
    /\ fallen = [s \in Souls |-> FALSE]
    /\ barred = {}
    /\ journal = << >>
    /\ snaps = << >>
    /\ mark = [at |-> 0, tick |-> 0]
    /\ aged = [s \in Souls |-> 0]
    /\ tick = 0
    /\ phase = "pump"
    /\ sinceFlush = 0
    /\ lastSnap = 0
    /\ up = TRUE
    /\ looping = TRUE
    /\ now = 0
    /\ should = [s \in Souls |-> Still(0)]
    /\ offRecord = {}
    /\ tally = [moves |-> 0, trouble |-> 0, crashes |-> 0, forgiven |-> 0]

-----------------------------------------------------------------------------
(* The pump of a step: adjudications and what else changes a soul's        *)
(* motion while the step lock is held.                                     *)
Pumping == up /\ looping /\ phase = "pump"

Unrecorded(s) ==
    /\ tally.trouble < MaxTrouble
    /\ tally' = [tally EXCEPT !.trouble = @ + 1]
    /\ offRecord' = offRecord \cup {s}

(* _adjudicate_move_to: velocity, target, intent status and journal commit *)
(* together; the position stays in the overlay.  Only a soul's own move to *)
(* a plot closed to it is refused, an operator's is not.                   *)
MoveTo(s, x) ==
    LET m == View(s)
        v == IF x > m.at THEN 1 ELSE IF x < m.at THEN -1 ELSE 0
        g == IF x = m.at THEN NoGoal ELSE x
    IN
    /\ Pumping
    /\ funded[s] /\ ~fallen[s]
    /\ tally.moves < MaxMoves
    /\ tally' = [tally EXCEPT !.moves = @ + 1]
    /\ disk' = [disk EXCEPT ![s].vel = v, ![s].goal = g]
    /\ dirty' = [dirty EXCEPT ![s] = [at |-> m.at, vel |-> v, goal |-> g]]
    /\ journal' = Append(journal, [tick |-> tick, soul |-> s, vel |-> v, goal |-> g])
    /\ UNCHANGED <<body, ram, snaps, mark, aged, now, should, offRecord>>

(* _adjudicate_rest and _adjudicate_wait stop the soul in the overlay; the *)
(* journal row carries no velocity.                                        *)
Rest(s) ==
    /\ Pumping
    /\ View(s).vel # 0
    /\ dirty' = [dirty EXCEPT ![s] = Still(View(s).at)]
    /\ Unrecorded(s)
    /\ UNCHANGED <<disk, body, ram, journal, snaps, mark, aged, now, should>>

(* Expedition steering: the row and, after its commit, the overlay.        *)
Steer(s, x) ==
    LET m == View(s)
        v == IF x > m.at THEN 1 ELSE -1
    IN
    /\ Pumping
    /\ funded[s] /\ ~fallen[s]
    /\ x # m.at
    /\ disk' = [disk EXCEPT ![s].vel = v, ![s].goal = x]
    /\ dirty' = [dirty EXCEPT ![s] = [at |-> m.at, vel |-> v, goal |-> x]]
    /\ Unrecorded(s)
    /\ UNCHANGED <<body, ram, journal, snaps, mark, aged, now, should>>

(* A carry puts the soul somewhere, in the row and in the overlay.         *)
CarryTo(s, x) ==
    /\ Pumping
    /\ funded[s] /\ ~fallen[s]
    /\ disk' = [disk EXCEPT ![s] = Still(x)]
    /\ dirty' = [dirty EXCEPT ![s] = Still(x)]
    /\ Unrecorded(s)
    /\ UNCHANGED <<body, ram, journal, snaps, mark, aged, now, should>>

(* A bulk save of the soul replaces the row; the unflushed entry is older  *)
(* and is dropped.  The statement names no move_target: the column is NULL *)
(* afterwards.                                                             *)
SaveSoul(s, x) ==
    /\ up
    /\ phase = "pump"
    /\ disk' = [disk EXCEPT ![s] = Still(x)]
    /\ dirty' = [dirty EXCEPT ![s] = Clean]
    /\ Unrecorded(s)
    /\ UNCHANGED <<body, ram, journal, snaps, mark, aged, now, should>>

(* The balance reaches zero: physics skips the soul, its motion is kept.   *)
GoDormant(s) ==
    /\ Pumping
    /\ funded[s]
    /\ funded' = [funded EXCEPT ![s] = FALSE]
    /\ Unrecorded(s)
    /\ UNCHANGED <<disk, dirty, fallen, barred, ram, journal, snaps, mark, aged, now, should>>

Wake(s) ==
    /\ Pumping
    /\ ~funded[s]
    /\ funded' = [funded EXCEPT ![s] = TRUE]
    /\ UNCHANGED <<disk, dirty, fallen, barred, ram, journal, snaps, mark, aged, now,
                   should, offRecord, tally>>

(* Starvation: velocity and target are cleared in the row and the overlay. *)
Collapse(s) ==
    /\ Pumping
    /\ funded[s] /\ ~fallen[s]
    /\ fallen' = [fallen EXCEPT ![s] = TRUE]
    /\ disk' = [disk EXCEPT ![s].vel = 0, ![s].goal = NoGoal]
    /\ dirty' = [dirty EXCEPT ![s] = Still(View(s).at)]
    /\ Unrecorded(s)
    /\ UNCHANGED <<funded, barred, ram, journal, snaps, mark, aged, now, should>>

(* A claim, or the plot_set_policy command: the plot is open to everybody, *)
(* or closed to all but its owner, who may be none of the souls (any more).*)
ChangeAccess ==
    /\ up
    /\ phase = "pump"
    /\ tally.moves < MaxMoves
    /\ tally' = [tally EXCEPT !.moves = @ + 1]
    /\ barred' \in {{}, Souls} \cup {Souls \ {s} : s \in Souls}
    /\ barred' # barred
    /\ UNCHANGED <<disk, dirty, funded, fallen, ram, journal, snaps, mark, aged, now,
                   should, offRecord>>

-----------------------------------------------------------------------------
SnapshotDue(t) == t - lastSnap >= SnapshotEvery

Moving == {s \in Souls : funded[s] /\ View(s).vel # 0}

(* The physics of the step: every awake moving soul is integrated into the *)
(* overlay, or stopped before the closed plot, of which the journal hears  *)
(* nothing; the needs are charged on their cadence, the tick is counted.   *)
Physics ==
    /\ Pumping
    /\ now < MaxNow
    /\ dirty' = [s \in Souls |-> IF s \in Moving THEN Stride(s, View(s)) ELSE dirty[s]]
    /\ offRecord' = offRecord \cup {s \in Moving : Stopped(s, View(s))}
    /\ aged' = [s \in Souls |->
                    IF (tick + 1) % BiologyEvery = 0 THEN aged[s] + BiologyEvery
                    ELSE aged[s]]
    /\ tick' = tick + 1
    /\ now' = now + 1
    /\ sinceFlush' = sinceFlush + 1
    /\ phase' = IF sinceFlush + 1 >= FlushEvery THEN "flush"
                ELSE IF SnapshotDue(tick + 1) THEN "snapshot" ELSE "pump"
    /\ UNCHANGED <<disk, body, journal, snaps, mark, lastSnap, up, looping, should,
                   tally>>

(* flush_dirty: the overlay into the table, and the watermarks, in one     *)
(* transaction.                                                            *)
Flush ==
    /\ disk' = [s \in Souls |-> View(s)]
    /\ dirty' = [s \in Souls |-> Clean]
    /\ mark' = [at |-> now, tick |-> tick]
    /\ sinceFlush' = 0

MaybeFlush ==
    /\ up /\ looping /\ phase = "flush"
    /\ phase' = IF SnapshotDue(tick) THEN "snapshot" ELSE "pump"
    /\ Flush
    /\ UNCHANGED <<body, journal, snaps, aged, tick, lastSnap, up, looping, now,
                   should, offRecord, tally>>

(* The transaction of a flush fails: the drained entries are marked again, *)
(* and the exception leaves the step and ends the tick loop.               *)
FlushFails ==
    /\ up /\ looping /\ phase = "flush"
    /\ tally.trouble < MaxTrouble
    /\ tally' = [tally EXCEPT !.trouble = @ + 1]
    /\ looping' = FALSE
    /\ phase' = "pump"
    /\ UNCHANGED <<disk, dirty, body, journal, snaps, mark, aged, tick, sinceFlush,
                   lastSnap, up, now, should, offRecord>>

(* Mutant: the snapshot is of the table, not of the overlaid state.        *)
TakeSnapshotOfTable ==
    LET shot == [tick |-> tick, seq |-> Len(journal), at |-> now,
                 motion |-> disk]
        all == Append(snaps, shot)
    IN  snaps' = IF Len(all) > SnapshotKeep THEN Tail(all) ELSE all

(* take_snapshot and prune_snapshots.                                      *)
TakeSnapshot ==
    LET shot == [tick |-> tick, seq |-> Len(journal), at |-> now,
                 motion |-> [s \in Souls |-> View(s)]]
        all == Append(snaps, shot)
    IN  snaps' = IF Len(all) > SnapshotKeep THEN Tail(all) ELSE all

(* A motion frozen by dormancy, or away from its goal, is not what the     *)
(* journal replays, however new the snapshot.                              *)
StillOffRecord ==
    {s \in Souls : (~funded[s] /\ View(s).vel # 0) \/ ~Aimed(View(s))}

MaybeSnapshot ==
    /\ up /\ looping /\ phase = "snapshot"
    /\ phase' = "pump"
    /\ TakeSnapshot
    /\ lastSnap' = tick
    /\ offRecord' = StillOffRecord
    /\ UNCHANGED <<disk, dirty, body, journal, mark, aged, tick, sinceFlush, up,
                   looping, now, should, tally>>

-----------------------------------------------------------------------------
(* Time passes while no tick runs.                                         *)
Downtime ==
    /\ ~up \/ ~looping
    /\ now < MaxNow
    /\ now' = now + 1
    /\ should' = IF up THEN should ELSE [s \in Souls |-> Stride(s, should[s])]
    /\ offRecord' = IF up THEN Souls
                    ELSE offRecord \cup {s \in Souls : Stopped(s, should[s])}
    /\ UNCHANGED <<disk, dirty, body, ram, journal, snaps, mark, aged, tally>>

(* A process that falls behind skips ticks: they are counted, nothing is   *)
(* integrated and no cadence of theirs fires.                              *)
SkipTicks ==
    /\ Pumping
    /\ now < MaxNow
    /\ tally.trouble < MaxTrouble
    /\ tally' = [tally EXCEPT !.trouble = @ + 1]
    /\ now' = now + 1
    /\ tick' = tick + 1
    /\ offRecord' = Souls
    /\ UNCHANGED <<disk, dirty, body, journal, snaps, mark, aged, phase, sinceFlush,
                   lastSnap, up, looping, should>>

(* stop(): a last flush and a last snapshot, taken even when the loop has  *)
(* died before.                                                            *)
Stop ==
    /\ up
    /\ phase = "pump"
    /\ tally.crashes < MaxDeaths
    /\ tally' = [tally EXCEPT !.crashes = @ + 1]
    /\ up' = FALSE
    /\ looping' = FALSE
    /\ Flush
    /\ TakeSnapshot
    /\ offRecord' = StillOffRecord
    /\ should' = [s \in Souls |-> View(s)]
    /\ UNCHANGED <<body, journal, aged, tick, phase, lastSnap, now>>

Crash ==
    /\ up
    /\ tally.crashes < MaxDeaths
    /\ tally' = [tally EXCEPT !.crashes = @ + 1]
    /\ up' = FALSE
    /\ looping' = FALSE
    /\ dirty' = [s \in Souls |-> Clean]
    /\ should' = [s \in Souls |-> View(s)]
    /\ UNCHANGED <<disk, body, journal, snaps, mark, aged, tick, phase, sinceFlush,
                   lastSnap, now, offRecord>>

(* The ticks since a base state, and how many of them a boot makes up for. *)
Gap(at) == now - at
Caught(at) == IF Gap(at) <= CatchUpMax THEN Gap(at) ELSE CatchUpMax

(* Mutant: the needs are not charged for the gap.                          *)
RecoverFromNoDecay(motion, base, at, tail) ==
    LET n == Caught(at) IN
    /\ disk' = [s \in Souls |-> ReplayTail(motion[s], s, tail, base, n, TRUE)]
    /\ aged' = aged
    /\ tick' = base + n
    /\ lastSnap' = base + n
    /\ mark' = [at |-> now, tick |-> base + n]

(* recover_world from a base state taken at `at` under tick `base`.  Ticks *)
(* beyond the cap are not simulated, not charged and not counted, and the  *)
(* clock is set to now all the same.                                       *)
RecoverFrom(motion, base, at, tail) ==
    LET n == Caught(at)
        exact == Gap(at) <= FastForward
    IN
    /\ disk' = [s \in Souls |-> ReplayTail(motion[s], s, tail, base, n, exact)]
    /\ aged' = [s \in Souls |-> aged[s] + n]
    /\ tick' = base + n
    /\ lastSnap' = base + n
    /\ mark' = [at |-> now, tick |-> base + n]

(* The journal behind a snapshot.                                          *)
Since(shot) == SubSeq(journal, shot.seq + 1, Len(journal))

Restarted ==
    /\ up' = TRUE
    /\ looping' = TRUE
    /\ phase' = "pump"
    /\ sinceFlush' = 0
    /\ dirty' = [s \in Souls |-> Clean]
    /\ should' = [s \in Souls |-> Still(0)]
    /\ UNCHANGED <<body, journal, snaps, now>>

(* The newest snapshots may fail their check; the next older one is used.  *)
(* From the newest, every soul is on the record again but those frozen in  *)
(* motion and those whose replay went astray: what moved them is missing   *)
(* from it.  Beyond the cap nobody is: the clock has run away from the     *)
(* snapshot.                                                               *)
BootFrom(i) ==
    /\ ~up
    /\ Len(snaps) - i <= MaxTrouble - tally.trouble
    /\ RecoverFrom(snaps[i].motion, snaps[i].tick, snaps[i].at, Since(snaps[i]))
    /\ tally' = [tally EXCEPT !.trouble = @ + Len(snaps) - i,
                              !.forgiven = @ + Gap(snaps[i].at) - Caught(snaps[i].at)]
    /\ offRecord' = IF i < Len(snaps) \/ Gap(snaps[i].at) > CatchUpMax THEN Souls
                    ELSE {s \in Souls :
                            \/ ~funded[s] /\ disk'[s].vel # 0
                            \/ Misled(snaps[i].motion[s], s, Since(snaps[i]),
                                      snaps[i].tick, Gap(snaps[i].at))}
    /\ Restarted

(* With no usable snapshot the table itself is the base, and no event is   *)
(* replayed.                                                               *)
BootFromTable ==
    /\ ~up
    /\ Len(snaps) <= MaxTrouble - tally.trouble
    /\ RecoverFrom(disk, mark.tick, mark.at, << >>)
    /\ tally' = [tally EXCEPT !.trouble = @ + Len(snaps),
                              !.forgiven = @ + Gap(mark.at) - Caught(mark.at)]
    /\ offRecord' = Souls
    /\ Restarted

-----------------------------------------------------------------------------
RecoveryNext ==
    \/ \E s \in Souls, x \in Goals :
        MoveTo(s, x) \/ Steer(s, x) \/ CarryTo(s, x) \/ SaveSoul(s, x)
    \/ \E s \in Souls : Rest(s) \/ GoDormant(s) \/ Wake(s) \/ Collapse(s)
    \/ ChangeAccess
    \/ Physics \/ MaybeFlush \/ FlushFails \/ MaybeSnapshot
    \/ Downtime \/ SkipTicks
    \/ Stop \/ Crash
    \/ \E i \in 1..Len(snaps) : BootFrom(i)
    \/ BootFromTable

RecoverySpec == RecoveryInit /\ [][RecoveryNext]_recoveryVars

-----------------------------------------------------------------------------
RecoveryTypeOK ==
    /\ disk \in [Souls -> Motion]
    /\ dirty \in [Souls -> Motion \cup {Clean}]
    /\ funded \in [Souls -> BOOLEAN]
    /\ fallen \in [Souls -> BOOLEAN]
    /\ barred \subseteq Souls
    /\ \A i \in 1..Len(snaps) : snaps[i].motion \in [Souls -> Motion]
    /\ aged \in [Souls -> Nat]
    /\ {tick, sinceFlush, lastSnap, now} \subseteq Nat
    /\ phase \in {"pump", "flush", "snapshot"}
    /\ {up, looping} \subseteq BOOLEAN
    /\ should \in [Souls -> Motion]
    /\ offRecord \subseteq Souls

(* A soul that only adjudicated moves have set in motion since the newest  *)
(* snapshot, and that no closed plot has stopped, is, after a restart from *)
(* it within the cap of the catch-up, exactly where it would be had the    *)
(* process never died: the table, the overlay, the journal and the two     *)
(* ways to catch up (per tick, or in closed form) agree.                   *)
RecoveryExact ==
    [][snaps # << >> /\ BootFrom(Len(snaps)) /\ Gap(snaps[Len(snaps)].at) <= CatchUpMax
        => \A s \in Souls \ offRecord : disk'[s] = should[s]]_recoveryVars

(* Needs follow the clock: downtime is charged up to the cap, and what the *)
(* cadence of the live path has not charged yet when the process ends is   *)
(* less than a period of it per restart.  (Ticks the loop skipped, or      *)
(* never ran because it had died, are not charged; they count as trouble.) *)
NeedsFollowTheClock ==
    up /\ tally.trouble = 0 /\ looping
        => \A s \in Souls :
              now - aged[s] <= (BiologyEvery - 1) * (tally.crashes + 1) + tally.forgiven

=============================================================================
