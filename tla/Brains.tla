------------------------------- MODULE Brains -------------------------------
(***************************************************************************)
(* What makes souls act: the agent pool of the tick thread                 *)
(* (agents/pool.py, agents/scheduler.py, agents/deliberation.py), the JEV  *)
(* worker thread (agents/jev_worker.py, agents/jev_queue.py, agents/jev.py,*)
(* agents/jev_brain.py) and the baseline wander (wander.py).  Both threads *)
(* think about a soul only under brain_busy.                               *)
(*                                                                         *)
(* A tick goes through four phases: "pump" (intents, motion), "pool" and   *)
(* "thinking" (the due souls one by one), "sweep" (baseline wander,        *)
(* arrivals, restlessness).  The worker runs beside it.  Times are not     *)
(* counted: every delay is a flag that a timer action clears.  Which goal  *)
(* and which action a brain decides on is left open, as is the order of    *)
(* the jobs of different souls.                                            *)
(***************************************************************************)
EXTENDS Inhabitants, Naturals, FiniteSets

CONSTANTS
    NoSoul,
    MaxPerTick,  \* THINK_MAX_PER_TICK
    Failures,    \* BREAKER_FAILURES
    MaxLegs,     \* WANDER_LEGS_MAX
    MaxNotes     \* bound: events of the world, restlessness apart

ASSUME BrainsConstants ==
    /\ {MaxPerTick, Failures, MaxLegs} \subseteq Nat \ {0} /\ MaxLegs > 1 /\ MaxNotes \in Nat
    /\ NoSoul \notin Souls

VARIABLES
    bodies,   \* soul -> [state, path, leg]: leg if the last intent to move was
              \* a leg of the worker's
    sched,    \* soul -> [next, gap]: ThinkScheduler
    tick,     \* [at, todo, soul, arrived]: the tick thread
    worker,   \* [at, soul, job]: the JEV worker
    job,      \* soul -> queued job or NoJob
    busy,     \* brain_busy
    breaker,  \* [state, failures, probe, cooled]
    episode,  \* soul -> [legs, tracked]: WanderManager, _wander_intent
    past      \* history: [recent, pruned, owed, notes]

brainVars == <<bodies, sched, tick, worker, job, busy, breaker, episode, past>>

Kinds == {"event", "continue", "restless"}
NoJob == [kinds |-> {}, ready |-> FALSE, stale |-> FALSE]

BrainsInit ==
    /\ bodies = [s \in Souls |-> [state |-> "awake", path |-> "still", leg |-> FALSE]]
    /\ sched = [s \in Souls |-> [next |-> "none", gap |-> FALSE]]
    /\ tick = [at |-> "pump", todo |-> {}, soul |-> NoSoul, arrived |-> {}]
    /\ worker = [at |-> "idle", soul |-> NoSoul, job |-> NoJob]
    /\ job = [s \in Souls |-> NoJob]
    /\ busy = {}
    /\ breaker = [state |-> "closed", failures |-> 0, probe |-> FALSE,
                  cooled |-> FALSE]
    /\ episode = [s \in Souls |-> [legs |-> 0, tracked |-> FALSE]]
    /\ past = [recent |-> {}, pruned |-> {}, owed |-> [s \in Souls |-> {}],
               notes |-> 0]

-----------------------------------------------------------------------------
(* The scheduler.                                                          *)
Sooner(n) == IF n = "later" THEN "soon" ELSE n

(* pull_forward: earlier, never later; nothing for a soul without a        *)
(* schedule.                                                               *)
PullForward(sch, s) == [sch EXCEPT ![s].next = Sooner(@)]

(* Mutant: a woken soul is due at once.                                    *)
ResetAtOnce(sch, s) == [sch EXCEPT ![s].next = "due"]

(* reset, on waking: promptly, but not within the minimum gap.             *)
Reset(sch, s) == [sch EXCEPT ![s].next = "soon"]

ScheduleNext(sch, s) == [sch EXCEPT ![s] = [next |-> "later", gap |-> TRUE]]

(* forget: the time of the last think goes with the schedule.              *)
Prune(sch, keep) ==
    [s \in Souls |-> IF s \in keep THEN sch[s]
                     ELSE [next |-> "none", gap |-> FALSE]]

Candidates == {s \in Souls : bodies[s].state = "awake"}
NeedsBoot == \A s \in Souls : sched[s].next = "none"
Due(sch) == {s \in Candidates : sch[s].next \in {"due", "none"}}

(* Time passes.  A think that was pulled forward stays behind the gap.     *)
ComesDue(s) ==
    /\ sched[s].next = "later" \/ sched[s].next = "soon"
    /\ ~sched[s].gap
    /\ sched' = [sched EXCEPT ![s].next = "due"]
    /\ UNCHANGED <<bodies, tick, worker, job, busy, breaker, episode, past>>

GapEnds(s) ==
    /\ s \in past.recent
    /\ sched' = [sched EXCEPT ![s].gap = FALSE]
    /\ past' = [past EXCEPT !.recent = @ \ {s}, !.pruned = @ \ {s}]
    /\ UNCHANGED <<bodies, tick, worker, job, busy, breaker, episode>>

-----------------------------------------------------------------------------
(* The queue of the worker: one job for a soul.                            *)

(* JevEventQueue.note: the kinds add up, the snapshot and the age are those*)
(* of the last event.  A job waits for the floor of its lane or the dwell. *)
Noted(j, kinds) ==
    {[kinds |-> j.kinds \cup kinds, ready |-> r, stale |-> FALSE] :
        r \in IF "continue" \in kinds THEN {FALSE} ELSE BOOLEAN}

Notes(s, kinds) ==
    /\ \E j \in Noted(job[s], kinds) : job' = [job EXCEPT ![s] = j]
    /\ past' = [past EXCEPT !.owed[s] = @ \cup kinds, !.notes = @ + 1]

(* Mutant: the events of a job that goes back are dropped if there are new *)
(* ones.                                                                   *)
RequeuedForgotten(old, current) ==
    IF current = NoJob THEN [old EXCEPT !.ready = FALSE] ELSE current

(* JevEventQueue.requeue                                                   *)
Requeued(old, current) ==
    IF current = NoJob THEN [old EXCEPT !.ready = FALSE]
    ELSE [current EXCEPT !.kinds = @ \cup old.kinds]

JobReady(s) ==
    /\ job[s] # NoJob /\ ~job[s].ready
    /\ job' = [job EXCEPT ![s].ready = TRUE]
    /\ UNCHANGED <<bodies, sched, tick, worker, busy, breaker, episode, past>>

(* SHED_AFTER_S is longer than every floor, dwell and delay.               *)
JobStale(s) ==
    /\ job[s].ready /\ ~job[s].stale
    /\ job' = [job EXCEPT ![s].stale = TRUE]
    /\ UNCHANGED <<bodies, sched, tick, worker, busy, breaker, episode, past>>

(* JevEventQueue.pump                                                      *)
Take(s) ==
    /\ worker.at = "idle"
    /\ job[s].ready
    /\ worker' = [at |-> "holding", soul |-> s, job |-> job[s]]
    /\ job' = [job EXCEPT ![s] = NoJob]
    /\ UNCHANGED <<bodies, sched, tick, busy, breaker, episode, past>>

-----------------------------------------------------------------------------
(* The worker.                                                             *)
WorkerRests == worker' = [at |-> "idle", soul |-> NoSoul, job |-> NoJob]

(* Every way out writes a telemetry row with the kinds of the job.         *)
Reported ==
    past' = [past EXCEPT !.owed[worker.soul] = @ \ (worker.job.kinds \ job[worker.soul].kinds)]

(* A job that waited too long is shed with its snapshot.                   *)
Shed ==
    /\ worker.at = "holding"
    /\ worker.job.stale
    /\ Reported /\ WorkerRests
    /\ UNCHANGED <<bodies, sched, tick, job, busy, breaker, episode>>

(* JevBreaker.admit                                                        *)
Admits ==
    \/ breaker.state = "closed"
    \/ breaker.state = "open" /\ breaker.cooled
    \/ breaker.state = "half_open" /\ ~breaker.probe

Probing ==
    IF breaker.state = "closed" THEN breaker
    ELSE [breaker EXCEPT !.state = "half_open", !.probe = TRUE]

OnSuccess == [state |-> "closed", failures |-> 0, probe |-> FALSE, cooled |-> FALSE]

OnFailure ==
    IF breaker.state = "half_open" \/ breaker.failures + 1 >= Failures
    THEN [state |-> "open", failures |-> Failures, probe |-> FALSE, cooled |-> FALSE]
    ELSE [breaker EXCEPT !.failures = @ + 1]

BreakerCools ==
    /\ breaker.state = "open" /\ ~breaker.cooled
    /\ breaker' = [breaker EXCEPT !.cooled = TRUE]
    /\ UNCHANGED <<bodies, sched, tick, worker, job, busy, episode, past>>

Refused ==
    /\ worker.at = "holding" /\ ~worker.job.stale
    /\ ~Admits
    /\ Reported /\ WorkerRests
    /\ UNCHANGED <<bodies, sched, tick, job, busy, breaker, episode>>

(* Mutant: the worker thinks whoever has the brain.                        *)
FreeOfPoolUnseen(s) == TRUE

(* brain_busy.acquire                                                      *)
FreeOfPool(s) == s \notin busy

(* The breaker has counted its probe when the brain turns out to be busy.  *)
PutBack ==
    /\ worker.at = "holding" /\ ~worker.job.stale
    /\ Admits
    /\ ~FreeOfPool(worker.soul)
    /\ breaker' = Probing
    /\ job' = [job EXCEPT ![worker.soul] = Requeued(worker.job, @)]
    /\ WorkerRests
    /\ UNCHANGED <<bodies, sched, tick, busy, episode, past>>

Admit ==
    /\ worker.at = "holding" /\ ~worker.job.stale
    /\ Admits
    /\ FreeOfPool(worker.soul)
    /\ breaker' = Probing
    /\ busy' = busy \cup {worker.soul}
    /\ worker' = [worker EXCEPT !.at = "thinking"]
    /\ UNCHANGED <<bodies, sched, tick, job, episode, past>>

(* The finally of _process_job.                                            *)
Finished ==
    /\ worker.at = "thinking"
    /\ busy' = busy \ {worker.soul}
    /\ Reported /\ WorkerRests

(* A need or fear, or an exception before the answer: the probe is not     *)
(* settled.                                                                *)
GivesUp ==
    /\ Finished
    /\ episode' = [episode EXCEPT ![worker.soul].legs = 0]
    /\ UNCHANGED <<bodies, sched, tick, job, breaker>>

Raises ==
    /\ Finished
    /\ UNCHANGED <<bodies, sched, tick, job, breaker, episode>>

JudgeFails ==
    /\ Finished
    /\ breaker' = OnFailure
    /\ UNCHANGED <<bodies, sched, tick, job, episode>>

(* An answer, or an old one in place of a failure.                         *)
Judged == breaker' = OnSuccess \/ breaker' = OnFailure

(* An answer is missing or no goal is active.                              *)
NoGoal ==
    /\ Finished /\ Judged
    /\ UNCHANGED <<bodies, sched, tick, job, episode>>

(* validate_and_enqueue: the live row must be awake, nothing else.         *)
Enqueued(s, by) ==
    IF bodies[s].state = "awake"
    THEN [bodies EXCEPT ![s].path = "queued", ![s].leg = by = "jev"]
    ELSE bodies

(* Any goal but explore ends the episode, planned or not.                  *)
OtherGoal ==
    LET s == worker.soul IN
    /\ Finished /\ Judged
    /\ bodies' \in {bodies, Enqueued(s, "other")}
    /\ episode' = [episode EXCEPT ![s].legs = 0]
    /\ UNCHANGED <<sched, tick, job>>

(* arbitrate: explore needs restlessness or an episode to go on.           *)
Explores == /\ worker.at = "thinking"
            /\ worker.job.kinds \cap {"restless", "continue"} # {}

(* _jev_suppressed: in motion as of the snapshot, needy, carried, not awake*)
WanderSuppressed ==
    /\ Explores
    /\ Finished /\ Judged
    /\ episode' = [episode EXCEPT ![worker.soul].legs = 0]
    /\ UNCHANGED <<bodies, sched, tick, job>>

(* The last leg was taken and the soul is not restless.                    *)
EpisodeComplete ==
    /\ Explores
    /\ worker.job.kinds \cap {"restless"} = {}
    /\ episode[worker.soul].legs = 0
    /\ Finished /\ Judged
    /\ UNCHANGED <<bodies, sched, tick, job, episode>>

(* WanderManager.next_leg, of this episode or of a new one.                *)
LegsAfter(s) ==
    {n \in 0..(MaxLegs - 1) :
        \/ n = episode[s].legs - 1
        \/ n > 0 /\ "restless" \in worker.job.kinds}

EmitLeg ==
    LET s == worker.soul IN
    /\ Explores
    /\ Finished /\ Judged
    /\ bodies' = Enqueued(s, "jev")
    /\ \E legs \in LegsAfter(s) :
         episode' = [episode EXCEPT ![s] = [legs |-> legs,
                                            tracked |-> bodies[s].state = "awake"]]
    /\ UNCHANGED <<sched, tick, job>>

Think ==
    \/ GivesUp \/ Raises \/ JudgeFails \/ NoGoal \/ OtherGoal \/ WanderSuppressed
    \/ EpisodeComplete \/ EmitLeg

-----------------------------------------------------------------------------
(* The tick thread: pump and physics.  An intent to move is adjudicated or *)
(* refused, a moving soul may arrive.  Adjudication writes the row,        *)
(* arrival only marks it dirty.                                            *)
PumpIntents ==
    /\ tick.at = "pump"
    /\ \E refused \in SUBSET {s \in Souls : bodies[s].path = "queued"},
          landed \in SUBSET {s \in Souls : bodies[s].path = "moving"} :
         /\ bodies' = [s \in Souls |->
                IF s \in refused \cup landed THEN [bodies[s] EXCEPT !.path = "still"]
                ELSE IF bodies[s].path = "queued" THEN [bodies[s] EXCEPT !.path = "moving"]
                ELSE bodies[s]]
         /\ tick' = [tick EXCEPT !.at = "pool", !.arrived = landed]
    /\ UNCHANGED <<sched, worker, job, busy, breaker, episode, past>>

(* A chirp or a pet, a border of vision, a carry: the worker is told; a    *)
(* chirp, an enter and an order also pull the think forward.               *)
Event(s) ==
    /\ tick.at = "pump"
    /\ past.notes < MaxNotes
    /\ Notes(s, {"event"})
    /\ sched' \in {sched, PullForward(sched, s)}
    /\ UNCHANGED <<bodies, tick, worker, busy, breaker, episode>>

(* EscalationTracker._flag: the think comes earlier.                       *)
Flag(s) ==
    /\ tick.at = "pump"
    /\ sched' = PullForward(sched, s)
    /\ UNCHANGED <<bodies, tick, worker, job, busy, breaker, episode, past>>

(* Collapse or dormancy; recovery or a gift.                               *)
Falls(s) ==
    /\ tick.at = "pump" /\ bodies[s].state = "awake"
    /\ \E state \in {"dormant", "collapsed"} :
         bodies' = [bodies EXCEPT ![s] = [@ EXCEPT !.state = state, !.path = "still"]]
    /\ UNCHANGED <<sched, tick, worker, job, busy, breaker, episode, past>>

Rises(s) ==
    /\ tick.at = "pump" /\ bodies[s].state # "awake"
    /\ bodies' = [bodies EXCEPT ![s].state = "awake"]
    /\ sched' = IF bodies[s].state = "dormant" THEN Reset(sched, s) ELSE sched
    /\ UNCHANGED <<tick, worker, job, busy, breaker, episode, past>>

-----------------------------------------------------------------------------
(* The agent pool.  Schedules are made at boot and dropped for everyone    *)
(* who cannot think when the number of souls has changed.                  *)
Scheduled(changed) ==
    IF NeedsBoot
    THEN {[s \in Souls |-> IF s \in Candidates THEN [sched[s] EXCEPT !.next = n[s]]
                           ELSE sched[s]] : n \in [Souls -> {"later", "soon"}]}
    ELSE IF changed THEN {Prune(sched, Candidates)} ELSE {sched}

SomeDue == \E s \in Souls : sched[s].next = "due"

Atmost(S) ==
    {T \in SUBSET S : Cardinality(T) = IF Cardinality(S) < MaxPerTick
                                       THEN Cardinality(S) ELSE MaxPerTick}

RunAgentPool ==
    /\ tick.at = "pool" /\ tick.todo = {}
    /\ \/ /\ ~NeedsBoot /\ ~SomeDue
          /\ tick' = [tick EXCEPT !.at = "sweep"]
          /\ UNCHANGED <<sched, past>>
       \/ \E changed \in BOOLEAN : \E sch \in Scheduled(changed) :
          /\ NeedsBoot \/ changed \/ SomeDue
          /\ sched' = sch
          /\ past' = [past EXCEPT !.pruned =
                 IF changed /\ ~NeedsBoot
                 THEN @ \cup (past.recent \ Candidates) ELSE @]
          /\ \E chosen \in Atmost(Due(sch)) :
               tick' = [tick EXCEPT !.at = IF chosen = {} THEN "sweep" ELSE "pool",
                                    !.todo = chosen]
    /\ UNCHANGED <<bodies, worker, job, busy, breaker, episode>>

Left(s) == [tick EXCEPT !.at = IF tick.todo = {s} THEN "sweep" ELSE "pool",
                        !.todo = @ \ {s}, !.soul = NoSoul]

(* The worker has the brain: the soul stays due.                           *)
PoolBusy(s) ==
    /\ tick.at = "pool" /\ s \in tick.todo
    /\ s \in busy
    /\ tick' = Left(s)
    /\ UNCHANGED <<bodies, sched, worker, job, busy, breaker, episode, past>>

(* think, deliberate                                                       *)
PoolBegin(s) ==
    /\ tick.at = "pool" /\ s \in tick.todo
    /\ s \notin busy
    /\ busy' = busy \cup {s}
    /\ tick' = [tick EXCEPT !.at = "thinking", !.soul = s]
    /\ UNCHANGED <<bodies, sched, worker, job, breaker, episode, past>>

PoolEnds ==
    /\ tick.at = "thinking"
    /\ busy' = busy \ {tick.soul}
    /\ tick' = Left(tick.soul)

(* What the think notices by itself: a changed wallet, need or presence.   *)
(* The soul emits nothing, an action or a move.                            *)
Thinks(s, kinds) ==
    /\ PoolEnds
    /\ bodies' \in {bodies, Enqueued(s, "pool")}
    /\ sched' = ScheduleNext(sched, s)
    /\ IF kinds = {} \/ past.notes = MaxNotes
       THEN UNCHANGED job /\ past' = [past EXCEPT !.recent = @ \cup {s}]
       ELSE /\ \E j \in Noted(job[s], kinds) : job' = [job EXCEPT ![s] = j]
            /\ past' = [past EXCEPT !.recent = @ \cup {s}, !.notes = @ + 1,
                                    !.owed[s] = @ \cup kinds]
    /\ UNCHANGED <<worker, breaker, episode>>

(* A soul that is escalated, or idle long enough, deliberates: the model   *)
(* answers with intents, or the reflex runs in its place, under the same   *)
(* brain.                                                                  *)
PoolThink == \E kinds \in {{}, {"event"}} : Thinks(tick.soul, kinds)

(* An exception in the think: the soul stays due.                          *)
PoolFails ==
    /\ PoolEnds
    /\ UNCHANGED <<bodies, sched, worker, job, breaker, episode, past>>

-----------------------------------------------------------------------------
(* The baseline wander.                                                    *)
JevWandering(s) == episode[s].legs > 0 \/ episode[s].tracked

Idle(s) ==
    /\ bodies[s].state = "awake" /\ bodies[s].path # "moving"
    /\ ~JevWandering(s)

Stroll(s) ==
    /\ tick.at = "sweep"
    /\ Idle(s)
    /\ bodies' = Enqueued(s, "sweep")
    /\ UNCHANGED <<sched, tick, worker, job, busy, breaker, episode, past>>

(* _jev_movement_completed.  The leg is over if the soul stands where the  *)
(* tracked intent sent it.                                                 *)
LegComplete(s) == episode[s].tracked /\ bodies[s].leg

Arrived(s) ==
    /\ tick.at = "sweep" /\ s \in tick.arrived
    /\ tick' = [tick EXCEPT !.arrived = @ \ {s}]
    /\ IF past.notes < MaxNotes
       THEN Notes(s, {"event"} \cup (IF LegComplete(s) THEN {"continue"} ELSE {}))
       ELSE UNCHANGED <<job, past>>
    /\ episode' = [episode EXCEPT ![s].tracked = @ /\ ~LegComplete(s)]
    /\ UNCHANGED <<bodies, sched, worker, busy, breaker>>

(* RESTLESS_AFTER_S without an event is longer than a job can be queued.   *)
Restless(s) ==
    /\ tick.at = "sweep" /\ tick.arrived = {}
    /\ bodies[s].state = "awake"
    /\ job[s] = NoJob /\ worker.soul # s
    /\ \E j \in Noted(NoJob, {"restless"}) : job' = [job EXCEPT ![s] = j]
    /\ past' = [past EXCEPT !.owed[s] = @ \cup {"restless"}]
    /\ UNCHANGED <<bodies, sched, tick, worker, busy, breaker, episode>>

TickEnds ==
    /\ tick.at = "sweep" /\ tick.arrived = {}
    /\ tick' = [tick EXCEPT !.at = "pump"]
    /\ UNCHANGED <<bodies, sched, worker, job, busy, breaker, episode, past>>

-----------------------------------------------------------------------------
TickStep ==
    \/ PumpIntents \/ RunAgentPool \/ PoolThink \/ PoolFails \/ TickEnds
    \/ \E s \in Souls : PoolBusy(s) \/ PoolBegin(s) \/ Arrived(s)

WorkerStep ==
    \/ \E s \in Souls : Take(s)
    \/ Shed \/ Refused \/ PutBack \/ Admit \/ Think

World(s) == Event(s) \/ Flag(s) \/ Falls(s) \/ Rises(s) \/ Restless(s) \/ Stroll(s)

Timers(s) == ComesDue(s) \/ GapEnds(s) \/ JobReady(s) \/ JobStale(s)

BrainsNext ==
    \/ TickStep \/ WorkerStep \/ BreakerCools
    \/ \E s \in Souls : World(s) \/ Timers(s)

BrainsSpec == BrainsInit /\ [][BrainsNext]_brainVars

(* The tick loop and the worker's loop run, and time passes.               *)
BrainsFairness ==
    /\ WF_brainVars(TickStep) /\ WF_brainVars(WorkerStep)
    /\ WF_brainVars(BreakerCools)
    /\ \A s \in Souls :
         /\ WF_brainVars(JobReady(s)) /\ SF_brainVars(JobStale(s))
         /\ WF_brainVars(ComesDue(s)) /\ WF_brainVars(GapEnds(s))

BrainsFairSpec == BrainsSpec /\ BrainsFairness
-----------------------------------------------------------------------------
BrainsTypeOK ==
    /\ bodies \in [Souls -> [state : {"awake", "dormant", "collapsed"},
                           path : {"still", "queued", "moving"}, leg : BOOLEAN]]
    /\ sched \in [Souls -> [next : {"none", "later", "soon", "due"}, gap : BOOLEAN]]
    /\ busy \subseteq Souls
    /\ tick.at \in {"pump", "pool", "thinking", "sweep"} /\ tick.todo \subseteq Souls
    /\ tick.arrived \subseteq Souls /\ tick.soul \in Souls \cup {NoSoul}
    /\ worker.at \in {"idle", "holding", "thinking"}
    /\ worker.soul \in Souls \cup {NoSoul}
    /\ \A s \in Souls : job[s].kinds \subseteq Kinds
    /\ breaker \in [state : {"closed", "open", "half_open"}, failures : 0..Failures,
                    probe : BOOLEAN, cooled : BOOLEAN]
    /\ episode \in [Souls -> [legs : 0..(MaxLegs - 1), tracked : BOOLEAN]]

PoolThinks == IF tick.at = "thinking" THEN {tick.soul} ELSE {}
WorkerThinks == IF worker.at = "thinking" THEN {worker.soul} ELSE {}

(* brain_busy.py: the pool and the worker never think about the same soul  *)
(* at a time, and a brain is free again after every way out of a think.    *)
OneBrain ==
    /\ PoolThinks \cap WorkerThinks = {}
    /\ busy = PoolThinks \cup WorkerThinks

(* scheduler.py:7: no soul thinks twice within the minimum gap, waking,    *)
(* events and failures included; only a soul whose schedule was pruned     *)
(* while it could not think may.                                           *)
PacedThinks ==
    [][\A s \in Souls :
         tick.at # "thinking" /\ tick'.at = "thinking" /\ tick'.soul = s
         => s \notin past.recent \/ s \in past.pruned]_brainVars

(* Every event the worker is told of is thought about or reported as shed  *)
(* or refused in the end, also if it came while the worker or the pool had *)
(* the soul's brain (jev_queue.py: note, pump, requeue).                   *)
EventsAnswered ==
    \A s \in Souls, k \in Kinds :
        (k \in past.owed[s]) ~> (k \notin past.owed[s])
=============================================================================
