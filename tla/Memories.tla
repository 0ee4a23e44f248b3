------------------------------ MODULE Memories ------------------------------
(***************************************************************************)
(* The durable memory of one soul (server/agents/memory.py): episodes are  *)
(* logged, the nightly summarizer folds the dull ones into weekly digests  *)
(* and prunes what it has folded, the salient ones live on in the semantic *)
(* store, and a restart wakes the soul with what is left.                  *)
(*                                                                         *)
(* A unit of time is a day.  An episode is its identity, the day it was    *)
(* logged and whether its salience reaches HIGH_SALIENCE.                  *)
(***************************************************************************)
EXTENDS Integers, FiniteSets

CONSTANTS
    FoldAge,       \* SUMMARIZE_MIN_AGE_S
    RawRetention,  \* EPISODE_RAW_RETENTION_S
    WeekDays,      \* days of a digest's week
    LastDay,       \* bound: the calendar ends
    MaxCrashes     \* bound: crashes of the process

ASSUME MemoryConstants ==
    /\ FoldAge \in Nat \ {0} /\ RawRetention \in Nat \ {0}
    /\ WeekDays \in Nat \ {0} /\ LastDay \in Nat /\ MaxCrashes \in Nat

VARIABLES
    day,       \* time.time()
    crashes,
    episodes,  \* table episodes: [id, at, high, summarized]
    digests,   \* weekly_digests: week -> how often it tells of each episode
    semantic,  \* ids of the semantic_memories with an episode
    lastRun,   \* globals memory_last_summarize_at, or -1
    stamp,     \* day of the run whose stamp is not written yet, or -1
    woken,     \* pop_wake has delivered the wake block in this process
    logged     \* history: every episode ever logged, as [id, at, high]

clock == <<day, crashes>>
memoryVars == <<episodes, digests, semantic, lastRun, stamp, woken, logged>>

Weeks == 0..(LastDay \div WeekDays)
WeekOf(d) == d \div WeekDays
Never == -1

MemoryInit ==
    /\ day = 0 /\ crashes = 0
    /\ episodes = {} /\ logged = {}
    /\ digests = [w \in Weeks |-> {}]
    /\ semantic = {}
    /\ lastRun = Never /\ stamp = Never
    /\ woken = FALSE

(* _insert_episode: a salient episode is written to the semantic store in  *)
(* the same transaction, so that it can be recalled before any night.      *)
InsertEpisodes(news) ==
    /\ episodes' = episodes \cup
         {[id |-> e.id, at |-> day, high |-> e.high, summarized |-> FALSE] : e \in news}
    /\ semantic' = semantic \cup {e.id : e \in {n \in news : n.high}}
    /\ logged' = logged \cup {[id |-> e.id, at |-> day, high |-> e.high] : e \in news}

LogEpisode(id, high) ==
    /\ InsertEpisodes({[id |-> id, high |-> high]})
    /\ UNCHANGED <<digests, lastRun, stamp, woken>>

(* log_episode of another soul, or of a caller that fails before it.       *)
LogNothing == UNCHANGED memoryVars

-----------------------------------------------------------------------------
(* Episodes the summarizer takes: unsummarized, older than the minimum age *)
Due == {e \in episodes : ~e.summarized /\ e.at < day - FoldAge}

(* _fold_soul: each week's digest tells of the dull rows of its week; a    *)
(* row told twice is told as the pair of its id and a count.               *)
Told(d, ids) == {<<i, Cardinality({n \in 1..2 : <<i, n>> \in d}) + 1>> : i \in ids}

FoldSoul(rows) ==
    LET low == {e \in rows : ~e.high}
    IN  /\ digests' = [w \in Weeks |->
              digests[w] \cup
                Told(digests[w], {e.id : e \in {l \in low : WeekOf(l.at) = w}})]
        /\ semantic' = semantic \cup {e.id : e \in rows \ low}

(* Mutant: only the rows kept verbatim are marked.                         *)
SummarizedKept(rows) ==
    {IF e \in rows /\ e.high THEN [e EXCEPT !.summarized = TRUE] ELSE e : e \in episodes}

Summarized(rows) ==
    {IF e \in rows THEN [e EXCEPT !.summarized = TRUE] ELSE e : e \in episodes}

(* The last statement of the run: rows past the raw retention go, if they  *)
(* have been folded.                                                       *)
Pruned(rows) == {e \in rows : ~(e.summarized /\ e.at < day - RawRetention)}

(* run_summarizer: one transaction.                                        *)
RunSummarizer ==
    /\ FoldSoul(Due)
    /\ episodes' = Pruned(Summarized(Due))

(* tick_maintenance, at the start of a step and at boot: once a day, as    *)
(* the stamp of the last run has it.  The stamp is a second transaction.   *)
MaintenanceDue == lastRun = Never \/ day - lastRun >= FoldAge

TickMaintenance ==
    /\ RunSummarizer
    /\ stamp' = day
    /\ UNCHANGED <<lastRun, woken, logged>>

StampRun ==
    /\ stamp # Never
    /\ lastRun' = stamp
    /\ stamp' = Never
    /\ UNCHANGED <<episodes, digests, semantic, woken, logged>>

(* wake_context reads the latest digest and the raw salient episodes.      *)
WakeBlock ==
    {e.id : e \in {f \in episodes : f.high}}
    \cup {told[1] : told \in UNION {digests[w] : w \in Weeks}}

(* pop_wake, from the first prompt of the process: the restoration is      *)
(* itself a dull episode, and nothing when there is nothing to restore.    *)
PopWake ==
    IF woken \/ WakeBlock = {} THEN {}
    ELSE {[id |-> <<"wake", crashes>>, high |-> FALSE]}

(* A deliberation: its prompt restores what a restart left, and its        *)
(* rationale is a salient episode.                                         *)
LogThought(id) ==
    /\ woken' = TRUE
    /\ InsertEpisodes(PopWake \cup {[id |-> id, high |-> TRUE]})
    /\ UNCHANGED <<digests, lastRun, stamp>>

(* The process dies: what is durable stays.                                *)
ForgetVolatile ==
    /\ stamp' = Never /\ woken' = FALSE
    /\ UNCHANGED <<episodes, digests, semantic, lastRun, logged>>

-----------------------------------------------------------------------------
(* memory.py:12-17, 430-436: nothing a soul has lived through is forgotten *)
(* before it has been folded, and nothing is folded twice, by a night that *)
(* is repeated after a crash or by one that comes days late: a dull        *)
(* episode is either raw and unfolded or in the digest of its own week     *)
(* once, and a salient one is in the store that recall reads.              *)
Remembered ==
    \A e \in logged :
        IF e.high THEN e.id \in semantic
        ELSE \/ /\ \E r \in episodes : r.id = e.id /\ ~r.summarized
                /\ \A w \in Weeks : <<e.id, 1>> \notin digests[w]
             \/ /\ \A r \in episodes : r.id = e.id => r.summarized
                /\ \A w \in Weeks : <<e.id, 1>> \in digests[w] <=> w = WeekOf(e.at)
                /\ \A w \in Weeks : <<e.id, 2>> \notin digests[w]
=============================================================================
