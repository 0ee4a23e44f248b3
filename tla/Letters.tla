------------------------------- MODULE Letters ------------------------------
(***************************************************************************)
(* The questions of one soul and what its tamer hears of them: the mailbag *)
(* (server/mailbag.py), the overnight recap and its morning note           *)
(* (server/recap.py), the retention compaction of the journal and the      *)
(* memories that answers and silence leave (Memories).                     *)
(*                                                                         *)
(* The tick loop runs the sweeps and the unlocks one after another; asks   *)
(* and answers come from other threads between any two transactions.       *)
(***************************************************************************)
EXTENDS Memories

CONSTANTS
    Questions,      \* question ids
    NoQuestion,
    MaxPending,     \* MAILBAG_MAX_PENDING
    Ttl,            \* MAILBAG_TTL_S
    MinAge,         \* RECAP_MIN_AGE_S
    DefaultWindow,  \* RECAP_DEFAULT_WINDOW_S
    MaxLines,       \* RECAP_MAX_LINES
    Retention,      \* RETENTION_S
    SnapshotKeep,   \* SNAPSHOT_KEEP
    Nudge, Decay,   \* ANSWER_LOYALTY_NUDGE, IGNORE_LOYALTY_DECAY
    MaxLoyalty,     \* 1.0, in units of the decay
    MaxUnlocks,     \* bound: unlocks of the tamer
    LastAsk         \* bound: no question is asked after that day

ASSUME LetterConstants ==
    /\ NoQuestion \notin Questions
    /\ MaxPending \in Nat \ {0} /\ Ttl \in Nat \ {0} /\ MinAge \in Nat \ {0}
    /\ DefaultWindow \in Nat \ {0} /\ MaxLines \in Nat /\ Retention \in Nat \ {0}
    /\ SnapshotKeep \in Nat \ {0} /\ MaxLoyalty \in Nat
    /\ Nudge \in Nat /\ Decay \in Nat /\ MaxUnlocks \in Nat /\ LastAsk \in Nat

(* recap.py:83, 95: 22 hours and 30 days; the last recap is kept until the *)
(* next one is due.                                                        *)
ASSUME RecapsOutlast == MinAge <= Retention

VARIABLES
    box,       \* table mailbag: [status, asked]
    delivery,  \* what follows the commit: "memory", "sensation", "attention"
    loyalty,   \* souls.loyalty
    journal,   \* table journal: [seq, kind, at, ref]
    head,      \* largest seq ever given
    snaps,     \* journal_seq of the retained snapshots
    sources,   \* table recap_sources: [kind, ref, at]
    recaps,    \* table recaps: [at, lines, shown]
    stage,     \* where the tick is in the cadences of the day
    unlocks,   \* how often the tamer has unlocked
    heard      \* history: [told, open, close]

letterVars == <<clock, memoryVars, box, delivery, loyalty, journal, head, snaps,
                sources, recaps, stage, unlocks, heard>>
records == <<journal, head, snaps>>
night == <<sources, recaps, heard, unlocks>>

Bounded(x, lo, hi) == IF x < lo THEN lo ELSE IF x > hi THEN hi ELSE x
Newest(S) == CHOOSE x \in S : \A y \in S : y <= x
Oldest(S) == CHOOSE x \in S : \A y \in S : x <= y

(* append_event, for one kind after another.                               *)
AppendEvent(kinds, ref) ==
    /\ journal' = journal \cup
         {[seq |-> head + i, kind |-> kinds[i], at |-> day, ref |-> ref]
            : i \in DOMAIN kinds}
    /\ head' = head + Cardinality(DOMAIN kinds)
    /\ UNCHANGED snaps

LettersInit ==
    /\ MemoryInit
    /\ box = [q \in Questions |-> [status |-> "none", asked |-> 0]]
    /\ delivery = [q \in Questions |-> "none"]
    /\ loyalty = MaxLoyalty - 1
    /\ journal = {} /\ head = 0 /\ snaps = {}
    /\ sources = {} /\ recaps = {}
    /\ stage = "open" /\ unlocks = 0
    /\ heard = [told |-> [q \in Questions |-> 0], open |-> Never, close |-> Never]

-----------------------------------------------------------------------------
(* The mailbag                                                             *)

Pending == {q \in Questions : box[q].status = "pending"}

(* AgentPool.deliberate logs its thought as a salient episode, then        *)
(* ask_question.                                                           *)
Capped == Cardinality(Pending) >= MaxPending

AskQuestion(q) ==
    /\ stage # "down" /\ day <= LastAsk /\ box[q].status = "none" /\ ~Capped
    /\ box' = [box EXCEPT ![q] = [status |-> "pending", asked |-> day]]
    /\ AppendEvent(<<"asked">>, q)
    /\ LogThought(<<"thought", q>>)
    /\ UNCHANGED <<clock, delivery, loyalty, night, stage>>

(* A question over the cap leaves a journal row and no question; bound:    *)
(* one of them.                                                            *)
DropQuestion ==
    /\ stage # "down" /\ Capped
    /\ \A r \in journal : r.kind \notin {"cap_dropped", "rollup"}
    /\ AppendEvent(<<"cap_dropped">>, NoQuestion)
    /\ LogThought(<<"thought", NoQuestion>>)
    /\ UNCHANGED <<clock, box, delivery, loyalty, night, stage>>

(* answer_question up to its commit.  An answer that comes after the 48    *)
(* hours but before the sweep counts.                                      *)
AnswerQuestion(q) ==
    /\ box[q].status = "pending"
    /\ box' = [box EXCEPT ![q].status = "answered"]
    /\ loyalty' = Bounded(loyalty + Nudge, 0, MaxLoyalty)
    /\ AppendEvent(<<"loyalty", "answered">>, q)
    /\ delivery' = [delivery EXCEPT ![q] = "memory"]
    /\ LogNothing
    /\ UNCHANGED <<clock, night, stage>>

(* POST /mailbag/{id}/answer: of a question that exists, if the simulation *)
(* can be reached.                                                         *)
AnswerMailbag(q) ==
    /\ stage # "down" /\ box[q].status # "none"
    /\ AnswerQuestion(q)

(* What follows the commit of an answer, in transactions of their own: the *)
(* memory, the journaled sensation, the earlier think.                     *)
DeliverMemory(q) ==
    /\ box[q].status = "answered" /\ delivery[q] = "memory"
    /\ LogEpisode(<<"answered", q>>, TRUE)
    /\ delivery' = [delivery EXCEPT ![q] = "sensation"]
    /\ UNCHANGED <<clock, box, loyalty, records, night, stage>>

DeliverSensation(q) ==
    /\ delivery[q] = "sensation"
    /\ AppendEvent(<<"sensation">>, q)
    /\ delivery' = [delivery EXCEPT ![q] = "attention"]
    /\ LogNothing
    /\ UNCHANGED <<clock, box, loyalty, night, stage>>

NoteAttention(q) ==
    /\ delivery[q] = "attention"
    /\ delivery' = [delivery EXCEPT ![q] = "felt"]
    /\ LogNothing
    /\ UNCHANGED <<clock, box, loyalty, records, night, stage>>

(* sweep_expired up to its commit: one transaction for all of them.        *)
Overdue == {q \in Pending : box[q].asked + Ttl <= day}

(* Mutant: what follows the commit is forgotten.                           *)
FadesUnnoticed(q) == delivery[q]
Fades(q) == IF q \in Overdue THEN "memory" ELSE delivery[q]

SweepExpired ==
    /\ stage = "sweep"
    /\ box' = [q \in Questions |->
                 IF q \in Overdue THEN [box[q] EXCEPT !.status = "expired"] ELSE box[q]]
    /\ loyalty' = Bounded(loyalty - Decay * Cardinality(Overdue), 0, MaxLoyalty)
    /\ sources' = sources \cup {[kind |-> "unanswered", ref |-> q, at |-> day] : q \in Overdue}
    /\ \E order \in [1..Cardinality(Overdue) -> Overdue] :
         /\ Overdue \subseteq {order[i] : i \in DOMAIN order}
         /\ journal' = journal \cup
              UNION {{[seq |-> head + 2 * i - 1, kind |-> "loyalty", at |-> day, ref |-> order[i]],
                      [seq |-> head + 2 * i, kind |-> "expired", at |-> day, ref |-> order[i]]}
                       : i \in DOMAIN order}
    /\ head' = head + 2 * Cardinality(Overdue)
    /\ delivery' = [q \in Questions |-> Fades(q)]
    /\ stage' = "ignored"
    /\ LogNothing
    /\ UNCHANGED <<clock, snaps, recaps, heard, unlocks>>

(* Its episodes follow the commit, one by one, before the tick goes on.    *)
Ignored == {q \in Questions : box[q].status = "expired" /\ delivery[q] = "memory"}

LogIgnored(q) ==
    /\ stage = "ignored" /\ q \in Ignored
    /\ LogEpisode(<<"ignored", q>>, FALSE)
    /\ delivery' = [delivery EXCEPT ![q] = "felt"]
    /\ UNCHANGED <<clock, box, loyalty, records, night, stage>>

-----------------------------------------------------------------------------
(* The recap                                                               *)

(* _candidate_sort_key: KIND_PRIORITY and SALIENCE_DEFAULTS in one rank,   *)
(* then the newest.  The rows of one kind compare by age.                  *)
Rank == [loyalty |-> 9, unanswered |-> 8, answered |-> 7, expired |-> 6, asked |-> 5,
         recap |-> 4, rollup |-> 3, sensation |-> 2, cap_dropped |-> 1]

Candidate(r) == [rank |-> Rank[r.kind], kind |-> r.kind, ref |-> r.ref, at |-> r.at]

Before(c, d) ==
    \/ c.rank > d.rank
    \/ c.rank = d.rank /\ c.at > d.at

(* _iter_soul_journal and _iter_soul_sources: half-open windows.  Rollups  *)
(* of the journal do not name the soul.                                    *)
JournalIn(from, to) ==
    {r \in journal : from <= r.at /\ r.at < to /\ r.kind # "rollup"}
SourcesIn(from, to) == {s \in sources : from <= s.at /\ s.at < to}

(* _select_lines                                                           *)
SelectLines(candidates) ==
    {c \in candidates : Cardinality({d \in candidates : Before(d, c)}) < MaxLines}

(* _last_recap and the window of maybe_generate_recap.                     *)
LastRecap == IF recaps = {} THEN Never ELSE Newest({r.at : r \in recaps})

(* Mutant: the window is always the trailing day.                          *)
WindowTrailing == day - DefaultWindow

WindowStart == IF LastRecap = Never THEN day - DefaultWindow ELSE LastRecap

RecapDue == LastRecap = Never \/ day - LastRecap >= MinAge

(* maybe_generate_recap: a sweep leaves a quiet night alone, an unlock     *)
(* does not.                                                               *)
MaybeGenerateRecap(allowQuiet) ==
    LET rows == JournalIn(WindowStart, day)
        told == SourcesIn(WindowStart, day)
    IN  IF RecapDue /\ (allowQuiet \/ rows # {} \/ told # {})
        THEN /\ recaps' = recaps \cup
                  {[at |-> day, shown |-> FALSE,
                    lines |-> SelectLines({Candidate(r) : r \in rows \cup told})]}
             /\ AppendEvent(<<"recap">>, NoQuestion)
             /\ heard' = [heard EXCEPT
                  !.told = [q \in Questions |->
                     heard.told[q] + Cardinality({s \in told : s.ref = q})],
                  !.open = IF heard.open = Never THEN WindowStart ELSE heard.open,
                  !.close = day]
             /\ UNCHANGED sources
        ELSE UNCHANGED <<records, sources, recaps, heard>>

SweepRecaps ==
    /\ stage = "ignored" /\ Ignored = {}
    /\ MaybeGenerateRecap(FALSE)
    /\ UNCHANGED unlocks
    /\ stage' = "compact"
    /\ LogNothing
    /\ UNCHANGED <<clock, box, delivery, loyalty>>

(* on_unlock, from the presence intent the pump adjudicates: the recap is  *)
(* committed before the note is composed.                                  *)
OnUnlock ==
    /\ stage \in {"sweep", "open"} /\ unlocks < MaxUnlocks
    /\ unlocks' = unlocks + 1
    /\ MaybeGenerateRecap(TRUE)
    /\ stage' = IF stage = "sweep" THEN "early note" ELSE "note"
    /\ LogNothing
    /\ UNCHANGED <<clock, box, delivery, loyalty>>

(* fresh_recap: the newest that has not been shown.                        *)
Unshown == {r \in recaps : ~r.shown}
FreshRecap == CHOOSE r \in Unshown : \A s \in Unshown : s.at <= r.at

(* maybe_morning_note: the bubble leaves inside the transaction; if that   *)
(* is rolled back, the recap stays fresh.                                  *)
MaybeMorningNote ==
    /\ stage \in {"early note", "note"}
    /\ stage' = IF stage = "early note" THEN "sweep" ELSE "open"
    /\ IF Unshown = {} THEN UNCHANGED recaps
       ELSE recaps' = (recaps \ {FreshRecap}) \cup {[FreshRecap EXCEPT !.shown = TRUE]}
    /\ LogNothing
    /\ UNCHANGED <<clock, box, delivery, loyalty, records, sources, unlocks, heard>>

-----------------------------------------------------------------------------
(* Retention                                                               *)

Cutoff == day - Retention

(* Mutant: only the newest snapshot is thought of.                         *)
FloorOfNewest == IF snaps = {} THEN head + 1 ELSE Newest(snaps)

(* _snapshot_floor: the lowest journal_seq a retained snapshot needs.      *)
SnapshotFloor == IF snaps = {} THEN head + 1 ELSE Oldest(snaps)

(* SALIENCE_DEFAULTS below SALIENCE_KEEP.                                  *)
Dull == {"asked", "expired", "cap_dropped", "sensation"}

(* compact_journal: the dull rows below the floor become one row a day.    *)
Rolled == {r \in journal : r.at < Cutoff /\ r.seq < SnapshotFloor /\ r.kind \in Dull}
RolledDays == {r.at : r \in Rolled}

CompactJournal ==
    /\ journal' = (journal \ Rolled) \cup
         {[seq |-> head + Cardinality({e \in RolledDays : e <= d}),
           kind |-> "rollup", at |-> day, ref |-> NoQuestion] : d \in RolledDays}
    /\ head' = head + Cardinality(RolledDays)
    /\ UNCHANGED snaps

(* compact_sources: old rows of a day become one rollup of today.          *)
OldSources == {s \in sources : s.at < Cutoff}

CompactSources ==
    sources' = (sources \ OldSources) \cup
        (IF OldSources = {} THEN {}
         ELSE {[kind |-> "rollup", ref |-> NoQuestion, at |-> day]})

CompactRetention ==
    /\ stage = "compact"
    /\ CompactJournal
    /\ CompactSources
    /\ recaps' = {r \in recaps : r.at >= Cutoff}
    /\ stage' = "snapshot"
    /\ LogNothing
    /\ UNCHANGED <<clock, box, delivery, loyalty, heard, unlocks>>

(* take_snapshot and prune_snapshots.                                      *)
TakeSnapshot ==
    /\ stage = "snapshot"
    /\ LET all == snaps \cup {head}
       IN  snaps' = {s \in all : Cardinality({t \in all : t > s}) < SnapshotKeep}
    /\ stage' = "open"
    /\ LogNothing
    /\ UNCHANGED <<clock, box, delivery, loyalty, journal, head, night>>

-----------------------------------------------------------------------------
(* The cadences of a day, in the order of WorldTick.step.  A sweep that    *)
(* comes round again on the same day finds nothing to do.                  *)
Maintain ==
    /\ stage = "night"
    /\ IF MaintenanceDue THEN TickMaintenance /\ stage' = "stamp"
       ELSE LogNothing /\ stage' = "sweep"
    /\ UNCHANGED <<clock, box, delivery, loyalty, records, night>>

Stamp ==
    /\ stage = "stamp"
    /\ StampRun
    /\ stage' = "sweep"
    /\ UNCHANGED <<clock, box, delivery, loyalty, records, night>>

(* The process dies between any two transactions; what was to follow a     *)
(* commit does not follow any more.                                        *)
Crash ==
    /\ stage # "down" /\ crashes < MaxCrashes
    /\ crashes' = crashes + 1
    /\ ForgetVolatile
    /\ delivery' = [q \in Questions |->
         IF delivery[q] \in {"none", "felt"} THEN delivery[q] ELSE "lost"]
    /\ stage' = "down"
    /\ UNCHANGED <<day, box, loyalty, records, night>>

Boot ==
    /\ stage = "down"
    /\ stage' = "night"
    /\ LogNothing
    /\ UNCHANGED <<clock, box, delivery, loyalty, records, night>>

NextDay ==
    /\ stage \in {"open", "down"}
    /\ day < LastDay
    /\ day' = day + 1
    /\ stage' = IF stage = "open" THEN "night" ELSE "down"
    /\ LogNothing
    /\ UNCHANGED <<crashes, box, delivery, loyalty, records, night>>

Deliver(q) == DeliverMemory(q) \/ DeliverSensation(q) \/ NoteAttention(q) \/ LogIgnored(q)
TickGoesOn ==
    \/ Maintain \/ Stamp \/ SweepExpired \/ SweepRecaps
    \/ CompactRetention \/ TakeSnapshot \/ MaybeMorningNote

LettersNext ==
    \/ DropQuestion
    \/ \E q \in Questions : AskQuestion(q) \/ AnswerMailbag(q) \/ Deliver(q)
    \/ TickGoesOn \/ OnUnlock \/ Crash \/ Boot \/ NextDay

LettersSpec == LettersInit /\ [][LettersNext]_letterVars

(* The tick loop goes on, the days pass and the hub is started again; an   *)
(* unlock does not keep the loop from its sweeps.                          *)
LettersFairSpec ==
    /\ LettersSpec
    /\ WF_letterVars(NextDay) /\ WF_letterVars(Boot)
    /\ SF_letterVars(TickGoesOn)
    /\ \A q \in Questions : WF_letterVars(Deliver(q))
-----------------------------------------------------------------------------
LettersTypeOK ==
    /\ day \in 0..LastDay /\ crashes \in 0..MaxCrashes
    /\ box \in [Questions -> [status : {"none", "pending", "answered", "expired"},
                              asked : 0..LastDay]]
    /\ delivery \in [Questions -> {"none", "memory", "sensation", "attention", "felt", "lost"}]
    /\ loyalty \in 0..MaxLoyalty
    /\ \A r \in journal : r.seq \in 1..head /\ r.kind \in DOMAIN Rank /\ r.at \in 0..day
    /\ snaps \subseteq 0..head
    /\ \A r \in recaps : Cardinality(r.lines) <= MaxLines + 1

(* recap.py:25, mailbag.py:52: the windows of the recaps tile the time     *)
(* from the first one's on, so that a question that faded is reported by   *)
(* one recap and no more, late recaps, unlocks and compaction included.    *)
ToldOnce ==
    \A q \in Questions :
        /\ heard.told[q] <= 1
        /\ \A s \in sources :
             s.ref = q /\ heard.open <= s.at /\ s.at < heard.close => heard.told[q] = 1

(* recap.py:58-60: compaction leaves a tail without gaps behind every      *)
(* retained snapshot (persistence.journal_continuous).                     *)
TailIsGapless ==
    \A s \in snaps : {r.seq : r \in {j \in journal : j.seq > s}} = (s + 1)..head

(* mailbag.py:43-50: a question the soul has asked is not left pending:    *)
(* its answer reaches the soul, or it fades and the soul knows, unless the *)
(* process died right after the commit.                                    *)
LettersSettle ==
    \A q \in Questions :
        (box[q].status = "pending" /\ box[q].asked + Ttl <= LastDay)
        ~> delivery[q] \in {"felt", "lost"}

=============================================================================
