---------------------------- MODULE OwnerProofs -----------------------------
(***************************************************************************)
(* Proofs about what reaches an owner, for any bounds: a soul's memory     *)
(* (Memories), its letters (Letters) and the viewport stream (Viewport).   *)
(*                                                                         *)
(* The nightly summarizer forgets nothing and repeats nothing, retention   *)
(* leaves every retained snapshot its tail of the journal, and the windows *)
(* of the recaps tile the nights.  A bubble is shown once, on the          *)
(* connection it was posted to, and a resume delivers what the ring holds, *)
(* each frame once.                                                        *)
(***************************************************************************)
EXTENDS Letters, Viewport, SumTheorems, SequenceTheorems

-----------------------------------------------------------------------------
(* The episodes of a soul by their ids: the salient ones are thoughts and  *)
(* answers, the dull ones are wakes, by the life of the process, and the   *)
(* questions that faded.                                                   *)
SalientIds == {"thought", "answered"} \X (Questions \cup {NoQuestion})
WakeIds == {"wake"} \X Nat
IgnoredIds == {"ignored"} \X Questions
EpisodeIds == SalientIds \cup WakeIds \cup IgnoredIds

RowType == [id : EpisodeIds, at : Nat, high : BOOLEAN, summarized : BOOLEAN]
LogType == [id : EpisodeIds, at : Nat, high : BOOLEAN]

Raw(e) ==
    /\ \E r \in episodes : r.id = e.id /\ ~r.summarized
    /\ \A w \in Weeks : <<e.id, 1>> \notin digests[w] /\ <<e.id, 2>> \notin digests[w]

Folded(e) ==
    /\ \A r \in episodes : r.id = e.id => r.summarized
    /\ \A w \in Weeks : <<e.id, 1>> \in digests[w] <=> w = WeekOf(e.at)
    /\ \A w \in Weeks : <<e.id, 2>> \notin digests[w]

(* The tables of the memory agree with each other, and no dull episode has *)
(* an id twice.                                                            *)
MemoryInv ==
    /\ episodes \subseteq RowType /\ logged \subseteq LogType
    /\ \A e \in logged : e.high <=> e.id \in SalientIds
    /\ \A e \in logged : e.high => e.id \in semantic
    /\ \A r \in episodes :
         \E e \in logged : e.id = r.id /\ e.at = r.at /\ e.high = r.high
    /\ \A e, f \in logged : ~e.high /\ f.id = e.id => f.at = e.at
    /\ \A r, p \in episodes : ~r.high /\ p.id = r.id => p.summarized = r.summarized
    /\ \A e \in logged : ~e.high => Raw(e) \/ Folded(e)
    /\ \A w \in Weeks : \A told \in digests[w] :
         \E e \in logged : ~e.high /\ e.id = told[1]

(* An id is free until its episode is logged: one wake for each life of    *)
(* the process, one for each question that faded.                          *)
IdsInv ==
    /\ \A e \in logged :
         e.id[1] = "wake" => e.id[2] <= crashes /\ (e.id[2] = crashes => woken)
    /\ \A e \in logged :
         e.id[1] = "ignored" =>
            box[e.id[2]].status = "expired" /\ delivery[e.id[2]] # "memory"

BoxType == [status : {"none", "pending", "answered", "expired"}, asked : Nat]

Asked == {q \in Questions : box[q].status # "none"}

MailInv ==
    /\ IsFiniteSet(Asked)
    /\ day \in Nat /\ crashes \in Nat
    /\ box \in [Questions -> BoxType]
    /\ delivery \in [Questions -> {"none", "memory", "sensation", "attention", "felt", "lost"}]

(* The journal and its snapshots.                                          *)
JournalInv ==
    /\ head \in Nat
    /\ \A r \in journal : r.seq \in 1..head /\ r.at \in 0..day
    /\ snaps \subseteq 0..head
    /\ \A s \in snaps : \A i \in (s + 1)..head : \E r \in journal : r.seq = i

(* A question that faded has one source, and the newest recap is kept.     *)
SourcesInv ==
    /\ \A s \in sources : s.at \in 0..day
    /\ \A s \in sources : s.ref \in Questions => box[s.ref].status = "expired"
    /\ \A s, u \in sources : s.ref = u.ref /\ s.ref \in Questions => s = u

IsRecap(r) == r = [at |-> r.at, shown |-> r.shown, lines |-> r.lines]

RecapsInv ==
    /\ heard \in [told : [Questions -> Nat], open : Int, close : Int]
    /\ \A r \in recaps : IsRecap(r) /\ r.at \in 0..heard.close
    /\ heard.close = Never => recaps = {} /\ heard.open = Never
    /\ heard.close # Never =>
         /\ heard.close \in 0..day
         /\ \E r \in recaps : r.at = heard.close
         /\ \E r \in journal : r.kind = "recap" /\ r.at = heard.close
    /\ stage = "compact" /\ heard.close # Never => day - heard.close < MinAge

(* What was told is over, what is to come has not been told.               *)
ToldInv(q) ==
    /\ heard.told[q] \in {0, 1}
    /\ heard.close = Never \/ box[q].status # "expired" => heard.told[q] = 0
    /\ heard.told[q] = 1 => \A s \in sources : s.ref = q => s.at < heard.close
    /\ \A s \in sources :
         s.ref = q /\ heard.open <= s.at /\ s.at < heard.close => heard.told[q] = 1

LettersInv ==
    /\ MailInv /\ MemoryInv /\ IdsInv /\ JournalInv /\ SourcesInv /\ RecapsInv
    /\ \A q \in Questions : ToldInv(q)

-----------------------------------------------------------------------------
(* Memory.                                                                 *)
LEMMA NoIdTwice ==
    /\ SalientIds \cap WakeIds = {} /\ SalientIds \cap IgnoredIds = {}
    /\ \A id \in SalientIds : id[1] # "wake" /\ id[1] # "ignored"
    /\ \A c \in Nat : /\ <<"wake", c>> \in EpisodeIds \ SalientIds
                      /\ <<"wake", c>>[1] = "wake" /\ <<"wake", c>>[2] = c
    /\ \A q \in Questions : /\ <<"ignored", q>> \in EpisodeIds \ SalientIds
                            /\ <<"ignored", q>>[1] = "ignored" /\ <<"ignored", q>>[2] = q
    /\ \A q \in Questions \cup {NoQuestion} :
         /\ <<"thought", q>> \in SalientIds /\ <<"answered", q>> \in SalientIds
    /\ SalientIds \subseteq EpisodeIds
BY DEF SalientIds, WakeIds, IgnoredIds, EpisodeIds

(* The episodes a step logs: dull ones under ids of their own.             *)
News(news) ==
    /\ \A n \in news : n.id \in EpisodeIds /\ n.high \in BOOLEAN
                       /\ (n.high <=> n.id \in SalientIds)
    /\ \A n \in news : ~n.high => \A e \in logged : e.id # n.id

(* Storing new episodes, evicting the least of them, keeps the memory
   invariant. *)
LEMMA InsertKeeps ==
    ASSUME MemoryInv, day \in Nat, NEW news, News(news), InsertEpisodes(news),
           digests' = digests
    PROVE  MemoryInv'
<1>1. /\ episodes' = episodes \cup
           {[id |-> n.id, at |-> day, high |-> n.high, summarized |-> FALSE] : n \in news}
      /\ semantic' = semantic \cup {n.id : n \in {m \in news : m.high}}
      /\ logged' = logged \cup {[id |-> n.id, at |-> day, high |-> n.high] : n \in news}
  BY DEF InsertEpisodes
<1>2. /\ \A e \in logged' : \/ e \in logged
                            \/ \E n \in news : /\ e = [id |-> n.id, at |-> day, high |-> n.high]
                                               /\ e.id = n.id /\ e.at = day /\ e.high = n.high
      /\ \A r \in episodes' :
           \/ r \in episodes
           \/ \E n \in news : /\ r = [id |-> n.id, at |-> day, high |-> n.high,
                                      summarized |-> FALSE]
                              /\ r.id = n.id /\ r.at = day /\ r.high = n.high
                              /\ r.summarized = FALSE
  BY <1>1
<1>3. \A n \in news : /\ \E e \in logged' : e.id = n.id /\ e.at = day /\ e.high = n.high
                      /\ \E r \in episodes' : r.id = n.id /\ r.at = day /\ r.high = n.high
                                              /\ r.summarized = FALSE
                      /\ n.high => n.id \in semantic'
  <2> SUFFICES ASSUME NEW n \in news
               PROVE  /\ \E e \in logged' : e.id = n.id /\ e.at = day /\ e.high = n.high
                      /\ \E r \in episodes' : r.id = n.id /\ r.at = day /\ r.high = n.high
                                              /\ r.summarized = FALSE
                      /\ n.high => n.id \in semantic'
    OBVIOUS
  <2>1. [id |-> n.id, at |-> day, high |-> n.high] \in logged'
    BY <1>1
  <2>2. [id |-> n.id, at |-> day, high |-> n.high, summarized |-> FALSE] \in episodes'
    BY <1>1
  <2>3. n.high => n.id \in semantic'
    BY <1>1
  <2>4. QED
    BY <2>1, <2>2, <2>3
<1>4. logged \subseteq logged' /\ episodes \subseteq episodes' /\ semantic \subseteq semantic'
  BY <1>1
<1>5. episodes' \subseteq RowType /\ logged' \subseteq LogType
  <2>1. ASSUME NEW n \in news
        PROVE  /\ [id |-> n.id, at |-> day, high |-> n.high] \in LogType
               /\ [id |-> n.id, at |-> day, high |-> n.high, summarized |-> FALSE] \in RowType
    BY DEF News, RowType, LogType
  <2>2. episodes \subseteq RowType /\ logged \subseteq LogType
    BY DEF MemoryInv
  <2>3. ASSUME NEW r \in episodes' PROVE r \in RowType
    BY <1>2, <2>1, <2>2
  <2>4. ASSUME NEW e \in logged' PROVE e \in LogType
    BY <1>2, <2>1, <2>2
  <2>5. QED
    BY <2>3, <2>4
<1>6. \A e \in logged' : e.high <=> e.id \in SalientIds
  BY <1>2 DEF MemoryInv, News
<1>7. \A e \in logged' : e.high => e.id \in semantic'
  BY <1>2, <1>3, <1>4 DEF MemoryInv
<1>8. \A r \in episodes' : \E e \in logged' : e.id = r.id /\ e.at = r.at /\ e.high = r.high
  BY <1>2, <1>3, <1>4 DEF MemoryInv
<1>9. ASSUME NEW e \in logged', NEW f \in logged', ~e.high, f.id = e.id
      PROVE  f.at = e.at
  <2>1. ~f.high
    BY <1>6, <1>9
  <2>2. QED
    BY <1>2, <1>9, <2>1 DEF MemoryInv, News
<1>10. ASSUME NEW r \in episodes', NEW p \in episodes', ~r.high, p.id = r.id
       PROVE  p.summarized = r.summarized
  <2>1. ~p.high
    BY <1>6, <1>8, <1>10
  <2>2. ASSUME NEW o \in episodes, NEW n \in news, ~n.high, o.id = n.id PROVE FALSE
    BY <2>2 DEF MemoryInv, News
  <2>3. ASSUME NEW o \in episodes' \ episodes
        PROVE  o.summarized = FALSE /\ \E n \in news : o.id = n.id /\ o.high = n.high
    BY <1>2
  <2>4. CASE r \in episodes /\ p \in episodes
    BY <1>10, <2>4 DEF MemoryInv
  <2>5. CASE r \notin episodes /\ p \notin episodes
    BY <2>3, <2>5
  <2>6. CASE r \in episodes /\ p \notin episodes
    <3>1. PICK n \in news : p.id = n.id /\ p.high = n.high
      BY <2>3, <2>6
    <3>2. ~n.high /\ r.id = n.id
      BY <1>10, <2>1, <3>1
    <3>3. QED
      BY <2>2, <2>6, <3>2
  <2>7. CASE r \notin episodes /\ p \in episodes
    <3>1. PICK n \in news : r.id = n.id /\ r.high = n.high
      BY <2>3, <2>7
    <3>2. ~n.high /\ p.id = n.id
      BY <1>10, <2>1, <3>1
    <3>3. QED
      BY <2>2, <2>7, <3>2
  <2>8. QED
    BY <2>4, <2>5, <2>6, <2>7
<1>11. ASSUME NEW e \in logged', ~e.high PROVE Raw(e)' \/ Folded(e)'
  <2>1. CASE e \in logged
    <3>1. ASSUME NEW r \in episodes', r.id = e.id PROVE r \in episodes
      BY <1>2, <1>11, <2>1, <3>1 DEF MemoryInv, News
    <3>2. Raw(e) => Raw(e)'
      BY <1>4 DEF Raw
    <3>3. Folded(e) => Folded(e)'
      BY <3>1 DEF Folded
    <3>4. QED
      BY <1>11, <2>1, <3>2, <3>3 DEF MemoryInv
  <2>2. CASE e \notin logged
    <3>1. PICK n \in news : e.id = n.id /\ e.high = n.high
      BY <1>2, <2>2
    <3>2. \A f \in logged : f.id # e.id
      BY <1>11, <3>1 DEF News
    <3>3. ASSUME NEW w \in Weeks, NEW i, <<e.id, i>> \in digests[w] PROVE FALSE
      <4>1. <<e.id, i>>[1] = e.id
        OBVIOUS
      <4>2. QED
        BY <3>2, <3>3, <4>1 DEF MemoryInv
    <3>4. \E r \in episodes' : r.id = e.id /\ ~r.summarized
      BY <1>3, <3>1
    <3>5. Raw(e)'
      BY <3>3, <3>4 DEF Raw
    <3>6. QED
      BY <3>5
  <2>3. QED
    BY <2>1, <2>2
<1>12. \A w \in Weeks : \A told \in digests'[w] :
         \E e \in logged' : ~e.high /\ e.id = told[1]
  BY <1>4 DEF MemoryInv
<1>13. QED
  BY <1>5, <1>6, <1>7, <1>8, <1>9, <1>10, <1>11, <1>12 DEF MemoryInv

(* A night folds what is due, each row once: who is due is decided by the  *)
(* id, since the rows of an id agree.                                      *)
LEMMA RowsAfterNight ==
    ASSUME MemoryInv, episodes' = Pruned(Summarized(Due))
    PROVE  /\ \A p \in episodes' :
                /\ p \in RowType
                /\ \E r \in episodes :
                     /\ p.id = r.id /\ p.at = r.at /\ p.high = r.high
                     /\ p.summarized <=> r.summarized \/ r \in Due
           /\ \A r \in episodes \ Due : ~r.summarized => r \in episodes'
<1>1. Due \subseteq episodes
  BY DEF Due
<1>2. ASSUME NEW p \in episodes'
      PROVE  /\ p \in RowType
             /\ \E r \in episodes :
                  /\ p.id = r.id /\ p.at = r.at /\ p.high = r.high
                  /\ p.summarized <=> r.summarized \/ r \in Due
  <2>1. PICK r \in episodes : p = IF r \in Due THEN [r EXCEPT !.summarized = TRUE] ELSE r
    BY DEF Pruned, Summarized
  <2>2. r \in RowType
    BY DEF MemoryInv
  <2>3. CASE r \in Due
    BY <2>1, <2>2, <2>3 DEF RowType
  <2>4. CASE r \notin Due
    BY <2>1, <2>2, <2>4 DEF RowType
  <2>5. QED
    BY <2>3, <2>4
<1>3. ASSUME NEW r \in episodes \ Due, ~r.summarized PROVE r \in episodes'
  BY <1>3 DEF Pruned, Summarized
<1>4. QED
  BY <1>2, <1>3

(* What a night writes of a row that is due.                               *)
Times(l, w) == {n \in 1..2 : <<l.id, n>> \in digests[w]}
Entry(l, w) == <<l.id, Cardinality(Times(l, w)) + 1>>

(* What a night of summaries adds to the digest of a week: an entry of each
   line due from it, and nothing else. *)
LEMMA DigestsAfterNight ==
    ASSUME FoldSoul(Due), NEW w \in Weeks
    PROVE  /\ digests[w] \subseteq digests'[w]
           /\ \A told \in digests'[w] \ digests[w] :
                \E l \in Due : ~l.high /\ WeekOf(l.at) = w /\ told = Entry(l, w)
           /\ \A l \in Due : ~l.high /\ WeekOf(l.at) = w => Entry(l, w) \in digests'[w]
<1> DEFINE ids == {e.id : e \in {l \in {e \in Due : ~e.high} : WeekOf(l.at) = w}}
           Of(i) == <<i, Cardinality({n \in 1..2 : <<i, n>> \in digests[w]}) + 1>>
<1>1. digests'[w] = digests[w] \cup Told(digests[w], ids)
  BY DEF FoldSoul
<1>2. Told(digests[w], ids) = {Of(i) : i \in ids}
  BY DEF Told
<1>3. \A i : i \in ids <=> \E l \in Due : ~l.high /\ WeekOf(l.at) = w /\ i = l.id
  OBVIOUS
<1>4. \A l \in Due : Entry(l, w) = Of(l.id)
  BY DEF Entry, Times
<1> HIDE DEF ids, Of
<1>5. QED
  BY <1>1, <1>2, <1>3, <1>4

(* An entry names its line, and tells lines apart. *)
LEMMA EntryIs ==
    ASSUME NEW l, NEW w
    PROVE  /\ Entry(l, w)[1] = l.id
           /\ \A id, i : Entry(l, w) = <<id, i>> => l.id = id /\ i = Entry(l, w)[2]
           /\ <<l.id, 1>> \notin digests[w] /\ <<l.id, 2>> \notin digests[w]
                => Entry(l, w) = <<l.id, 1>>
<1>1. Entry(l, w)[1] = l.id
  BY DEF Entry
<1>2. \A id, i : Entry(l, w) = <<id, i>> => l.id = id /\ i = Entry(l, w)[2]
  BY DEF Entry
<1>3. ASSUME <<l.id, 1>> \notin digests[w], <<l.id, 2>> \notin digests[w]
      PROVE  Entry(l, w) = <<l.id, 1>>
  <2>1. 1..2 = {1, 2}
    OBVIOUS
  <2>2. Times(l, w) = {}
    BY <1>3, <2>1 DEF Times
  <2>3. Cardinality(Times(l, w)) + 1 = 1
    BY <2>2, FS_EmptySet
  <2>4. QED
    BY <2>3 DEF Entry
<1>4. QED
  BY <1>1, <1>2, <1>3

(* A night adds no entry of a line that was not due. *)
LEMMA NotTold ==
    ASSUME FoldSoul(Due), NEW w \in Weeks, NEW id, \A l \in Due : l.id # id, NEW i
    PROVE  <<id, i>> \in digests'[w] <=> <<id, i>> \in digests[w]
<1>1. ASSUME <<id, i>> \in digests'[w] \ digests[w] PROVE FALSE
  <2>1. PICK l \in Due : <<id, i>> = Entry(l, w)
    BY <1>1, DigestsAfterNight
  <2>2. QED
    BY <2>1, EntryIs
<1>2. digests[w] \subseteq digests'[w]
  BY DigestsAfterNight
<1>3. QED
  BY <1>1, <1>2

(* The night summarizer keeps the memory invariant. *)
LEMMA NightKeeps ==
    ASSUME MemoryInv, RunSummarizer, logged' = logged
    PROVE  MemoryInv'
<1>1. /\ FoldSoul(Due) /\ episodes' = Pruned(Summarized(Due))
      /\ semantic \subseteq semantic'
  BY DEF RunSummarizer, FoldSoul
<1>2. /\ \A p \in episodes' :
           /\ p \in RowType
           /\ \E r \in episodes :
                /\ p.id = r.id /\ p.at = r.at /\ p.high = r.high
                /\ p.summarized <=> r.summarized \/ r \in Due
      /\ \A r \in episodes \ Due : ~r.summarized => r \in episodes'
  BY <1>1, RowsAfterNight
<1>3. \A r \in Due : r \in episodes /\ ~r.summarized /\ r.at < day - FoldAge
  BY DEF Due
<1>4. \A r \in episodes : ~r.summarized /\ r.at < day - FoldAge => r \in Due
  BY DEF Due
<1>5. ASSUME NEW e \in logged, ~e.high
      PROVE  \A r \in episodes : r.id = e.id => ~r.high /\ r.at = e.at
  <2>1. SUFFICES ASSUME NEW r \in episodes, r.id = e.id PROVE ~r.high /\ r.at = e.at
    OBVIOUS
  <2>2. PICK f \in logged : f.id = r.id /\ f.at = r.at /\ f.high = r.high
    BY DEF MemoryInv
  <2>3. ~f.high
    BY <1>5, <2>1, <2>2 DEF MemoryInv
  <2>4. QED
    BY <1>5, <2>1, <2>2, <2>3 DEF MemoryInv
<1>6. ASSUME NEW r \in episodes, NEW p \in episodes, ~r.high, p.id = r.id
      PROVE  r \in Due <=> p \in Due
  <2>1. p.summarized = r.summarized
    BY <1>6 DEF MemoryInv
  <2>2. PICK f \in logged : f.id = r.id /\ f.at = r.at /\ f.high = r.high
    BY DEF MemoryInv
  <2>3. p.at = r.at
    BY <1>5, <1>6, <2>2
  <2>4. QED
    BY <2>1, <2>3 DEF Due
<1>7. \A r \in episodes' : \E e \in logged' : e.id = r.id /\ e.at = r.at /\ e.high = r.high
  BY <1>2 DEF MemoryInv
<1>8. ASSUME NEW r \in episodes', NEW p \in episodes', ~r.high, p.id = r.id
      PROVE  p.summarized = r.summarized
  <2>1. PICK s \in episodes : /\ r.id = s.id /\ r.high = s.high
                              /\ r.summarized <=> s.summarized \/ s \in Due
    BY <1>2
  <2>2. PICK t \in episodes : /\ p.id = t.id /\ p.high = t.high
                              /\ p.summarized <=> t.summarized \/ t \in Due
    BY <1>2
  <2>3. s.summarized = t.summarized /\ (s \in Due <=> t \in Due)
    BY <1>6, <1>8, <2>1, <2>2 DEF MemoryInv
  <2>4. p.summarized \in BOOLEAN /\ r.summarized \in BOOLEAN
    BY <1>2 DEF RowType
  <2>5. QED
    BY <2>1, <2>2, <2>3, <2>4
<1>9. ASSUME NEW e \in logged, ~e.high, Folded(e) PROVE Folded(e)'
  <2>1. ASSUME NEW r \in Due, r.id = e.id PROVE FALSE
    BY <1>3, <1>9, <2>1 DEF Folded
  <2>2. \A w \in Weeks : \A i : <<e.id, i>> \in digests'[w] <=> <<e.id, i>> \in digests[w]
    BY <1>1, <2>1, NotTold
  <2>3. \A r \in episodes' : r.id = e.id => r.summarized
    BY <1>2, <1>9 DEF Folded
  <2>4. QED
    BY <1>9, <2>2, <2>3 DEF Folded
<1>10. ASSUME NEW e \in logged, ~e.high, Raw(e) PROVE Raw(e)' \/ Folded(e)'
  <2>1. PICK r \in episodes : r.id = e.id /\ ~r.summarized
    BY <1>10 DEF Raw
  <2>2. ~r.high /\ r.at = e.at
    BY <1>5, <1>10, <2>1
  <2>3. \A p \in episodes : p.id = e.id => (p \in Due <=> r \in Due)
    BY <1>6, <2>1, <2>2
  <2>4. CASE r \notin Due
    <3>1. r \in episodes'
      BY <1>2, <2>1, <2>4
    <3>2. ASSUME NEW p \in Due, p.id = e.id PROVE FALSE
      BY <1>3, <2>3, <2>4, <3>2
    <3>3. \A w \in Weeks : \A i : <<e.id, i>> \in digests'[w] <=> <<e.id, i>> \in digests[w]
      BY <1>1, <3>2, NotTold
    <3>4. Raw(e)'
      BY <1>10, <2>1, <3>1, <3>3 DEF Raw
    <3>5. QED
      BY <3>4
  <2>5. CASE r \in Due
    <3>1. \A p \in episodes' : p.id = e.id => p.summarized
      BY <1>2, <2>3, <2>5
    <3>2. ASSUME NEW w \in Weeks, NEW l \in Due, l.id = e.id
          PROVE  l.at = e.at /\ Entry(l, w) = <<e.id, 1>>
      BY <1>3, <1>5, <1>10, <3>2, EntryIs DEF Raw
    <3>3. ASSUME NEW w \in Weeks, NEW i, <<e.id, i>> \in digests'[w], <<e.id, i>> \notin digests[w]
          PROVE  i = 1 /\ w = WeekOf(e.at)
      <4>1. PICK l \in Due : ~l.high /\ WeekOf(l.at) = w /\ Entry(l, w) = <<e.id, i>>
        BY <1>1, <3>3, DigestsAfterNight
      <4>2. l.id = e.id
        BY <4>1, EntryIs
      <4>3. QED
        BY <3>2, <4>1, <4>2
    <3>4. ASSUME NEW w \in Weeks, w = WeekOf(e.at) PROVE <<e.id, 1>> \in digests'[w]
      BY <1>1, <2>1, <2>2, <2>5, <3>2, <3>4, DigestsAfterNight
    <3>5. Folded(e)'
      BY <1>10, <3>1, <3>3, <3>4 DEF Folded, Raw
    <3>6. QED
      BY <3>5
  <2>6. QED
    BY <2>4, <2>5
<1>11. ASSUME NEW w \in Weeks, NEW told \in digests'[w]
       PROVE  \E e \in logged : ~e.high /\ e.id = told[1]
  <2>1. CASE told \in digests[w]
    BY <2>1 DEF MemoryInv
  <2>2. CASE told \notin digests[w]
    <3>1. PICK l \in Due : ~l.high /\ told = Entry(l, w)
      BY <1>1, <2>2, DigestsAfterNight
    <3>2. told[1] = l.id
      BY <3>1, EntryIs
    <3>3. QED
      BY <1>3, <3>1, <3>2 DEF MemoryInv
  <2>3. QED
    BY <2>1, <2>2
<1>12. QED
  BY <1>1, <1>2, <1>7, <1>8, <1>9, <1>10, <1>11 DEF MemoryInv

(* The memory invariant has every important line remembered. *)
LEMMA MemoryRemembers == MemoryInv => Remembered
BY DEF MemoryInv, Remembered, Raw, Folded

-----------------------------------------------------------------------------
(* The journal.  A step keeps its rows of recaps.                          *)
RecapRowsStay == \A r \in journal : r.kind = "recap" => r \in journal'

(* The journal invariant has no gap behind the latest snapshot. *)
LEMMA TailsAreGapless == JournalInv => TailIsGapless
<1> SUFFICES ASSUME JournalInv, NEW s \in snaps
             PROVE  {r.seq : r \in {j \in journal : j.seq > s}} = (s + 1)..head
  BY DEF TailIsGapless
<1>1. s \in Int /\ head \in Int
  BY DEF JournalInv
<1>2. ASSUME NEW r \in journal, r.seq > s PROVE r.seq \in (s + 1)..head
  BY <1>1, <1>2 DEF JournalInv
<1>3. ASSUME NEW i \in (s + 1)..head PROVE \E r \in journal : r.seq > s /\ i = r.seq
  BY <1>1 DEF JournalInv
<1>4. QED
  BY <1>2, <1>3

(* The positions after the head are filled, and what goes is no recap and  *)
(* not after a retained snapshot.                                          *)
LEMMA JournalKept ==
    ASSUME JournalInv, NEW kept \in SUBSET journal, NEW news, NEW n \in Nat,
           day' = day, day \in Nat,
           journal' = kept \cup news, head' = head + n, snaps' = snaps,
           \A r \in journal \ kept : r.kind # "recap" /\ \A s \in snaps : r.seq <= s,
           \A r \in news : r.seq \in (head + 1)..(head + n) /\ r.at = day,
           \A i \in 1..n : \E r \in news : r.seq = head + i
    PROVE  JournalInv' /\ RecapRowsStay
<1>1. head \in Nat /\ head' \in Nat /\ head <= head'
  BY DEF JournalInv
<1>2. \A r \in journal' : r.seq \in 1..head' /\ r.at \in 0..day'
  <2>1. ASSUME NEW r \in kept PROVE r.seq \in 1..head' /\ r.at \in 0..day'
    BY <1>1 DEF JournalInv
  <2>2. ASSUME NEW r \in news PROVE r.seq \in 1..head' /\ r.at \in 0..day'
    BY <1>1
  <2>3. QED
    BY <2>1, <2>2
<1>3. snaps' \subseteq 0..head'
  BY <1>1 DEF JournalInv
<1>4. ASSUME NEW s \in snaps', NEW i \in (s + 1)..head'
      PROVE  \E r \in journal' : r.seq = i
  <2>1. s \in 0..head /\ s \in snaps
    BY DEF JournalInv
  <2>2. CASE i <= head
    <3>1. PICK r \in journal : r.seq = i
      BY <1>1, <2>1, <2>2 DEF JournalInv
    <3>2. r \in kept
      BY <1>1, <2>1, <3>1
    <3>3. QED
      BY <3>1, <3>2
  <2>3. CASE i > head
    <3>1. i - head \in 1..n /\ head + (i - head) = i
      BY <1>1, <2>1, <2>3
    <3>2. PICK r \in news : r.seq = head + (i - head)
      BY <3>1
    <3>3. QED
      BY <3>1, <3>2
  <2>4. QED
    BY <1>1, <2>1, <2>2, <2>3
<1>5. \A r \in journal : r.kind = "recap" => r \in journal'
  OBVIOUS
<1>6. QED
  BY <1>1, <1>2, <1>3, <1>4, <1>5 DEF JournalInv, RecapRowsStay

(* Rows appended with the next sequence numbers keep the journal invariant,
   and the recap rows stay. *)
LEMMA JournalGrows ==
    ASSUME JournalInv, NEW news, NEW n \in Nat, day' = day, day \in Nat,
           journal' = journal \cup news, head' = head + n, snaps' = snaps,
           \A r \in news : r.seq \in (head + 1)..(head + n) /\ r.at = day,
           \A i \in 1..n : \E r \in news : r.seq = head + i
    PROVE  JournalInv' /\ RecapRowsStay
<1> DEFINE kept == journal
<1>1. /\ kept \in SUBSET journal /\ journal' = kept \cup news
      /\ \A r \in journal \ kept : r.kind # "recap" /\ \A s \in snaps : r.seq <= s
  OBVIOUS
<1> HIDE DEF kept
<1>2. QED
  BY <1>1, JournalKept

(* The append of some kinds of event does so, and leaves a row of each kind. *)
LEMMA AppendGrows ==
    ASSUME JournalInv, day' = day, day \in Nat, NEW kinds, NEW ref,
           NEW n \in Nat, DOMAIN kinds = 1..n, AppendEvent(kinds, ref)
    PROVE  /\ JournalInv' /\ RecapRowsStay
           /\ \A i \in 1..n : \E r \in journal' : r.kind = kinds[i] /\ r.at = day
<1> DEFINE Row(i) == [seq |-> head + i, kind |-> kinds[i], at |-> day, ref |-> ref]
           news == {Row(i) : i \in 1..n}
<1>1. /\ journal' = journal \cup news /\ snaps' = snaps
      /\ head' = head + Cardinality(1..n)
  BY DEF AppendEvent
<1>2. Cardinality(1..n) = n
  BY FS_Interval
<1>3. head \in Nat
  BY DEF JournalInv
<1>4. \A i \in 1..n : Row(i).seq = head + i /\ Row(i).at = day /\ Row(i).kind = kinds[i]
  OBVIOUS
<1> HIDE DEF Row
<1>5. /\ \A r \in news : r.seq \in (head + 1)..(head + n) /\ r.at = day
      /\ \A i \in 1..n : \E r \in news : r.seq = head + i /\ r.kind = kinds[i] /\ r.at = day
  <2>1. ASSUME NEW i \in 1..n
        PROVE  Row(i) \in news /\ Row(i).seq \in (head + 1)..(head + n)
    BY <1>3, <1>4
  <2>2. QED
    BY <1>4, <2>1
<1> HIDE DEF news
<1>6. JournalInv' /\ RecapRowsStay
  BY <1>1, <1>2, <1>5, JournalGrows
<1>7. QED
  BY <1>1, <1>5, <1>6

(* A step that leaves the journal keeps its invariant. *)
LEMMA JournalIdle ==
    ASSUME JournalInv, UNCHANGED records, day \in Nat, day' \in {day, day + 1}
    PROVE  JournalInv' /\ RecapRowsStay
<1>1. journal' = journal /\ head' = head /\ snaps' = snaps
  BY DEF records
<1>2. \A r \in journal : r.seq \in 1..head /\ r.at \in 0..day'
  BY DEF JournalInv
<1>3. QED
  BY <1>1, <1>2 DEF JournalInv, RecapRowsStay

(* The sweep of expired letters appends to the journal. *)
LEMMA SweepGrows ==
    ASSUME JournalInv, day \in Nat, day' = day, IsFiniteSet(Overdue), SweepExpired
    PROVE  JournalInv' /\ RecapRowsStay
<1>1. PICK n \in Nat : n = Cardinality(Overdue)
  BY FS_CardinalityType
<1>2. PICK order \in [1..n -> Overdue] :
        journal' = journal \cup
          UNION {{[seq |-> head + 2 * i - 1, kind |-> "loyalty", at |-> day, ref |-> order[i]],
                  [seq |-> head + 2 * i, kind |-> "expired", at |-> day, ref |-> order[i]]}
                   : i \in DOMAIN order}
  BY <1>1 DEF SweepExpired
<1>3. snaps' = snaps /\ head' = head + 2 * n
  BY <1>1 DEF SweepExpired
<1> DEFINE A(i) == [seq |-> head + 2 * i - 1, kind |-> "loyalty", at |-> day, ref |-> order[i]]
           B(i) == [seq |-> head + 2 * i, kind |-> "expired", at |-> day, ref |-> order[i]]
           news == UNION {{A(i), B(i)} : i \in 1..n}
<1>4. journal' = journal \cup news
  BY <1>2
<1>5. \A i \in 1..n : /\ A(i).seq = head + 2 * i - 1 /\ A(i).at = day
                      /\ B(i).seq = head + 2 * i /\ B(i).at = day
  OBVIOUS
<1> HIDE DEF A, B
<1>6. /\ \A r \in news : \E i \in 1..n : r = A(i) \/ r = B(i)
      /\ \A i \in 1..n : A(i) \in news /\ B(i) \in news
  OBVIOUS
<1> HIDE DEF news
<1>7. head \in Nat /\ 2 * n \in Nat
  BY DEF JournalInv
<1>8. ASSUME NEW r \in news PROVE r.seq \in (head + 1)..(head + 2 * n) /\ r.at = day
  <2>1. PICK i \in 1..n : r = A(i) \/ r = B(i)
    BY <1>6
  <2>2. QED
    BY <1>5, <1>7, <2>1
<1>9. ASSUME NEW j \in 1..(2 * n) PROVE \E r \in news : r.seq = head + j
  <2>1. PICK i \in 1..n : j = 2 * i - 1 \/ j = 2 * i
    <3>1. (j + 1) \div 2 \in 1..n /\ (j = 2 * ((j + 1) \div 2) - 1 \/ j = 2 * ((j + 1) \div 2))
      OBVIOUS
    <3>2. QED
      BY <3>1
  <2>2. head + j = head + 2 * i - 1 \/ head + j = head + 2 * i
    BY <1>7, <2>1
  <2>3. QED
    BY <1>5, <1>6, <2>2
<1>10. QED
  BY <1>3, <1>4, <1>7, <1>8, <1>9, JournalGrows

(* compact_journal counts its days: every rank is taken once.              *)
LEMMA RanksFill ==
    ASSUME NEW S, S \subseteq Nat, IsFiniteSet(S)
    PROVE  /\ Cardinality(S) \in Nat
           /\ \A d \in S : Cardinality({e \in S : e <= d}) \in 1..Cardinality(S)
           /\ \A i \in 1..Cardinality(S) : \E d \in S : Cardinality({e \in S : e <= d}) = i
<1> DEFINE Upto(d) == {e \in S : e <= d}
<1>1. PICK n \in Nat : n = Cardinality(S)
  BY FS_CardinalityType
<1>2. ASSUME NEW d \in S
      PROVE  /\ IsFiniteSet(Upto(d)) /\ Cardinality(Upto(d)) \in 1..n
  <2>1. Upto(d) \in SUBSET S /\ d \in Upto(d)
    OBVIOUS
  <2> HIDE DEF Upto
  <2>2. IsFiniteSet(Upto(d)) /\ Cardinality(Upto(d)) <= n
    BY <1>1, <2>1, FS_Subset
  <2>3. Cardinality(Upto(d)) \in Nat /\ Cardinality(Upto(d)) # 0
    BY <2>1, <2>2, FS_CardinalityType, FS_EmptySet
  <2>4. QED
    BY <2>2, <2>3
<1>3. ASSUME NEW d \in S, NEW c \in S, d < c
      PROVE  Cardinality(Upto(d)) # Cardinality(Upto(c))
  <2>0. d \in Nat /\ c \in Nat /\ S \subseteq Nat
    OBVIOUS
  <2>1. Upto(d) \in SUBSET Upto(c) /\ c \in Upto(c) /\ c \notin Upto(d)
    <3>1. ASSUME NEW e \in Upto(d) PROVE e \in Upto(c)
      BY <1>3, <2>0
    <3>2. c \in Upto(c) /\ c \notin Upto(d)
      BY <1>3, <2>0
    <3>3. QED
      BY <3>1, <3>2
  <2> HIDE DEF Upto
  <2>2. QED
    BY <1>2, <2>1, FS_Subset
<1> DEFINE rank == [d \in S |-> Cardinality(Upto(d))]
<1>4. rank \in Injection(S, 1..n)
  <2>1. rank \in [S -> 1..n]
    BY <1>2
  <2>2. ASSUME NEW d \in S, NEW c \in S, rank[d] = rank[c] PROVE d = c
    <3>1. Cardinality(Upto(d)) = Cardinality(Upto(c))
      BY <2>2
    <3>2. ~ (d < c) /\ ~ (c < d)
      BY <1>3, <3>1
    <3>3. QED
      BY <3>2
  <2> HIDE DEF rank
  <2>3. QED
    BY <2>1, <2>2 DEF Injection, IsInjective
<1>5. IsFiniteSet(1..n) /\ Cardinality(1..n) = n
  BY FS_Interval
<1>6. rank \in Surjection(S, 1..n)
  <2> HIDE DEF rank
  <2>1. QED
    BY <1>1, <1>4, <1>5, FS_Injection
<1>7. \A i \in 1..n : \E d \in S : rank[d] = i
  BY <1>6 DEF Surjection
<1>8. QED
  BY <1>1, <1>2, <1>7

(* Compaction keeps the journal invariant and the recap rows. *)
LEMMA CompactGrows ==
    ASSUME JournalInv, day \in Nat, day' = day, CompactJournal
    PROVE  JournalInv' /\ RecapRowsStay
<1> DEFINE ranked(d) == Cardinality({e \in RolledDays : e <= d})
           Row(d) == [seq |-> head + ranked(d), kind |-> "rollup", at |-> day, ref |-> NoQuestion]
           news == {Row(d) : d \in RolledDays}
           kept == journal \ Rolled
<1>1. RolledDays \subseteq Nat /\ IsFiniteSet(RolledDays)
  <2>1. RolledDays \subseteq 0..day
    BY DEF JournalInv, RolledDays, Rolled
  <2>2. IsFiniteSet(0..day)
    BY FS_Interval
  <2>3. 0..day \subseteq Nat /\ RolledDays \in SUBSET (0..day)
    BY <2>1
  <2>4. IsFiniteSet(RolledDays)
    BY <2>2, <2>3, FS_Subset
  <2>5. QED
    BY <2>3, <2>4
<1>2. PICK n \in Nat : n = Cardinality(RolledDays)
  BY <1>1, FS_CardinalityType
<1>3. /\ \A d \in RolledDays : ranked(d) \in 1..n
      /\ \A i \in 1..n : \E d \in RolledDays : ranked(d) = i
  BY <1>1, <1>2, RanksFill
<1>4. /\ journal' = kept \cup news /\ head' = head + n /\ snaps' = snaps
      /\ kept \in SUBSET journal
  BY <1>2 DEF CompactJournal
<1>5. ASSUME NEW r \in journal \ kept PROVE r.kind # "recap" /\ \A s \in snaps : r.seq <= s
  <2>1. r.kind \in Dull /\ r.seq < SnapshotFloor /\ r.seq \in Nat
    BY DEF Rolled, JournalInv
  <2>2. ASSUME NEW s \in snaps PROVE r.seq <= s
    <3>1. snaps \subseteq Nat /\ snaps # {}
      BY DEF JournalInv
    <3>2. \E x \in snaps : \A y \in snaps : x <= y
      BY <3>1, Least
    <3>3. Oldest(snaps) \in snaps /\ Oldest(snaps) <= s
      BY <3>2 DEF Oldest
    <3>4. SnapshotFloor = Oldest(snaps)
      BY <3>1 DEF SnapshotFloor
    <3>5. PICK x \in Nat : x = SnapshotFloor
      BY <3>1, <3>3, <3>4
    <3>6. s \in Nat /\ x <= s /\ r.seq < x
      BY <2>1, <3>1, <3>3, <3>4, <3>5
    <3>7. QED
      BY <2>1, <3>6
  <2>3. r.kind # "recap"
    BY <2>1 DEF Dull
  <2>4. QED
    BY <2>2, <2>3
<1>6. \A d \in RolledDays : Row(d).seq = head + ranked(d) /\ Row(d).at = day
  OBVIOUS
<1>7. head \in Nat
  BY DEF JournalInv
<1> HIDE DEF Row, ranked, kept
<1>8. \A r \in news : r.seq \in (head + 1)..(head + n) /\ r.at = day
  BY <1>3, <1>6, <1>7
<1>9. \A i \in 1..n : \E r \in news : r.seq = head + i
  BY <1>3, <1>6
<1> HIDE DEF news
<1>10. QED
  BY <1>4, <1>5, <1>8, <1>9, JournalKept

(* A snapshot keeps the journal invariant. *)
LEMMA SnapshotKeeps ==
    ASSUME JournalInv, day \in Nat, day' = day, TakeSnapshot
    PROVE  JournalInv' /\ RecapRowsStay
<1>1. journal' = journal /\ head' = head /\ snaps' \subseteq snaps \cup {head}
  BY DEF TakeSnapshot
<1>2. head \in Nat
  BY DEF JournalInv
<1>3. snaps' \subseteq 0..head
  BY <1>1, <1>2 DEF JournalInv
<1>4. \A s \in snaps' : \A i \in (s + 1)..head : \E r \in journal : r.seq = i
  BY <1>1, <1>2 DEF JournalInv
<1>5. QED
  BY <1>1, <1>2, <1>3, <1>4 DEF JournalInv, RecapRowsStay

-----------------------------------------------------------------------------
(* The mailbag: a question that faded stays faded, and its memory is       *)
(* delivered once.                                                         *)
MailEffect ==
    /\ day' \in {day, day + 1}
    /\ \A q \in Questions : box[q].status = "expired" =>
         /\ box'[q].status = "expired"
         /\ delivery[q] # "memory" => delivery'[q] # "memory"

MailIdle == UNCHANGED <<box, delivery>> /\ UNCHANGED clock

(* A step that leaves the mailbox keeps the mail invariant. *)
LEMMA MailStays ==
    ASSUME MailInv, UNCHANGED box, day' \in {day, day + 1}, crashes' \in {crashes, crashes + 1},
           delivery' \in [Questions -> {"none", "memory", "sensation", "attention", "felt", "lost"}],
           \A q \in Questions : delivery[q] # "memory" => delivery'[q] # "memory"
    PROVE  MailInv' /\ MailEffect
<1>1. Asked' = Asked
  BY DEF Asked
<1>2. day' \in Nat /\ crashes' \in Nat
  BY DEF MailInv
<1>3. QED
  BY <1>1, <1>2 DEF MailInv, MailEffect

(* An answer to, or a decision on, one letter keeps the mail invariant. *)
LEMMA MailTurns ==
    ASSUME MailInv, NEW q \in Questions, NEW v \in BoxType, UNCHANGED clock,
           box' = [box EXCEPT ![q] = v], box[q].status # "expired",
           delivery' = [delivery EXCEPT ![q] = "memory"] \/ delivery' = delivery
    PROVE  MailInv' /\ MailEffect
<1>1. box' \in [Questions -> BoxType]
  BY DEF MailInv
<1>2. delivery' \in [Questions -> {"none", "memory", "sensation", "attention", "felt", "lost"}]
  BY DEF MailInv
<1>3. Asked' \in SUBSET (Asked \cup {q})
  BY DEF Asked, MailInv
<1>4. IsFiniteSet(Asked')
  BY <1>3, FS_AddElement, FS_Subset DEF MailInv
<1>5. day' = day /\ crashes' = crashes
  BY DEF clock
<1>6. \A p \in Questions : box[p].status = "expired" =>
        box'[p] = box[p] /\ delivery'[p] = delivery[p]
  BY DEF MailInv
<1>7. QED
  BY <1>1, <1>2, <1>4, <1>5, <1>6 DEF MailInv, MailEffect

(* The sweep of expired letters keeps the mail invariant. *)
LEMMA MailSweep ==
    ASSUME MailInv, SweepExpired
    PROVE  MailInv' /\ MailEffect
<1>1. day' = day /\ crashes' = crashes
  BY DEF SweepExpired, clock
<1>2. \A p \in Overdue : box[p].status = "pending"
  BY DEF Overdue, Pending
<1>3. box' = [p \in Questions |->
        IF p \in Overdue THEN [box[p] EXCEPT !.status = "expired"] ELSE box[p]]
  BY DEF SweepExpired
<1>4. \A p \in Questions : p \in Overdue =>
        box'[p].status = "expired" /\ box'[p] \in BoxType
  BY <1>3 DEF MailInv, BoxType
<1>5. \A p \in Questions : p \notin Overdue => box'[p] = box[p]
  BY <1>3
<1>6. box' \in [Questions -> BoxType]
  BY <1>3, <1>4, <1>5 DEF MailInv
<1>7. \A p \in Questions : delivery'[p] = IF p \in Overdue THEN "memory" ELSE delivery[p]
  BY DEF SweepExpired, Fades
<1>8. delivery' \in [Questions -> {"none", "memory", "sensation", "attention", "felt", "lost"}]
  BY DEF SweepExpired, Fades, MailInv
<1>9. Asked' = Asked
  BY <1>2, <1>4, <1>5 DEF Asked
<1>10. QED
  BY <1>1, <1>2, <1>4, <1>5, <1>6, <1>7, <1>8, <1>9 DEF MailInv, MailEffect

(* Every step keeps the mail invariant. *)
LEMMA MailStep ==
    ASSUME MailInv, LettersNext
    PROVE  MailInv' /\ MailEffect
<1>1. ASSUME MailIdle PROVE MailInv' /\ MailEffect
  BY <1>1, MailStays DEF MailIdle, MailInv, clock
<1>2. CASE DropQuestion
  BY <1>1, <1>2 DEF DropQuestion, MailIdle
<1>3. ASSUME NEW q \in Questions, AskQuestion(q) PROVE MailInv' /\ MailEffect
  <2>1. [status |-> "pending", asked |-> day] \in BoxType
    BY DEF BoxType, MailInv
  <2>2. QED
    BY <1>3, <2>1, MailTurns DEF AskQuestion
<1>4. ASSUME NEW q \in Questions, AnswerMailbag(q) PROVE MailInv' /\ MailEffect
  <2>1. /\ box' = [box EXCEPT ![q] = [box[q] EXCEPT !.status = "answered"]]
        /\ delivery' = [delivery EXCEPT ![q] = "memory"]
        /\ box[q].status = "pending" /\ UNCHANGED clock
    BY <1>4 DEF AnswerMailbag, AnswerQuestion
  <2>2. [box[q] EXCEPT !.status = "answered"] \in BoxType
    BY DEF BoxType, MailInv
  <2>3. QED
    BY <2>1, <2>2, MailTurns
<1>5. ASSUME NEW q \in Questions, Deliver(q) PROVE MailInv' /\ MailEffect
  <2>1. /\ UNCHANGED box /\ UNCHANGED clock
        /\ \/ delivery' = [delivery EXCEPT ![q] = "sensation"]
           \/ delivery' = [delivery EXCEPT ![q] = "attention"]
           \/ delivery' = [delivery EXCEPT ![q] = "felt"]
    BY <1>5 DEF Deliver, DeliverMemory, DeliverSensation, NoteAttention, LogIgnored
  <2>2. /\ delivery' \in [Questions -> {"none", "memory", "sensation", "attention", "felt", "lost"}]
        /\ \A p \in Questions : delivery[p] # "memory" => delivery'[p] # "memory"
    BY <2>1 DEF MailInv
  <2>3. QED
    BY <2>1, <2>2, MailStays DEF clock
<1>6. CASE TickGoesOn
  <2>1. SweepExpired \/ MailIdle
    BY <1>6 DEF TickGoesOn, Maintain, Stamp, SweepRecaps, CompactRetention, TakeSnapshot,
                MaybeMorningNote, MailIdle
  <2>2. QED
    BY <1>1, <2>1, MailSweep
<1>7. CASE OnUnlock
  BY <1>1, <1>7 DEF OnUnlock, MailIdle
<1>8. CASE Crash
  <2>1. /\ UNCHANGED <<day, box>> /\ crashes' = crashes + 1
        /\ delivery' = [q \in Questions |->
             IF delivery[q] \in {"none", "felt"} THEN delivery[q] ELSE "lost"]
    BY <1>8 DEF Crash
  <2>2. /\ delivery' \in [Questions -> {"none", "memory", "sensation", "attention", "felt", "lost"}]
        /\ \A p \in Questions : delivery[p] # "memory" => delivery'[p] # "memory"
    BY <2>1 DEF MailInv
  <2>3. QED
    BY <2>1, <2>2, MailStays
<1>9. CASE Boot
  BY <1>1, <1>9 DEF Boot, MailIdle
<1>10. CASE NextDay
  <2>1. UNCHANGED <<box, delivery, crashes>> /\ day' = day + 1
    BY <1>10 DEF NextDay
  <2>2. QED
    BY <2>1, MailStays DEF MailInv
<1>11. QED
  BY <1>2, <1>3, <1>4, <1>5, <1>6, <1>7, <1>8, <1>9, <1>10 DEF LettersNext

-----------------------------------------------------------------------------
(* What every step does to the memory: it inserts episodes under ids of    *)
(* their own, it folds, or it leaves the tables alone.                     *)
LEMMA IdKinds ==
    /\ \A id \in EpisodeIds : id[1] = "wake" => id[2] \in Nat
    /\ \A id \in EpisodeIds : id[1] = "ignored" => id[2] \in Questions
    /\ \A e \in LogType : e.id \in EpisodeIds
BY DEF EpisodeIds, SalientIds, WakeIds, IgnoredIds, LogType

(* A step that logs no line keeps the accounting of the logged lines. *)
LEMMA IdsIdle ==
    ASSUME MailInv, MemoryInv, IdsInv, MailEffect, UNCHANGED logged,
           \/ UNCHANGED <<crashes, woken>>
           \/ crashes' = crashes + 1
    PROVE  IdsInv'
<1>1. ASSUME NEW e \in logged, e.id[1] = "wake"
      PROVE  e.id[2] <= crashes' /\ (e.id[2] = crashes' => woken')
  <2>1. e.id[2] \in Nat /\ crashes \in Nat
    BY <1>1, IdKinds DEF MemoryInv, MailInv
  <2>2. e.id[2] <= crashes /\ (e.id[2] = crashes => woken)
    BY <1>1 DEF IdsInv
  <2>3. CASE UNCHANGED <<crashes, woken>>
    BY <2>2, <2>3
  <2>4. CASE crashes' = crashes + 1
    <3>1. PICK n \in Nat, c \in Nat : n = e.id[2] /\ c = crashes
      BY <2>1
    <3>2. n <= c /\ crashes' = c + 1
      BY <2>2, <2>4, <3>1
    <3>3. n <= c + 1 /\ n # c + 1
      BY <3>2
    <3>4. QED
      BY <3>1, <3>2, <3>3
  <2>5. QED
    BY <2>3, <2>4
<1>2. ASSUME NEW e \in logged, e.id[1] = "ignored"
      PROVE  box'[e.id[2]].status = "expired" /\ delivery'[e.id[2]] # "memory"
  <2>1. e.id[2] \in Questions
    BY <1>2, IdKinds DEF MemoryInv
  <2>2. QED
    BY <1>2, <2>1 DEF IdsInv, MailEffect
<1>3. QED
  BY <1>1, <1>2 DEF IdsInv

(* A step that leaves the memory keeps both of its invariants. *)
LEMMA EpisodesIdle ==
    ASSUME MailInv, MemoryInv, IdsInv, MailEffect, UNCHANGED <<episodes, digests, semantic, logged>>,
           \/ UNCHANGED <<crashes, woken>>
           \/ crashes' = crashes + 1
    PROVE  MemoryInv' /\ IdsInv'
<1>1. IdsInv'
  BY IdsIdle
<1>2. \A e : (Raw(e)' <=> Raw(e)) /\ (Folded(e)' <=> Folded(e))
  BY DEF Raw, Folded
<1>3. MemoryInv'
  BY <1>2 DEF MemoryInv
<1>4. QED
  BY <1>1, <1>3

(* A row of the log is of its episode.                                     *)
LEMMA InsertedIds ==
    ASSUME NEW news, InsertEpisodes(news)
    PROVE  /\ \A e \in logged' : e \in logged \/ \E n \in news : e.id = n.id
           /\ logged \subseteq logged'
BY DEF InsertEpisodes

(* Logging a salient thought keeps both invariants of the memory. *)
LEMMA ThoughtKeeps ==
    ASSUME MailInv, MemoryInv, IdsInv, MailEffect, crashes' = crashes,
           NEW id \in SalientIds, LogThought(id)
    PROVE  MemoryInv' /\ IdsInv'
<1> DEFINE thought == [id |-> id, high |-> TRUE]
           news == PopWake \cup {thought}
<1>1. InsertEpisodes(news) /\ woken' = TRUE /\ digests' = digests
  BY DEF LogThought
<1>2. day \in Nat /\ crashes \in Nat
  BY DEF MailInv
<1>3. ASSUME NEW n \in news
      PROVE  \/ n.id = id /\ n.high = TRUE
             \/ ~woken /\ n.id = <<"wake", crashes>> /\ n.high = FALSE
  <2>1. CASE n = thought
    BY <2>1
  <2>2. CASE n # thought
    <3>1. ~woken /\ n = [id |-> <<"wake", crashes>>, high |-> FALSE]
      BY <2>2 DEF PopWake
    <3>2. QED
      BY <3>1
  <2>3. QED
    BY <2>1, <2>2
<1>4. /\ <<"wake", crashes>> \in EpisodeIds \ SalientIds
      /\ <<"wake", crashes>>[1] = "wake" /\ <<"wake", crashes>>[2] = crashes
      /\ id \in EpisodeIds /\ id[1] # "wake" /\ id[1] # "ignored"
  BY <1>2, NoIdTwice
<1> HIDE DEF news
<1>5. News(news)
  <2>1. ASSUME NEW n \in news, ~n.high, NEW e \in logged, e.id = n.id PROVE FALSE
    BY <1>3, <1>4, <2>1 DEF IdsInv
  <2>2. QED
    BY <1>3, <1>4, <2>1 DEF News
<1>6. MemoryInv'
  BY <1>1, <1>2, <1>5, InsertKeeps
<1>7. ASSUME NEW e \in logged', e.id[1] = "wake"
      PROVE  e.id[2] <= crashes
  <2>1. CASE e \in logged
    BY <1>7, <2>1 DEF IdsInv
  <2>2. CASE e \notin logged
    <3>1. PICK n \in news : e.id = n.id
      BY <1>1, <2>2, InsertedIds
    <3>2. e.id[2] = crashes
      BY <1>3, <1>4, <1>7, <3>1
    <3>3. QED
      BY <1>2, <3>2
  <2>3. QED
    BY <2>1, <2>2
<1>8. ASSUME NEW e \in logged', e.id[1] = "ignored"
      PROVE  box'[e.id[2]].status = "expired" /\ delivery'[e.id[2]] # "memory"
  <2>1. e \in logged
    <3>1. ASSUME e \notin logged PROVE FALSE
      <4>1. PICK n \in news : e.id = n.id
        BY <1>1, <3>1, InsertedIds
      <4>2. QED
        BY <1>3, <1>4, <1>8, <4>1
    <3>2. QED
      BY <3>1
  <2>2. e.id[2] \in Questions
    BY <1>8, <2>1, IdKinds DEF MemoryInv
  <2>3. QED
    BY <1>8, <2>1, <2>2 DEF IdsInv, MailEffect
<1>9. IdsInv'
  BY <1>1, <1>7, <1>8 DEF IdsInv
<1>10. QED
  BY <1>6, <1>9

(* Logging an episode, of a thought or of an ignored letter, keeps both
   invariants of the memory. *)
LEMMA EpisodeKeeps ==
    ASSUME MailInv, MemoryInv, IdsInv, MailEffect, crashes' = crashes,
           NEW id, NEW high, LogEpisode(id, high),
           \/ high = TRUE /\ id \in SalientIds
           \/ \E q \in Questions :
                /\ high = FALSE /\ id = <<"ignored", q>>
                /\ box[q].status = "expired" /\ delivery[q] = "memory" /\ delivery'[q] # "memory"
    PROVE  MemoryInv' /\ IdsInv'
<1> DEFINE episode == [id |-> id, high |-> high]
           news == {episode}
<1>1. InsertEpisodes(news) /\ woken' = woken /\ digests' = digests
  BY DEF LogEpisode
<1>2. day \in Nat /\ crashes \in Nat
  BY DEF MailInv
<1>3. \A n \in news : n.id = id /\ n.high = high
  OBVIOUS
<1>4. /\ id \in EpisodeIds /\ id[1] # "wake" /\ high \in BOOLEAN
      /\ high <=> id \in SalientIds
      /\ id[1] = "ignored" =>
           /\ box'[id[2]].status = "expired"
           /\ delivery[id[2]] = "memory" /\ delivery'[id[2]] # "memory"
      /\ ~high => id[1] = "ignored"
  <2>1. CASE high = TRUE /\ id \in SalientIds
    BY <2>1, NoIdTwice
  <2>2. CASE \E q \in Questions :
               /\ high = FALSE /\ id = <<"ignored", q>>
               /\ box[q].status = "expired" /\ delivery[q] = "memory" /\ delivery'[q] # "memory"
    <3>1. PICK q \in Questions :
               /\ high = FALSE /\ id = <<"ignored", q>>
               /\ box[q].status = "expired" /\ delivery[q] = "memory" /\ delivery'[q] # "memory"
      BY <2>2
    <3>2. id \in EpisodeIds \ SalientIds /\ id[1] = "ignored" /\ id[2] = q
      BY <3>1, NoIdTwice
    <3>3. box'[q].status = "expired"
      BY <3>1 DEF MailEffect
    <3>4. QED
      BY <3>1, <3>2, <3>3
  <2>3. QED
    BY <2>1, <2>2
<1> HIDE DEF news
<1>5. News(news)
  <2>1. ASSUME NEW n \in news, ~n.high, NEW e \in logged, e.id = n.id PROVE FALSE
    BY <1>3, <1>4, <2>1 DEF IdsInv
  <2>2. QED
    BY <1>3, <1>4, <2>1 DEF News
<1>6. MemoryInv'
  BY <1>1, <1>2, <1>5, InsertKeeps
<1>7. ASSUME NEW e \in logged' \ logged PROVE e.id = id
  BY <1>1, <1>3, InsertedIds
<1>8. ASSUME NEW e \in logged', e.id[1] = "wake"
      PROVE  e.id[2] <= crashes /\ (e.id[2] = crashes => woken)
  BY <1>4, <1>7, <1>8 DEF IdsInv
<1>9. ASSUME NEW e \in logged', e.id[1] = "ignored"
      PROVE  box'[e.id[2]].status = "expired" /\ delivery'[e.id[2]] # "memory"
  <2>1. CASE e \in logged
    <3>1. e.id[2] \in Questions
      BY <1>9, <2>1, IdKinds DEF MemoryInv
    <3>2. QED
      BY <1>9, <2>1, <3>1 DEF IdsInv, MailEffect
  <2>2. CASE e \notin logged
    BY <1>4, <1>7, <1>9, <2>2
  <2>3. QED
    BY <2>1, <2>2
<1>10. IdsInv'
  BY <1>1, <1>8, <1>9 DEF IdsInv
<1>11. QED
  BY <1>6, <1>10

(* Every step keeps both invariants of the memory. *)
LEMMA MemoryStep ==
    ASSUME MailInv, MemoryInv, IdsInv, LettersNext
    PROVE  MemoryInv' /\ IdsInv'
<1>0. MailEffect
  BY MailStep
<1>1. ASSUME LogNothing, UNCHANGED crashes PROVE MemoryInv' /\ IdsInv'
  <2>1. UNCHANGED <<episodes, digests, semantic, logged, crashes, woken>>
    BY <1>1 DEF LogNothing, memoryVars
  <2>2. QED
    BY <1>0, <2>1, EpisodesIdle
<1>2. CASE DropQuestion
  <2>1. <<"thought", NoQuestion>> \in SalientIds
    BY NoIdTwice
  <2>2. crashes' = crashes /\ LogThought(<<"thought", NoQuestion>>)
    BY <1>2 DEF DropQuestion, clock
  <2>3. QED
    BY <1>0, <2>1, <2>2, ThoughtKeeps
<1>3. ASSUME NEW q \in Questions, AskQuestion(q) PROVE MemoryInv' /\ IdsInv'
  <2>1. <<"thought", q>> \in SalientIds
    BY NoIdTwice
  <2>2. crashes' = crashes /\ LogThought(<<"thought", q>>)
    BY <1>3 DEF AskQuestion, clock
  <2>3. QED
    BY <1>0, <2>1, <2>2, ThoughtKeeps
<1>4. ASSUME NEW q \in Questions, AnswerMailbag(q) PROVE MemoryInv' /\ IdsInv'
  BY <1>1, <1>4 DEF AnswerMailbag, AnswerQuestion, clock
<1>5. ASSUME NEW q \in Questions, DeliverMemory(q) PROVE MemoryInv' /\ IdsInv'
  <2>1. <<"answered", q>> \in SalientIds
    BY NoIdTwice
  <2>2. crashes' = crashes /\ LogEpisode(<<"answered", q>>, TRUE)
    BY <1>5 DEF DeliverMemory, clock
  <2>3. QED
    BY <1>0, <2>1, <2>2, EpisodeKeeps
<1>6. ASSUME NEW q \in Questions, DeliverSensation(q) \/ NoteAttention(q)
      PROVE  MemoryInv' /\ IdsInv'
  BY <1>1, <1>6 DEF DeliverSensation, NoteAttention, clock
<1>7. ASSUME NEW q \in Questions, LogIgnored(q) PROVE MemoryInv' /\ IdsInv'
  <2>1. /\ crashes' = crashes /\ LogEpisode(<<"ignored", q>>, FALSE)
        /\ box[q].status = "expired" /\ delivery[q] = "memory"
    BY <1>7 DEF LogIgnored, clock, Ignored
  <2>2. delivery'[q] # "memory"
    BY <1>7 DEF LogIgnored, MailInv
  <2>3. QED
    BY <1>0, <2>1, <2>2, EpisodeKeeps
<1>8. CASE Maintain
  <2>1. CASE MaintenanceDue
    <3>1. RunSummarizer /\ UNCHANGED <<logged, woken, crashes>>
      BY <1>8, <2>1 DEF Maintain, TickMaintenance, clock
    <3>2. MemoryInv'
      BY <3>1, NightKeeps
    <3>3. QED
      BY <1>0, <3>1, <3>2, IdsIdle
  <2>2. CASE ~MaintenanceDue
    BY <1>1, <1>8, <2>2 DEF Maintain, clock
  <2>3. QED
    BY <2>1, <2>2
<1>9. CASE Stamp
  BY <1>0, <1>9, EpisodesIdle DEF Stamp, StampRun, clock
<1>10. CASE SweepExpired \/ SweepRecaps \/ CompactRetention \/ TakeSnapshot \/ MaybeMorningNote
  BY <1>1, <1>10 DEF SweepExpired, SweepRecaps, CompactRetention, TakeSnapshot,
                     MaybeMorningNote, clock
<1>11. CASE OnUnlock \/ Boot \/ NextDay
  BY <1>1, <1>11 DEF OnUnlock, Boot, NextDay, clock
<1>12. CASE Crash
  BY <1>0, <1>12, EpisodesIdle DEF Crash, ForgetVolatile
<1>13. QED
  BY <1>2, <1>3, <1>4, <1>5, <1>6, <1>7, <1>8, <1>9, <1>10, <1>11, <1>12
     DEF LettersNext, Deliver, TickGoesOn

-----------------------------------------------------------------------------
(* The journal, step by step.                                              *)
LEMMA GenerateGrows ==
    ASSUME JournalInv, day \in Nat, day' = day, NEW quiet, MaybeGenerateRecap(quiet)
    PROVE  JournalInv' /\ RecapRowsStay
<1>1. AppendEvent(<<"recap">>, NoQuestion) \/ UNCHANGED records
  BY DEF MaybeGenerateRecap
<1>2. DOMAIN <<"recap">> = 1..1
  OBVIOUS
<1>3. QED
  BY <1>1, <1>2, AppendGrows, JournalIdle

(* Every step keeps the journal invariant and the recap rows. *)
LEMMA JournalStep ==
    ASSUME MailInv, JournalInv, LettersNext
    PROVE  JournalInv' /\ RecapRowsStay
<1>0. day \in Nat /\ day' \in {day, day + 1}
  BY MailStep DEF MailInv, MailEffect
<1>1. ASSUME NEW kind, NEW ref, AppendEvent(<<kind>>, ref), day' = day
      PROVE  JournalInv' /\ RecapRowsStay
  <2>1. DOMAIN <<kind>> = 1..1
    OBVIOUS
  <2>2. QED
    BY <1>0, <1>1, <2>1, AppendGrows
<1>2. CASE DropQuestion
  BY <1>1, <1>2 DEF DropQuestion, clock
<1>3. ASSUME NEW q \in Questions, AskQuestion(q) \/ DeliverSensation(q)
      PROVE  JournalInv' /\ RecapRowsStay
  BY <1>1, <1>3 DEF AskQuestion, DeliverSensation, clock
<1>4. ASSUME NEW q \in Questions, AnswerMailbag(q) PROVE JournalInv' /\ RecapRowsStay
  <2>1. AppendEvent(<<"loyalty", "answered">>, q) /\ day' = day
    BY <1>4 DEF AnswerMailbag, AnswerQuestion, clock
  <2>2. DOMAIN <<"loyalty", "answered">> = 1..2
    OBVIOUS
  <2>3. QED
    BY <1>0, <2>1, <2>2, AppendGrows
<1>5. ASSUME UNCHANGED records PROVE JournalInv' /\ RecapRowsStay
  BY <1>0, <1>5, JournalIdle
<1>6. ASSUME NEW q \in Questions, DeliverMemory(q) \/ NoteAttention(q) \/ LogIgnored(q)
      PROVE  JournalInv' /\ RecapRowsStay
  BY <1>5, <1>6 DEF DeliverMemory, NoteAttention, LogIgnored
<1>7. CASE SweepExpired
  <2>1. Overdue \in SUBSET Asked
    BY DEF Overdue, Pending, Asked
  <2>2. IsFiniteSet(Overdue)
    BY <2>1, FS_Subset DEF MailInv
  <2>3. day' = day
    BY <1>7 DEF SweepExpired, clock
  <2>4. QED
    BY <1>0, <1>7, <2>2, <2>3, SweepGrows
<1>8. CASE SweepRecaps
  BY <1>0, <1>8, GenerateGrows DEF SweepRecaps, clock
<1>9. CASE OnUnlock
  BY <1>0, <1>9, GenerateGrows DEF OnUnlock, clock
<1>10. CASE CompactRetention
  BY <1>0, <1>10, CompactGrows DEF CompactRetention, clock
<1>11. CASE TakeSnapshot
  BY <1>0, <1>11, SnapshotKeeps DEF TakeSnapshot, clock
<1>12. CASE Maintain \/ Stamp \/ MaybeMorningNote \/ Crash \/ Boot \/ NextDay
  BY <1>5, <1>12 DEF Maintain, Stamp, MaybeMorningNote, Crash, Boot, NextDay
<1>13. QED
  BY <1>2, <1>3, <1>4, <1>6, <1>7, <1>8, <1>9, <1>10, <1>11, <1>12
     DEF LettersNext, Deliver, TickGoesOn

-----------------------------------------------------------------------------
(* The recaps.                                                             *)
LEMMA LastIs ==
    ASSUME RecapsInv
    PROVE  LastRecap = heard.close
<1>1. CASE recaps = {}
  BY <1>1 DEF RecapsInv, LastRecap
<1>2. CASE recaps # {}
  <2> DEFINE ats == {r.at : r \in recaps}
  <2>1. heard.close \in Int /\ heard.close # Never
    BY <1>2 DEF RecapsInv
  <2>2. \A a \in ats : a \in 0..heard.close
    BY DEF RecapsInv
  <2>3. heard.close \in ats
    BY <2>1 DEF RecapsInv
  <2> HIDE DEF ats
  <2>4. \A a \in ats : a \in Int /\ a <= heard.close
    BY <2>1, <2>2
  <2>5. Newest(ats) \in ats /\ \A a \in ats : a <= Newest(ats)
    BY <2>3, <2>4 DEF Newest
  <2>6. Newest(ats) = heard.close
    BY <2>1, <2>3, <2>4, <2>5
  <2>7. QED
    BY <1>2, <2>6 DEF LastRecap, ats
<1>3. QED
  BY <1>1, <1>2

(* What a step that writes no recap leaves.                                *)
LEMMA NightIdle ==
    ASSUME MailInv, MailEffect, SourcesInv, RecapsInv, \A q \in Questions : ToldInv(q),
           UNCHANGED <<sources, recaps, heard>>, RecapRowsStay,
           stage' = "compact" => stage = "compact" /\ day' = day
    PROVE  SourcesInv' /\ RecapsInv' /\ \A q \in Questions : ToldInv(q)'
<1>1. day \in Nat /\ day' \in {day, day + 1}
  BY DEF MailInv, MailEffect
<1>2. 0..day \subseteq 0..day'
  BY <1>1
<1>3. SourcesInv'
  BY <1>2 DEF SourcesInv, MailEffect
<1>4. RecapsInv'
  <2>1. /\ heard' \in [told : [Questions -> Nat], open : Int, close : Int]
        /\ \A r \in recaps' : IsRecap(r) /\ r.at \in 0..heard'.close
        /\ heard'.close = Never => recaps' = {} /\ heard'.open = Never
    BY DEF RecapsInv
  <2>2. ASSUME heard'.close # Never
        PROVE  /\ heard'.close \in 0..day'
               /\ \E r \in recaps' : r.at = heard'.close
               /\ \E r \in journal' : r.kind = "recap" /\ r.at = heard'.close
    BY <1>2, <2>2 DEF RecapsInv, RecapRowsStay
  <2>3. stage' = "compact" /\ heard'.close # Never => day' - heard'.close < MinAge
    BY DEF RecapsInv
  <2>4. QED
    BY <2>1, <2>2, <2>3 DEF RecapsInv, IsRecap
<1>5. ASSUME NEW q \in Questions PROVE ToldInv(q)'
  <2>1. ToldInv(q)
    OBVIOUS
  <2>2. box'[q].status # "expired" => box[q].status # "expired"
    BY DEF MailEffect
  <2>3. QED
    BY <2>1, <2>2 DEF ToldInv
<1>6. QED
  BY <1>3, <1>4, <1>5

(* The sweep leaves a source for each letter it expires. *)
LEMMA SweepTells ==
    ASSUME MailInv, MailEffect, SourcesInv, RecapsInv, \A q \in Questions : ToldInv(q),
           SweepExpired, RecapRowsStay
    PROVE  SourcesInv' /\ RecapsInv' /\ \A q \in Questions : ToldInv(q)'
<1> DEFINE Source(q) == [kind |-> "unanswered", ref |-> q, at |-> day]
           news == {Source(q) : q \in Overdue}
<1>1. /\ sources' = sources \cup news /\ day' = day /\ day \in Nat
      /\ UNCHANGED <<recaps, heard>> /\ stage' = "ignored"
  BY DEF SweepExpired, clock, MailInv
<1>2. \A q \in Overdue : /\ q \in Questions /\ box[q].status = "pending"
                         /\ box'[q].status = "expired"
  BY DEF SweepExpired, Overdue, Pending, MailInv, BoxType
<1>3. \A s \in news : /\ s.ref \in Overdue /\ s.at = day /\ s = Source(s.ref)
  OBVIOUS
<1> HIDE DEF Source, news
<1>4. \A s \in sources : s.ref \notin Overdue
  BY <1>2 DEF SourcesInv
<1>5. SourcesInv'
  <2>1. \A s \in sources' : s.at \in 0..day'
    BY <1>1, <1>3 DEF SourcesInv
  <2>2. \A s \in sources' : s.ref \in Questions => box'[s.ref].status = "expired"
    BY <1>1, <1>2, <1>3 DEF SourcesInv, MailEffect
  <2>3. \A s, u \in sources' : s.ref = u.ref /\ s.ref \in Questions => s = u
    BY <1>1, <1>3, <1>4 DEF SourcesInv
  <2>4. QED
    BY <2>1, <2>2, <2>3 DEF SourcesInv
<1>6. RecapsInv'
  BY <1>1 DEF RecapsInv, RecapRowsStay, IsRecap
<1>7. ASSUME NEW q \in Questions PROVE ToldInv(q)'
  <2>1. ToldInv(q) /\ heard' = heard
    BY <1>1
  <2>2. box'[q].status # "expired" => box[q].status # "expired"
    BY DEF MailEffect
  <2>3. heard.close = Never \/ heard.close \in 0..day
    BY DEF RecapsInv
  <2>4. ASSUME NEW s \in news, s.ref = q
        PROVE  heard.told[q] = 0 /\ ~ (s.at < heard.close)
    <3>1. box[q].status = "pending" /\ s.at = day
      BY <1>2, <1>3, <2>4
    <3>2. heard.told[q] = 0
      BY <2>1, <3>1 DEF ToldInv
    <3>3. ~ (day < heard.close)
      BY <1>1, <2>3 DEF Never
    <3>4. QED
      BY <3>1, <3>2, <3>3
  <2>5. \A s \in sources' : s \in sources \/ s \in news
    BY <1>1
  <2>6. QED
    BY <2>1, <2>2, <2>4, <2>5 DEF ToldInv
<1>8. QED
  BY <1>5, <1>6, <1>7

(* What the recap of today finds of a question: its source, if it faded    *)
(* since the recap before.                                                 *)
Found(q) == {s \in SourcesIn(WindowStart, day) : s.ref = q}

(* A letter is found in one place at most. *)
LEMMA FoundOnce ==
    ASSUME SourcesInv, NEW q \in Questions
    PROVE  /\ Cardinality(Found(q)) \in {0, 1}
           /\ Cardinality(Found(q)) = 1 <=> \E s \in Found(q) : TRUE
<1>1. \A s, u \in Found(q) : s = u
  BY DEF SourcesInv, Found, SourcesIn
<1>2. CASE Found(q) = {}
  BY <1>2, FS_EmptySet
<1>3. CASE Found(q) # {}
  <2>1. PICK s : s \in Found(q)
    BY <1>3
  <2>2. Found(q) = {s}
    BY <1>1, <2>1
  <2>3. Cardinality(Found(q)) = 1
    BY <2>2, FS_Singleton
  <2>4. QED
    BY <2>1, <2>3
<1>4. QED
  BY <1>2, <1>3

(* A recap tells each source in its window and moves the window past it. *)
LEMMA RecapTells ==
    ASSUME MailInv, MailEffect, SourcesInv, RecapsInv, \A q \in Questions : ToldInv(q),
           day' = day, RecapRowsStay, UNCHANGED sources, JournalInv,
           NEW quiet, MaybeGenerateRecap(quiet),
           RecapDue /\ (quiet \/ JournalIn(WindowStart, day) # {}
                              \/ SourcesIn(WindowStart, day) # {})
    PROVE  SourcesInv' /\ RecapsInv' /\ \A q \in Questions : ToldInv(q)'
<1>1. PICK lines : recaps' = recaps \cup {[at |-> day, shown |-> FALSE, lines |-> lines]}
  BY DEF MaybeGenerateRecap
<1>2. /\ AppendEvent(<<"recap">>, NoQuestion)
      /\ heard' = [heard EXCEPT
           !.told = [q \in Questions |-> heard.told[q] + Cardinality(Found(q))],
           !.open = IF heard.open = Never THEN WindowStart ELSE heard.open,
           !.close = day]
  BY DEF MaybeGenerateRecap, Found
<1>3. heard \in [told : [Questions -> Nat], open : Int, close : Int]
  BY DEF RecapsInv
<1>4. /\ heard'.told = [q \in Questions |-> heard.told[q] + Cardinality(Found(q))]
      /\ heard'.open = IF heard.open = Never THEN WindowStart ELSE heard.open
      /\ heard'.close = day
  BY <1>2, <1>3
<1>5. day \in Nat /\ DefaultWindow \in Nat \ {0} /\ MinAge \in Nat \ {0}
  BY LetterConstants DEF MailInv
<1>6. /\ LastRecap = heard.close /\ (heard.close = Never \/ heard.close \in 0..day)
      /\ WindowStart \in Int
      /\ heard.close # Never => WindowStart = heard.close
  <2>1. LastRecap = heard.close
    BY LastIs
  <2>2. heard.close = Never \/ heard.close \in 0..day
    BY DEF RecapsInv
  <2>3. QED
    BY <1>5, <2>1, <2>2 DEF WindowStart
<1>7. \A q \in Questions :
        /\ Cardinality(Found(q)) \in {0, 1}
        /\ Cardinality(Found(q)) = 1 <=> \E s \in Found(q) : TRUE
  BY FoundOnce
<1>8. SourcesInv'
  BY DEF SourcesInv, MailEffect
<1>9. RecapsInv'
  <2>1. heard'.told \in [Questions -> Nat] /\ heard'.open \in Int /\ heard'.close \in Int
    BY <1>3, <1>4, <1>5, <1>6, <1>7
  <2>2. heard' \in [told : [Questions -> Nat], open : Int, close : Int]
    BY <1>2, <1>3, <2>1
  <2>3. ASSUME NEW r \in recaps' PROVE IsRecap(r) /\ r.at \in 0..day
    <3>1. CASE r \in recaps
      <4>1. IsRecap(r) /\ r.at \in 0..heard.close /\ heard.close # Never
        BY <3>1 DEF RecapsInv
      <4>2. QED
        BY <1>5, <1>6, <4>1
    <3>2. CASE r \notin recaps
      <4>1. r = [at |-> day, shown |-> FALSE, lines |-> lines]
        BY <1>1, <3>2
      <4>2. r.at = day /\ IsRecap(r)
        BY <4>1 DEF IsRecap
      <4>3. QED
        BY <1>5, <4>2
    <3>3. QED
      BY <3>1, <3>2
  <2>4. \E r \in recaps' : r.at = day
    <3>1. [at |-> day, shown |-> FALSE, lines |-> lines] \in recaps'
      BY <1>1
    <3>2. QED
      BY <3>1
  <2>5. \E r \in journal' : r.kind = "recap" /\ r.at = day
    <3> DEFINE kinds == <<"recap">>
    <3>1. /\ DOMAIN kinds = 1..1 /\ kinds[1] = "recap" /\ 1 \in 1..1 /\ 1 \in Nat
          /\ AppendEvent(kinds, NoQuestion)
      BY <1>2
    <3> HIDE DEF kinds
    <3>2. \A i \in 1..1 : \E r \in journal' : r.kind = kinds[i] /\ r.at = day
      BY <1>5, <3>1, AppendGrows
    <3>3. QED
      BY <3>1, <3>2
  <2>6. day # Never /\ day - day < MinAge
    BY <1>5 DEF Never
  <2>7. QED
    BY <1>4, <1>5, <2>2, <2>3, <2>4, <2>5, <2>6 DEF RecapsInv, IsRecap
<1>10. ASSUME NEW q \in Questions PROVE ToldInv(q)'
  <2>1. ToldInv(q)
    OBVIOUS
  <2>2. PICK c \in {0, 1} : c = Cardinality(Found(q))
    BY <1>7
  <2>3. PICK t \in {0, 1} : t = heard.told[q]
    BY <2>1 DEF ToldInv
  <2>4. heard'.told[q] = t + c
    BY <1>4, <2>2, <2>3
  <2>5. \A s \in Found(q) : s \in sources /\ s.ref = q /\ WindowStart <= s.at /\ s.at < day
    BY DEF Found, SourcesIn
  <2>6. \A s \in sources :
          s.ref = q /\ WindowStart <= s.at /\ s.at < day => s \in Found(q)
    BY DEF Found, SourcesIn
  <2>7. \A s \in sources : s.at \in 0..day
    BY DEF SourcesInv
  <2>8. \A s, u \in sources : s.ref = q /\ u.ref = q => s = u
    BY DEF SourcesInv
  <2>9. ~ (t = 1 /\ c = 1)
    <3>1. SUFFICES ASSUME t = 1, c = 1 PROVE FALSE
      OBVIOUS
    <3>2. PICK s \in Found(q) : TRUE
      BY <1>7, <2>2, <3>1
    <3>3. heard.close # Never /\ s.at < heard.close
      BY <2>1, <2>3, <2>5, <3>1, <3>2 DEF ToldInv
    <3>4. WindowStart = heard.close /\ heard.close \in 0..day
      BY <1>6, <3>3
    <3>5. s.at \in 0..day /\ heard.close <= s.at
      BY <2>5, <2>7, <3>2, <3>4
    <3>6. QED
      BY <3>3, <3>4, <3>5
  <2>10. heard'.told[q] \in {0, 1}
    BY <2>4, <2>9
  <2>11. heard'.close = Never \/ box'[q].status # "expired" => heard'.told[q] = 0
    <3>1. SUFFICES ASSUME box'[q].status # "expired" PROVE t = 0 /\ c = 0
      BY <1>4, <1>5, <2>4 DEF Never
    <3>2. box[q].status # "expired"
      BY <3>1 DEF MailEffect
    <3>3. t = 0
      BY <2>1, <2>3, <3>2 DEF ToldInv
    <3>4. ASSUME NEW s \in Found(q) PROVE FALSE
      BY <2>5, <3>2, <3>4 DEF SourcesInv
    <3>5. c = 0
      BY <1>7, <2>2, <3>4
    <3>6. QED
      BY <3>3, <3>5
  <2>12. ASSUME heard'.told[q] = 1, NEW s \in sources, s.ref = q PROVE s.at < day
    <3>1. CASE t = 1
      <4>1. s.at < heard.close /\ heard.close # Never
        BY <2>1, <2>3, <2>12, <3>1 DEF ToldInv
      <4>2. heard.close \in 0..day /\ s.at \in 0..day
        BY <1>6, <2>7, <4>1
      <4>3. QED
        BY <1>5, <4>1, <4>2
    <3>2. CASE c = 1
      <4>1. PICK u \in Found(q) : TRUE
        BY <1>7, <2>2, <3>2
      <4>2. u = s
        BY <2>5, <2>8, <2>12, <4>1
      <4>3. QED
        BY <2>5, <4>2
    <3>3. QED
      BY <2>4, <2>12, <3>1, <3>2
  <2>13. ASSUME NEW s \in sources, s.ref = q, heard'.open <= s.at, s.at < day
         PROVE  heard'.told[q] = 1
    <3>1. ASSUME WindowStart <= s.at PROVE heard'.told[q] = 1
      <4>1. s \in Found(q)
        BY <2>6, <2>13, <3>1
      <4>2. c = 1
        BY <1>7, <2>2, <4>1
      <4>3. QED
        BY <2>4, <2>9, <4>2
    <3>2. CASE heard.open = Never
      BY <1>4, <2>13, <3>1, <3>2
    <3>3. CASE heard.open # Never
      <4>1. heard.close # Never /\ heard.open <= s.at
        BY <1>4, <2>13, <3>3 DEF RecapsInv
      <4>2. WindowStart = heard.close /\ heard.close \in 0..day /\ s.at \in 0..day
        BY <1>6, <2>7, <4>1
      <4>3. CASE s.at < heard.close
        <5>1. t = 1
          BY <2>1, <2>3, <2>13, <4>1, <4>3 DEF ToldInv
        <5>2. QED
          BY <2>4, <2>9, <5>1
      <4>4. CASE heard.close <= s.at
        BY <3>1, <4>2, <4>4
      <4>5. QED
        BY <4>2, <4>3, <4>4
    <3>4. QED
      BY <3>2, <3>3
  <2>14. QED
    BY <1>4, <2>10, <2>11, <2>12, <2>13 DEF ToldInv
<1>11. QED
  BY <1>8, <1>9, <1>10

(* The hourly sweep of recaps keeps what was and will be told. *)
LEMMA SweepRecapsTells ==
    ASSUME MailInv, MailEffect, SourcesInv, RecapsInv, \A q \in Questions : ToldInv(q),
           RecapRowsStay, JournalInv, SweepRecaps
    PROVE  SourcesInv' /\ RecapsInv' /\ \A q \in Questions : ToldInv(q)'
<1>1. day' = day /\ MaybeGenerateRecap(FALSE)
  BY DEF SweepRecaps, clock
<1>2. UNCHANGED sources
  BY <1>1 DEF MaybeGenerateRecap
<1>3. CASE RecapDue /\ (JournalIn(WindowStart, day) # {} \/ SourcesIn(WindowStart, day) # {})
  BY <1>1, <1>2, <1>3, RecapTells
<1>4. CASE ~ (RecapDue /\ (JournalIn(WindowStart, day) # {} \/ SourcesIn(WindowStart, day) # {}))
  <2>1. UNCHANGED <<recaps, heard>>
    BY <1>1, <1>4 DEF MaybeGenerateRecap
  <2>2. ASSUME heard.close # Never PROVE day - heard.close < MinAge
    <3>1. SUFFICES ASSUME day - heard.close >= MinAge PROVE FALSE
      <4>1. heard.close \in Int /\ day \in Int /\ MinAge \in Int
        BY LetterConstants DEF RecapsInv, MailInv
      <4>2. QED
        BY <4>1
    <3>2. LastRecap = heard.close
      BY LastIs
    <3>3. RecapDue /\ WindowStart = heard.close
      BY <2>2, <3>1, <3>2 DEF RecapDue, WindowStart
    <3>4. PICK r \in journal : r.kind = "recap" /\ r.at = heard.close
      BY <2>2 DEF RecapsInv
    <3>5. heard.close \in Nat /\ heard.close < day
      BY <2>2, <3>1, LetterConstants DEF RecapsInv, MailInv
    <3>6. r \in JournalIn(WindowStart, day)
      BY <3>3, <3>4, <3>5 DEF JournalIn
    <3>7. QED
      BY <1>4, <3>3, <3>6
  <2>3. SourcesInv'
    BY <1>1, <1>2 DEF SourcesInv, MailEffect
  <2>4. RecapsInv'
    BY <1>1, <2>1, <2>2 DEF RecapsInv, RecapRowsStay, IsRecap
  <2>5. ASSUME NEW q \in Questions PROVE ToldInv(q)'
    <3>1. ToldInv(q)
      OBVIOUS
    <3>2. box'[q].status # "expired" => box[q].status # "expired"
      BY DEF MailEffect
    <3>3. QED
      BY <1>2, <2>1, <3>1, <3>2 DEF ToldInv
  <2>6. QED
    BY <2>3, <2>4, <2>5
<1>5. QED
  BY <1>3, <1>4

(* The recap made when the client unlocks keeps what was and will be told. *)
LEMMA UnlockTells ==
    ASSUME MailInv, MailEffect, SourcesInv, RecapsInv, \A q \in Questions : ToldInv(q),
           RecapRowsStay, JournalInv, OnUnlock
    PROVE  SourcesInv' /\ RecapsInv' /\ \A q \in Questions : ToldInv(q)'
<1>1. day' = day /\ MaybeGenerateRecap(TRUE) /\ stage' # "compact"
  BY DEF OnUnlock, clock
<1>2. UNCHANGED sources
  BY <1>1 DEF MaybeGenerateRecap
<1>3. CASE RecapDue
  BY <1>1, <1>2, <1>3, RecapTells
<1>4. CASE ~RecapDue
  <2>1. UNCHANGED <<recaps, heard>>
    BY <1>1, <1>4 DEF MaybeGenerateRecap
  <2>2. QED
    BY <1>1, <1>2, <2>1, NightIdle
<1>5. QED
  BY <1>3, <1>4

(* Retention keeps the newest recap, since it is not due when the night    *)
(* comes to retention.                                                     *)
LEMMA CompactTells ==
    ASSUME MailInv, MailEffect, SourcesInv, RecapsInv, \A q \in Questions : ToldInv(q),
           RecapRowsStay, CompactRetention
    PROVE  SourcesInv' /\ RecapsInv' /\ \A q \in Questions : ToldInv(q)'
<1>1. /\ day' = day /\ day \in Nat /\ UNCHANGED heard /\ stage = "compact" /\ stage' # "compact"
      /\ recaps' = {r \in recaps : r.at >= Cutoff} /\ CompactSources
  BY DEF CompactRetention, clock, MailInv
<1>2. ASSUME NEW s \in sources'
      PROVE  s \in sources \/ (s.at = day /\ s.ref \notin Questions)
  <2>1. CASE s \in sources
    BY <2>1
  <2>2. CASE s \notin sources
    <3>1. s = [kind |-> "rollup", ref |-> NoQuestion, at |-> day]
      BY <1>1, <2>2 DEF CompactSources
    <3>2. QED
      BY <3>1, LetterConstants
  <2>3. QED
    BY <2>1, <2>2
<1>3. SourcesInv'
  <2>1. \A s \in sources' : s.at \in 0..day'
    BY <1>1, <1>2 DEF SourcesInv
  <2>2. \A s \in sources' : s.ref \in Questions => s \in sources
    BY <1>2
  <2>3. QED
    BY <2>1, <2>2 DEF SourcesInv, MailEffect
<1>4. RecapsInv'
  <2>1. ASSUME heard.close # Never PROVE \E r \in recaps' : r.at = heard.close
    <3>1. PICK r \in recaps : r.at = heard.close
      BY <2>1 DEF RecapsInv
    <3>2. heard.close \in 0..day /\ day - heard.close < MinAge
      BY <1>1, <2>1 DEF RecapsInv
    <3>3. MinAge \in Nat /\ Retention \in Nat /\ MinAge <= Retention
      BY LetterConstants, RecapsOutlast
    <3>4. r.at >= Cutoff
      BY <1>1, <3>1, <3>2, <3>3 DEF Cutoff
    <3>5. QED
      BY <1>1, <3>1, <3>4
  <2>2. recaps' \subseteq recaps
    BY <1>1
  <2>3. QED
    BY <1>1, <2>1, <2>2 DEF RecapsInv, RecapRowsStay, IsRecap
<1>5. ASSUME NEW q \in Questions PROVE ToldInv(q)'
  <2>1. ToldInv(q)
    OBVIOUS
  <2>2. box'[q].status # "expired" => box[q].status # "expired"
    BY DEF MailEffect
  <2>3. \A s \in sources' : s.ref = q => s \in sources
    BY <1>2
  <2>4. QED
    BY <1>1, <2>1, <2>2, <2>3 DEF ToldInv
<1>6. QED
  BY <1>3, <1>4, <1>5

(* The morning note marks a recap and leaves its day.                      *)
LEMMA NoteTells ==
    ASSUME MailInv, MailEffect, SourcesInv, RecapsInv, \A q \in Questions : ToldInv(q),
           RecapRowsStay, MaybeMorningNote
    PROVE  SourcesInv' /\ RecapsInv' /\ \A q \in Questions : ToldInv(q)'
<1>1. day' = day /\ UNCHANGED <<sources, heard>> /\ stage' # "compact"
  BY DEF MaybeMorningNote, clock, night
<1>2. CASE Unshown = {}
  <2>1. UNCHANGED recaps
    BY <1>2 DEF MaybeMorningNote
  <2>2. QED
    BY <1>1, <2>1, NightIdle
<1>3. CASE Unshown # {}
  <2>1. FreshRecap \in recaps
    <3> DEFINE ats == {r.at : r \in Unshown}
               left == {day - a : a \in ats}
    <3>1. day \in Nat /\ (heard.close = Never \/ heard.close \in 0..day)
      BY DEF MailInv, RecapsInv
    <3>2. \A r \in Unshown : r \in recaps /\ r.at \in 0..day
      <4>1. ASSUME NEW r \in Unshown PROVE r \in recaps /\ r.at \in 0..heard.close
        BY DEF Unshown, RecapsInv
      <4>2. ASSUME NEW r \in Unshown PROVE heard.close # Never
        BY <4>1, <4>2 DEF RecapsInv
      <4>3. QED
        BY <3>1, <4>1, <4>2
    <3>3. left \subseteq Nat /\ left # {}
      BY <1>3, <3>1, <3>2
    <3>4. PICK n \in left : \A m \in left : n <= m
      BY <3>3, Least
    <3>5. PICK r \in Unshown : n = day - r.at
      BY <3>4
    <3>6. ASSUME NEW s \in Unshown PROVE s.at <= r.at
      <4>1. day - s.at \in left
        OBVIOUS
      <4>2. day - r.at <= day - s.at
        BY <3>4, <3>5, <4>1
      <4>3. QED
        BY <3>1, <3>2, <4>2
    <3>7. FreshRecap \in Unshown
      BY <3>5, <3>6 DEF FreshRecap
    <3>8. QED
      BY <3>2, <3>7
  <2>2. PICK fresh \in recaps : fresh = FreshRecap
    BY <2>1
  <2>3. recaps' = (recaps \ {fresh}) \cup {[fresh EXCEPT !.shown = TRUE]}
    BY <1>3, <2>2 DEF MaybeMorningNote
  <2>4. PICK seen : seen = [fresh EXCEPT !.shown = TRUE]
    OBVIOUS
  <2>5. fresh = [at |-> fresh.at, shown |-> fresh.shown, lines |-> fresh.lines]
    BY DEF RecapsInv, IsRecap
  <2>6. seen = [at |-> fresh.at, shown |-> TRUE, lines |-> fresh.lines]
    BY <2>4, <2>5
  <2>7. seen.at = fresh.at /\ IsRecap(seen)
    BY <2>6 DEF IsRecap
  <2>8. recaps' = (recaps \ {fresh}) \cup {seen}
    BY <2>3, <2>4
  <2>9. SourcesInv'
    BY <1>1 DEF SourcesInv, MailEffect
  <2>10. RecapsInv'
    <3>1. \A r \in recaps' : IsRecap(r) /\ r.at \in 0..heard.close
      BY <2>7, <2>8 DEF RecapsInv
    <3>2. \A r \in recaps : \E p \in recaps' : p.at = r.at
      BY <2>7, <2>8
    <3>3. recaps # {} /\ heard.close # Never
      BY <2>2 DEF RecapsInv
    <3>4. \E r \in recaps' : r.at = heard.close
      BY <3>2, <3>3 DEF RecapsInv
    <3>5. QED
      BY <1>1, <3>1, <3>3, <3>4 DEF RecapsInv, RecapRowsStay, IsRecap
  <2>11. ASSUME NEW q \in Questions PROVE ToldInv(q)'
    <3>1. ToldInv(q)
      OBVIOUS
    <3>2. box'[q].status # "expired" => box[q].status # "expired"
      BY DEF MailEffect
    <3>3. QED
      BY <1>1, <3>1, <3>2 DEF ToldInv
  <2>12. QED
    BY <2>9, <2>10, <2>11
<1>4. QED
  BY <1>2, <1>3

(* Every step keeps what was and will be told. *)
LEMMA TellsStep ==
    ASSUME LettersInv, LettersNext
    PROVE  SourcesInv' /\ RecapsInv' /\ \A q \in Questions : ToldInv(q)'
<1>1. /\ MailInv /\ JournalInv /\ SourcesInv /\ RecapsInv
      /\ \A q \in Questions : ToldInv(q)
  BY DEF LettersInv
<1>2. MailEffect /\ RecapRowsStay
  BY <1>1, MailStep, JournalStep
<1>3. ASSUME UNCHANGED <<sources, recaps, heard>>,
             stage' = "compact" => stage = "compact" /\ day' = day
      PROVE  SourcesInv' /\ RecapsInv' /\ \A q \in Questions : ToldInv(q)'
  BY <1>1, <1>2, <1>3, NightIdle
<1>4. CASE DropQuestion
  BY <1>3, <1>4 DEF DropQuestion, night, clock
<1>5. ASSUME NEW q \in Questions, AskQuestion(q) \/ AnswerMailbag(q)
      PROVE  SourcesInv' /\ RecapsInv' /\ \A p \in Questions : ToldInv(p)'
  BY <1>3, <1>5 DEF AskQuestion, AnswerMailbag, AnswerQuestion, night, clock
<1>6. ASSUME NEW q \in Questions, Deliver(q)
      PROVE  SourcesInv' /\ RecapsInv' /\ \A p \in Questions : ToldInv(p)'
  BY <1>3, <1>6 DEF Deliver, DeliverMemory, DeliverSensation, NoteAttention, LogIgnored,
                    night, clock
<1>7. CASE Maintain \/ Stamp \/ Crash \/ Boot \/ NextDay
  BY <1>3, <1>7 DEF Maintain, Stamp, Crash, Boot, NextDay, night, clock
<1>8. CASE TakeSnapshot
  BY <1>3, <1>8 DEF TakeSnapshot, night, clock
<1>9. CASE SweepExpired
  BY <1>1, <1>2, <1>9, SweepTells
<1>10. CASE SweepRecaps
  BY <1>1, <1>2, <1>10, SweepRecapsTells
<1>11. CASE OnUnlock
  BY <1>1, <1>2, <1>11, UnlockTells
<1>12. CASE CompactRetention
  BY <1>1, <1>2, <1>12, CompactTells
<1>13. CASE MaybeMorningNote
  BY <1>1, <1>2, <1>13, NoteTells
<1>14. QED
  BY <1>4, <1>5, <1>6, <1>7, <1>8, <1>9, <1>10, <1>11, <1>12, <1>13
     DEF LettersNext, TickGoesOn

(* The letters start in the invariant. *)
LEMMA LettersStart == LettersInit => LettersInv
<1> SUFFICES ASSUME LettersInit PROVE LettersInv
  OBVIOUS
<1>1. MailInv
  <2>1. Asked = {} /\ IsFiniteSet({})
    BY FS_EmptySet DEF LettersInit, Asked
  <2>2. QED
    BY <2>1 DEF LettersInit, MemoryInit, MailInv, BoxType
<1>2. MemoryInv /\ IdsInv
  BY DEF LettersInit, MemoryInit, MemoryInv, IdsInv
<1>3. JournalInv /\ SourcesInv
  BY DEF LettersInit, JournalInv, SourcesInv
<1>4. RecapsInv /\ \A q \in Questions : ToldInv(q)
  <2>1. /\ heard = [told |-> [q \in Questions |-> 0], open |-> Never, close |-> Never]
        /\ recaps = {} /\ sources = {} /\ Never \in Int
    BY DEF LettersInit, Never
  <2>2. /\ heard \in [told : [Questions -> Nat], open : Int, close : Int]
        /\ heard.close = Never /\ heard.open = Never
        /\ \A q \in Questions : heard.told[q] = 0
    BY <2>1
  <2>3. QED
    BY <2>1, <2>2 DEF RecapsInv, ToldInv
<1>5. QED
  BY <1>1, <1>2, <1>3, <1>4 DEF LettersInv

(* Every step keeps the invariant of the letters. *)
LEMMA LettersStep == LettersInv /\ [LettersNext]_letterVars => LettersInv'
<1> SUFFICES ASSUME LettersInv, [LettersNext]_letterVars PROVE LettersInv'
  OBVIOUS
<1>1. CASE LettersNext
  <2>1. MailInv /\ MemoryInv /\ IdsInv /\ JournalInv
    BY DEF LettersInv
  <2>2. MailInv' /\ MemoryInv' /\ IdsInv' /\ JournalInv'
    BY <1>1, <2>1, MailStep, MemoryStep, JournalStep
  <2>3. QED
    BY <1>1, <2>2, TellsStep DEF LettersInv
<1>2. CASE UNCHANGED letterVars
  <2>1. UNCHANGED <<clock, memoryVars, box, delivery, journal, head, snaps, sources, recaps,
                    stage, heard>>
    BY <1>2 DEF letterVars
  <2>2. \A e : (Raw(e)' <=> Raw(e)) /\ (Folded(e)' <=> Folded(e))
    BY <2>1 DEF Raw, Folded, memoryVars
  <2>3. MemoryInv' /\ IdsInv'
    BY <2>1, <2>2 DEF LettersInv, MemoryInv, IdsInv, memoryVars, clock
  <2>4. MailInv' /\ JournalInv' /\ SourcesInv'
    BY <2>1 DEF LettersInv, MailInv, Asked, JournalInv, SourcesInv, clock
  <2>5. RecapsInv' /\ \A q \in Questions : ToldInv(q)'
    BY <2>1 DEF LettersInv, RecapsInv, IsRecap, ToldInv, clock
  <2>6. QED
    BY <2>3, <2>4, <2>5 DEF LettersInv
<1>3. QED
  BY <1>1, <1>2

(* Every reachable state of the letters satisfies the invariant. *)
LEMMA LettersAlways == LettersSpec => []LettersInv
<1>1. LettersInit => LettersInv
  BY LettersStart
<1>2. LettersInv /\ [LettersNext]_letterVars => LettersInv'
  BY LettersStep
<1>3. QED
  BY <1>1, <1>2, PTL DEF LettersSpec

-----------------------------------------------------------------------------
(* memory.py:12-17, 430-436: whatever nights are repeated after a crash or *)
(* come days late, every dull episode of the soul is raw or told once in   *)
(* the digest of its own week, and every salient one is in the store that  *)
(* recall reads.                                                           *)
THEOREM NothingForgotten == LettersSpec => []Remembered
<1>1. LettersInv => Remembered
  BY MemoryRemembers DEF LettersInv
<1>2. QED
  BY <1>1, LettersAlways, PTL

(* recap.py:58-60, persistence.journal_continuous: retention rolls up rows *)
(* and deletes them, and still every retained snapshot has the whole of    *)
(* the journal behind it, whatever number of snapshots is kept.            *)
THEOREM TailsStayGapless == LettersSpec => []TailIsGapless
<1>1. LettersInv => TailIsGapless
  BY TailsAreGapless DEF LettersInv
<1>2. QED
  BY <1>1, LettersAlways, PTL

(* recap.py:25, mailbag.py:52: a question that faded is told by one recap, *)
(* for any age of a recap, window, retention and order of unlocks, sweeps, *)
(* compactions and crashes: the newest recap and its row of the journal    *)
(* are never compacted, so that the next window starts where it ended.     *)
THEOREM FadedToldOnce == LettersSpec => []ToldOnce
<1>1. ASSUME LettersInv PROVE ToldOnce
  <2>1. \A q \in Questions : ToldInv(q)
    BY <1>1 DEF LettersInv
  <2>2. QED
    BY <2>1 DEF ToldOnce, ToldInv
<1>2. QED
  BY <1>1, LettersAlways, PTL

-----------------------------------------------------------------------------
(* A value that is worked out step by step exists, and stays in S.         *)
Iterates(f, base, step, N) ==
    f = [n \in 0..N |-> IF n = 0 THEN base ELSE step[n][f[n - 1]]]

(* What is worked out in N steps of S can be worked out.                   *)
LEMMA IteratesExist ==
    ASSUME NEW S, NEW base \in S, NEW N \in Nat, NEW step \in [1..N -> [S -> S]]
    PROVE  \E f \in [0..N -> S] : Iterates(f, base, step, N)
<1> DEFINE C == {n \in 0..N : ~ \E f \in [0..n -> S] : Iterates(f, base, step, n)}
<1> SUFFICES ASSUME C # {} PROVE FALSE
  <2>1. N \in 0..N
    OBVIOUS
  <2> QED
    BY <2>1
<1>1. PICK n \in C : \A m \in C : n <= m
  <2>1. C \subseteq Nat
    OBVIOUS
  <2> HIDE DEF C
  <2> QED
    BY <2>1, Least
<1>2. n \in 0..N /\ ~ \E f \in [0..n -> S] : Iterates(f, base, step, n)
  OBVIOUS
<1>3. CASE n = 0
  <2> DEFINE f == [m \in 0..0 |-> base]
  <2>1. f \in [0..0 -> S] /\ Iterates(f, base, step, 0)
    BY DEF Iterates
  <2> QED
    BY <1>2, <1>3, <2>1
<1>4. CASE n # 0
  <2>1. n - 1 \in 0..N /\ n - 1 \notin C /\ n \in 1..N
    BY <1>1, <1>2, <1>4
  <2>2. PICK g \in [0..(n - 1) -> S] : Iterates(g, base, step, n - 1)
    BY <2>1
  <2> DEFINE f == [m \in 0..n |-> IF m = n THEN step[n][g[n - 1]] ELSE g[m]]
  <2>3. f \in [0..n -> S]
    BY <2>1
  <2>4. ASSUME NEW m \in 0..n
        PROVE  f[m] = IF m = 0 THEN base ELSE step[m][f[m - 1]]
    <3>1. CASE m = n
      BY <2>1, <3>1, <1>4
    <3>2. CASE m # n
      <4>1. m \in 0..(n - 1)
        BY <3>2, <1>2
      <4>2. g[m] = IF m = 0 THEN base ELSE step[m][g[m - 1]]
        BY <4>1, <2>2 DEF Iterates
      <4>3. m # 0 => m - 1 \in 0..n /\ m - 1 # n
        BY <4>1, <1>2
      <4> QED
        BY <3>2, <4>2, <4>3
    <3> QED
      BY <3>1, <3>2
  <2>5. Iterates(f, base, step, n)
    <3> HIDE DEF f
    <3>1. f = [m \in 0..n |-> f[m]]
      BY <2>3
    <3> QED
      BY <2>4, <3>1 DEF Iterates
  <2> QED
    BY <1>2, <2>3, <2>5
<1> QED
  BY <1>3, <1>4

(* SetToSeq enumerates a finite set. *)
LEMMA SetToSeqTyped ==
    ASSUME NEW S, IsFiniteSet(S)
    PROVE  /\ SetToSeq(S) \in Seq(S) /\ SetToSeq(S) \in [1..Cardinality(S) -> S]
           /\ Cardinality(S) \in Nat /\ DOMAIN SetToSeq(S) = 1..Cardinality(S)
<1>1. Cardinality(S) \in Nat /\ \E f : f \in Bijection(1..Cardinality(S), S)
  BY FS_CardinalityType DEF ExistsBijection
<1>2. PICK f : f \in Bijection(1..Cardinality(S), S)
  BY <1>1
<1>3. f \in [1..Cardinality(S) -> S] /\ IsInjective(f)
  BY <1>2 DEF Bijection, Injection, IsInjective
<1>4. SetToSeq(S) \in [1..Cardinality(S) -> S]
  BY <1>3, Zenon DEF SetToSeq
<1> QED
  BY <1>1, <1>4

(* What Among keeps of a sequence: members of T, all of them, each as      *)
(* often as it stands there.                                               *)
PickedUpTo(p, q, T, n) ==
    /\ \A i \in 1..Len(p) : p[i] \in T /\ \E k \in 1..n : p[i] = q[k]
    /\ \A k \in 1..n : q[k] \in T => \E i \in 1..Len(p) : p[i] = q[k]
    /\ (\A j, k \in 1..n : q[j] = q[k] => j = k)
          => \A i, j \in 1..Len(p) : p[i] = p[j] => i = j

(* Looking at one more member of q leaves what is picked right.            *)
LEMMA PickedOne ==
    ASSUME NEW A, NEW q \in Seq(A), NEW T, NEW n \in 1..Len(q), NEW p \in Seq(A),
           PickedUpTo(p, q, T, n - 1)
    PROVE  PickedUpTo(IF q[n] \in T THEN Append(p, q[n]) ELSE p, q, T, n)
<1>1. n \in Nat /\ n - 1 \in Nat /\ 1..n = (1..(n - 1)) \cup {n} /\ n \notin 1..(n - 1)
  OBVIOUS
<1>2. Len(p) \in Nat
  OBVIOUS
<1>3. CASE q[n] \notin T
  BY <1>1, <1>3 DEF PickedUpTo
<1>4. CASE q[n] \in T
  <2> DEFINE r == Append(p, q[n])
  <2>1. /\ Len(r) = Len(p) + 1 /\ r[Len(p) + 1] = q[n]
        /\ \A i \in 1..Len(p) : r[i] = p[i]
        /\ 1..Len(r) = (1..Len(p)) \cup {Len(p) + 1}
    OBVIOUS
  <2> HIDE DEF r
  <2>2. \A i \in 1..Len(r) : r[i] \in T /\ \E k \in 1..n : r[i] = q[k]
    <3>1. \A k \in 1..(n - 1) : k \in 1..n
      BY <1>1
    <3>2. \A i \in 1..Len(p) : p[i] \in T /\ \E k \in 1..n : p[i] = q[k]
      BY <3>1 DEF PickedUpTo
    <3>3. n \in 1..n
      BY <1>1
    <3> QED
      BY <1>4, <2>1, <3>2, <3>3
  <2>3. \A k \in 1..n : q[k] \in T => \E i \in 1..Len(r) : r[i] = q[k]
    BY <1>1, <1>2, <2>1 DEF PickedUpTo
  <2>4. ASSUME \A j, k \in 1..n : q[j] = q[k] => j = k,
               NEW i \in 1..Len(r), NEW j \in 1..Len(r), r[i] = r[j]
        PROVE  i = j
    <3>1. \A l \in 1..Len(p) : r[l] # q[n]
      BY <1>1, <2>1, <2>4 DEF PickedUpTo
    <3>2. \A l, m \in 1..Len(p) : p[l] = p[m] => l = m
      BY <1>1, <2>4 DEF PickedUpTo
    <3> QED
      BY <1>2, <2>1, <2>4, <3>1, <3>2
  <2>5. PickedUpTo(r, q, T, n)
    BY <2>2, <2>3, <2>4 DEF PickedUpTo
  <2> QED
    BY <1>4, <2>5 DEF r
<1> QED
  BY <1>3, <1>4

(* Among returns the members that are in T, each once, in the order they   *)
(* have in q.                                                              *)
LEMMA AmongKeeps ==
    ASSUME NEW A, NEW q \in Seq(A), NEW T
    PROVE  Among(q, T) \in Seq(A) /\ PickedUpTo(Among(q, T), q, T, Len(q))
<1> DEFINE N == Len(q)
           step == [n \in 1..N |->
                      [p \in Seq(A) |-> IF q[n] \in T THEN Append(p, q[n]) ELSE p]]
           Picks(f) == f = [n \in 0..N |->
                              IF n = 0 THEN <<>>
                              ELSE IF q[n] \in T THEN Append(f[n - 1], q[n]) ELSE f[n - 1]]
<1>1. N \in Nat /\ <<>> \in Seq(A) /\ \A n \in 1..N : q[n] \in A
  OBVIOUS
<1>2. step \in [1..N -> [Seq(A) -> Seq(A)]]
  <2>1. ASSUME NEW n \in 1..N, NEW p \in Seq(A)
        PROVE  (IF q[n] \in T THEN Append(p, q[n]) ELSE p) \in Seq(A)
    BY <1>1
  <2> QED
    BY <2>1
<1> HIDE DEF N
<1>3. \E f \in [0..N -> Seq(A)] : Picks(f)
  <2> HIDE DEF step
  <2>1. PICK f \in [0..N -> Seq(A)] : Iterates(f, <<>>, step, N)
    BY <1>1, <1>2, IteratesExist
  <2>2. f[0] = <<>> /\ \A n \in 1..N : f[n] = step[n][f[n - 1]]
    <3>1. N \in Nat
      BY <1>1
    <3>2. f = [n \in 0..N |-> IF n = 0 THEN <<>> ELSE step[n][f[n - 1]]]
      BY <2>1 DEF Iterates
    <3>3. 0 \in 0..N /\ \A n \in 1..N : n \in 0..N /\ n # 0
      BY <3>1
    <3> QED
      BY <3>2, <3>3
  <2>3. ASSUME NEW n \in 1..N
        PROVE  f[n] = IF q[n] \in T THEN Append(f[n - 1], q[n]) ELSE f[n - 1]
    <3>1. f[n - 1] \in Seq(A)
      BY <1>1
    <3> QED
      BY <2>2, <3>1 DEF step
  <2>4. f = [n \in 0..N |-> f[n]]
    OBVIOUS
  <2>5. \A n \in 0..N : n = 0 \/ n \in 1..N
    BY <1>1
  <2>6. \A n \in 0..N : f[n] = IF n = 0 THEN <<>>
                               ELSE IF q[n] \in T THEN Append(f[n - 1], q[n]) ELSE f[n - 1]
    BY <2>2, <2>3, <2>5
  <2> QED
    BY <2>4, <2>6
<1>4. PICK f : /\ Among(q, T) = f[N] /\ f[0] = <<>>
               /\ \A n \in 1..N : f[n] = IF q[n] \in T THEN Append(f[n - 1], q[n]) ELSE f[n - 1]
  <2>1. Among(q, T) = (CHOOSE f : Picks(f))[N]
    BY DEF Among, N
  <2>2. PICK f : Picks(f) /\ Among(q, T) = f[N]
    <3> HIDE DEF Picks
    <3> QED
      BY <1>3, <2>1
  <2>3. 0 \in 0..N /\ \A n \in 1..N : n \in 0..N /\ n # 0
    BY <1>1
  <2> QED
    BY <2>2, <2>3
<1> DEFINE C == {n \in 0..N : ~ (f[n] \in Seq(A) /\ PickedUpTo(f[n], q, T, n))}
<1>5. C = {}
  <2> SUFFICES ASSUME C # {} PROVE FALSE
    OBVIOUS
  <2>1. PICK n \in C : \A m \in C : n <= m
    <3>1. C \subseteq Nat
      OBVIOUS
    <3> HIDE DEF C
    <3> QED
      BY <3>1, Least
  <2>2. CASE n = 0
    <3>1. f[n] = <<>> /\ <<>> \in Seq(A)
      BY <1>1, <1>4, <2>2
    <3>2. PickedUpTo(<<>>, q, T, 0)
      BY DEF PickedUpTo
    <3>3. f[n] \in Seq(A) /\ PickedUpTo(f[n], q, T, n)
      BY <2>2, <3>1, <3>2
    <3> QED
      BY <3>3
  <2>3. CASE n # 0
    <3>1. n \in 1..N /\ n - 1 \in 0..N /\ n - 1 \notin C
      BY <1>1, <2>1, <2>3
    <3>2. f[n - 1] \in Seq(A) /\ PickedUpTo(f[n - 1], q, T, n - 1)
      BY <3>1
    <3>3. f[n] = IF q[n] \in T THEN Append(f[n - 1], q[n]) ELSE f[n - 1]
      BY <1>4, <3>1
    <3>4. f[n] \in Seq(A)
      BY <1>1, <3>1, <3>2, <3>3
    <3>5. PickedUpTo(f[n], q, T, n)
      BY <3>1, <3>2, <3>3, PickedOne DEF N
    <3> QED
      BY <3>4, <3>5
  <2> QED
    BY <2>2, <2>3
<1>6. N \in 0..N
  BY <1>1
<1>7. f[N] \in Seq(A) /\ PickedUpTo(f[N], q, T, N)
  BY <1>5, <1>6
<1> QED
  BY <1>4, <1>7 DEF N

-----------------------------------------------------------------------------
(* The types.                                                              *)

Ids == Nat \X Nat
Partial(V) == UNION {[T -> V] : T \in SUBSET Souls}
OpType ==
    [op : {"upsert", "remove", "bubble", "abroad", "abroad_end"}, soul : Souls,
     domain : {"", "move", "economy"} \cup Streams, value : Int, snap : BOOLEAN]
LastingOp == {o \in OpType : o.op # "bubble"}
RingType == [seq : Nat, id : Ids, ops : Seq(LastingOp)]
DeltaType == [kind : {"delta"}, seq : Nat, id : Ids, ops : Seq(OpType)]
LookType == [Domains -> Partial({0, 1})]
SnapshotType ==
    [kind : {"snapshot"}, seq : Nat, at : Partial(Places), look : LookType,
     abroad : SUBSET Souls, wallets : [Souls -> {0, 1}]]
SeenType == [at : Partial(Places), look : LookType, abroad : SUBSET Souls]
SessionType ==
    [seq : Nat, ring : Seq(RingType), live : BOOLEAN, kept : BOOLEAN, slow : 0..MaxSlow,
     at : Partial(Places), look : LookType, abroad : SUBSET Souls,
     moves : Partial(LastingOp), queue : Seq(OpType),
     sent : SUBSET Ids, crossed : BOOLEAN, after : 0..MaxConns,
     veiled : SUBSET Souls]
ViewType ==
    [track : Partial(Int), look : [Domains -> Partial(Int)], abroad : SUBSET Souls,
     wallet : Partial(Int), bubbles : Nat]

(* The bubbles of a sequence of ops. *)
Says(ops) == {i \in 1..Len(ops) : ops[i].op = "bubble"}
Once(ops) == \A i, j \in Says(ops) : i = j
Quiet(ops) == Says(ops) = {}

(* The assumption on the constants, one fact for each.                     *)
LEMMA Constants ==
    /\ IsFiniteSet(Souls) /\ Domains \subseteq Streams
    /\ LastPlace \in Nat /\ MoveEpsilon \in Nat /\ SnapJump \in Nat
    /\ MaxChanges \in Nat /\ MaxLosses \in Nat /\ Window \in Nat
    /\ HighWater \in Nat \ {0} /\ MaxSlow \in Nat \ {0} /\ RingSize \in Nat \ {0}
    /\ MaxConns \in Nat \ {0}
BY ViewportConstants

(* Tables of some of the souls. *)
LEMMA PartialIs ==
    ASSUME NEW V, NEW f
    PROVE  f \in Partial(V) <=> \E T \in SUBSET Souls : f \in [T -> V]
BY DEF Partial

(* What a function from some of the souls to V is and gives.               *)
LEMMA PartialAt ==
    ASSUME NEW V, NEW f \in Partial(V)
    PROVE  /\ DOMAIN f \subseteq Souls /\ IsFiniteSet(DOMAIN f)
           /\ f \in [DOMAIN f -> V] /\ \A s \in DOMAIN f : f[s] \in V
<1>1. PICK T \in SUBSET Souls : f \in [T -> V]
  BY PartialIs
<1>2. IsFiniteSet(T)
  BY Constants, FS_Subset
<1> QED
  BY <1>1, <1>2

(* A function on a set of souls is one of them.                            *)
LEMMA PartialBuilt ==
    ASSUME NEW V, NEW T \in SUBSET Souls, NEW f \in [T -> V]
    PROVE  f \in Partial(V)
BY PartialIs

(* Forgetting souls keeps the type.                                        *)
LEMMA WithoutTyped ==
    ASSUME NEW V, NEW f \in Partial(V), NEW S
    PROVE  Without(f, S) \in Partial(V)
<1>1. DOMAIN f \ S \in SUBSET Souls /\ Without(f, S) \in [DOMAIN f \ S -> V]
  BY PartialAt DEF Without
<1> QED
  BY <1>1, PartialBuilt

(* Setting what is known of one soul keeps the type.                       *)
LEMMA WithTyped ==
    ASSUME NEW V, NEW f \in Partial(V), NEW s \in Souls, NEW v \in V
    PROVE  With(f, s, v) \in Partial(V)
<1>1. DOMAIN f \cup {s} \in SUBSET Souls /\ With(f, s, v) \in [DOMAIN f \cup {s} -> V]
  BY PartialAt DEF With
<1> QED
  BY <1>1, PartialBuilt

(* Nothing known is of every type.                                         *)
LEMMA NoneTyped ==
    ASSUME NEW V PROVE None \in Partial(V)
<1>1. None \in [{} -> V]
  BY DEF None
<1> QED
  BY <1>1, PartialIs

(* What an op does to what the client shows. *)
LEMMA ApplyOpTyped ==
    ASSUME NEW w \in ViewType, NEW o \in OpType
    PROVE  /\ ApplyOp(w, o) \in ViewType
           /\ ApplyOp(w, o).bubbles = IF o.op = "bubble" THEN w.bubbles + 1 ELSE w.bubbles
<1>1. /\ w.track \in Partial(Int) /\ w.wallet \in Partial(Int) /\ w.abroad \subseteq Souls
      /\ w.look \in [Domains -> Partial(Int)] /\ w.bubbles \in Nat
      /\ o.soul \in Souls /\ o.value \in Int
      /\ o.op \in {"upsert", "remove", "bubble", "abroad", "abroad_end"}
  BY DEF ViewType, OpType
<1>2. \A d \in Domains : \A S : Without(w.look[d], S) \in Partial(Int)
  BY <1>1, WithoutTyped
<1>3. \A S : Without(w.track, S) \in Partial(Int) /\ Without(w.wallet, S) \in Partial(Int)
  BY <1>1, WithoutTyped
<1>4. CASE o.op = "remove"
  BY <1>1, <1>2, <1>3, <1>4 DEF ApplyOp, ViewType
<1>5. CASE o.op = "abroad_end"
  BY <1>1, <1>5 DEF ApplyOp, ViewType
<1>6. CASE o.op = "abroad"
  BY <1>1, <1>2, <1>3, <1>6 DEF ApplyOp, ViewType
<1>7. CASE o.op = "bubble"
  BY <1>1, <1>7 DEF ApplyOp, ViewType
<1>8. CASE o.op = "upsert" /\ o.domain = "move"
  <2>1. With(w.track, o.soul, o.value) \in Partial(Int)
    BY <1>1, WithTyped
  <2> QED
    BY <1>1, <1>8, <2>1 DEF ApplyOp, ViewType
<1>9. CASE o.op = "upsert" /\ o.domain = "economy"
  <2>1. With(w.wallet, o.soul, o.value) \in Partial(Int)
    BY <1>1, WithTyped
  <2> QED
    BY <1>1, <1>9, <2>1 DEF ApplyOp, ViewType
<1>10. CASE o.op = "upsert" /\ o.domain \notin {"move", "economy"}
  <2>1. \A d \in Domains : With(w.look[d], o.soul, o.value) \in Partial(Int)
    BY <1>1, WithTyped
  <2>2. ApplyOp(w, o) = [w EXCEPT !.look[o.domain] = With(@, o.soul, o.value)]
    BY <1>10 DEF ApplyOp
  <2>3. [w.look EXCEPT ![o.domain] = With(@, o.soul, o.value)] \in [Domains -> Partial(Int)]
    BY <1>1, <2>1
  <2> QED
    BY <1>1, <1>10, <2>2, <2>3 DEF ViewType
<1> QED
  BY <1>1, <1>4, <1>5, <1>6, <1>7, <1>8, <1>9, <1>10

(* A delta adds one to the bubbles shown if it has one, and none otherwise. *)
LEMMA ApplyDeltaTyped ==
    ASSUME NEW w \in ViewType, NEW ops \in Seq(OpType)
    PROVE  /\ ApplyDelta(w, ops) \in ViewType
           /\ Quiet(ops) => ApplyDelta(w, ops).bubbles = w.bubbles
           /\ Once(ops) /\ ~Quiet(ops) => ApplyDelta(w, ops).bubbles = w.bubbles + 1
<1> DEFINE N == Len(ops)
           step == [n \in 1..N |-> [v \in ViewType |-> ApplyOp(v, ops[n])]]
           Applies(f) == f = [n \in 0..N |-> IF n = 0 THEN w ELSE ApplyOp(f[n - 1], ops[n])]
<1>1. N \in Nat /\ \A n \in 1..N : ops[n] \in OpType
  OBVIOUS
<1> HIDE DEF N
<1>2. step \in [1..N -> [ViewType -> ViewType]]
  BY <1>1, ApplyOpTyped
<1>3. \E f \in [0..N -> ViewType] : Applies(f)
  <2> HIDE DEF step
  <2>1. PICK f \in [0..N -> ViewType] : Iterates(f, w, step, N)
    BY <1>1, <1>2, IteratesExist
  <2>2. f[0] = w /\ \A n \in 1..N : f[n] = step[n][f[n - 1]]
    <3>2. f = [n \in 0..N |-> IF n = 0 THEN w ELSE step[n][f[n - 1]]]
      BY <2>1 DEF Iterates
    <3>3. 0 \in 0..N /\ \A n \in 1..N : n \in 0..N /\ n # 0
      BY <1>1
    <3> QED
      BY <3>2, <3>3
  <2>3. ASSUME NEW n \in 1..N
        PROVE  f[n] = ApplyOp(f[n - 1], ops[n])
    <3>1. f[n - 1] \in ViewType
      BY <1>1
    <3> QED
      BY <2>2, <3>1 DEF step
  <2>4. f = [n \in 0..N |-> f[n]]
    OBVIOUS
  <2>5. \A n \in 0..N : n = 0 \/ n \in 1..N
    BY <1>1
  <2>6. \A n \in 0..N : f[n] = IF n = 0 THEN w ELSE ApplyOp(f[n - 1], ops[n])
    BY <2>2, <2>3, <2>5
  <2> QED
    BY <2>4, <2>6
<1>4. PICK f : /\ ApplyDelta(w, ops) = f[N] /\ f[0] = w
               /\ \A n \in 1..N : f[n] = ApplyOp(f[n - 1], ops[n])
  <2>1. ApplyDelta(w, ops) = (CHOOSE f : Applies(f))[N]
    BY DEF ApplyDelta, N
  <2>2. PICK f : Applies(f) /\ ApplyDelta(w, ops) = f[N]
    <3> HIDE DEF Applies
    <3> QED
      BY <1>3, <2>1
  <2>3. 0 \in 0..N /\ \A n \in 1..N : n \in 0..N /\ n # 0
    BY <1>1
  <2> QED
    BY <2>2, <2>3
<1> DEFINE Shows(n) ==
              /\ f[n] \in ViewType
              /\ (\A i \in 1..n : i \notin Says(ops)) => f[n].bubbles = w.bubbles
              /\ Once(ops) /\ (\E i \in 1..n : i \in Says(ops)) => f[n].bubbles = w.bubbles + 1
           C == {n \in 0..N : ~Shows(n)}
<1>5. C = {}
  <2> SUFFICES ASSUME C # {} PROVE FALSE
    OBVIOUS
  <2>1. PICK n \in C : \A m \in C : n <= m
    <3>1. C \subseteq Nat
      OBVIOUS
    <3> HIDE DEF C
    <3> QED
      BY <3>1, Least
  <2>2. n = 0 => Shows(n)
    BY <1>4
  <2>3. ASSUME n # 0 PROVE Shows(n)
    <3>1. n \in 1..N /\ n - 1 \in 0..N /\ n - 1 \notin C /\ n \in Nat
      BY <1>1, <2>1, <2>3
    <3>2. Shows(n - 1)
      BY <3>1
    <3>3. f[n] = ApplyOp(f[n - 1], ops[n])
      BY <1>4, <3>1
    <3>4. /\ f[n] \in ViewType
          /\ f[n].bubbles = IF ops[n].op = "bubble" THEN f[n - 1].bubbles + 1
                            ELSE f[n - 1].bubbles
      <4>1. f[n - 1] \in ViewType /\ ops[n] \in OpType
        BY <1>1, <3>1, <3>2
      <4>2. ApplyOp(f[n - 1], ops[n]) \in ViewType
            /\ ApplyOp(f[n - 1], ops[n]).bubbles =
                 IF ops[n].op = "bubble" THEN f[n - 1].bubbles + 1 ELSE f[n - 1].bubbles
        BY <4>1, ApplyOpTyped
      <4> QED
        BY <3>3, <4>2
    <3>5. /\ n \in Says(ops) <=> ops[n].op = "bubble"
          /\ \A i \in 1..n : i = n \/ i \in 1..(n - 1)
          /\ \A i \in 1..(n - 1) : i \in 1..n /\ i # n
          /\ n \in 1..n
      BY <3>1 DEF Says, N
    <3>6. w.bubbles \in Nat
      BY DEF ViewType
    <3>7. (\A i \in 1..n : i \notin Says(ops)) => f[n].bubbles = w.bubbles
      BY <3>2, <3>4, <3>5
    <3>8. ASSUME Once(ops), NEW i \in 1..n, i \in Says(ops)
          PROVE  f[n].bubbles = w.bubbles + 1
      <4>1. CASE i = n
        <5>1. \A j \in 1..(n - 1) : j \notin Says(ops)
          BY <3>5, <3>8, <4>1 DEF Once
        <5> QED
          BY <3>2, <3>4, <3>5, <3>8, <4>1, <5>1
      <4>2. CASE i # n
        <5>1. i \in 1..(n - 1) /\ n \notin Says(ops)
          BY <3>5, <3>8, <4>2 DEF Once
        <5> QED
          BY <3>2, <3>4, <3>5, <3>8, <5>1
      <4> QED
        BY <4>1, <4>2
    <3> QED
      BY <3>4, <3>7, <3>8
  <2>4. ~Shows(n)
    OBVIOUS
  <2> QED
    BY <2>2, <2>3, <2>4
<1>6. N \in 0..N
  BY <1>1
<1>7. Shows(N)
  BY <1>5, <1>6
<1>8. Says(ops) \subseteq 1..N
  BY DEF Says, N
<1> QED
  BY <1>4, <1>7, <1>8 DEF Quiet

-----------------------------------------------------------------------------
(* The ops.                                                                *)

(* The ops the diffs make are lasting ones.                                *)
LEMMA OpTyped ==
    ASSUME NEW s \in Souls, NEW x \in Int,
           NEW kind \in {"upsert", "remove", "abroad", "abroad_end"},
           NEW d \in {"", "move", "economy"} \cup Streams
    PROVE  Op(kind, s, d, x) \in LastingOp
BY DEF Op, LastingOp, OpType

(* Each kind of op is a lasting one.                                       *)
LEMMA OpsTyped ==
    ASSUME NEW s \in Souls
    PROVE  /\ RemoveOp(s) \in LastingOp /\ AbroadOp(s) \in LastingOp
           /\ AbroadEndOp(s) \in LastingOp
           /\ \A p \in Int : \A far \in BOOLEAN : MoveOp(s, p, far) \in LastingOp
           /\ \A x \in Int : /\ EconomyOp(s, x) \in LastingOp /\ StateOp(s, x) \in LastingOp
                             /\ DormancyOp(s, x) \in LastingOp
                             /\ BiologyOp(s, x) \in LastingOp
                             /\ IdentityOp(s, x) \in LastingOp
<1>1. /\ RemoveOp(s) \in LastingOp /\ AbroadOp(s) \in LastingOp
      /\ AbroadEndOp(s) \in LastingOp
  <2>1. 0 \in Int /\ "" \in {"", "move", "economy"} \cup Streams
        /\ {"remove", "abroad", "abroad_end"} \subseteq {"upsert", "remove", "abroad", "abroad_end"}
    OBVIOUS
  <2> QED
    BY <2>1, OpTyped DEF RemoveOp, AbroadOp, AbroadEndOp
<1>2. ASSUME NEW p \in Int, NEW far \in BOOLEAN PROVE MoveOp(s, p, far) \in LastingOp
  <2>1. Op("upsert", s, "move", p) \in LastingOp
    BY OpTyped
  <2> QED
    BY <2>1 DEF MoveOp, LastingOp, OpType
<1>3. {"state", "dormancy", "biology", "identity", "economy"}
        \subseteq {"", "move", "economy"} \cup Streams
  BY DEF Streams
<1>4. ASSUME NEW x \in Int
      PROVE  /\ EconomyOp(s, x) \in LastingOp /\ StateOp(s, x) \in LastingOp
             /\ DormancyOp(s, x) \in LastingOp /\ BiologyOp(s, x) \in LastingOp
             /\ IdentityOp(s, x) \in LastingOp
  BY <1>3, OpTyped DEF EconomyOp, StateOp, DormancyOp, BiologyOp, IdentityOp
<1> QED
  BY <1>1, <1>2, <1>4

(* Lasting ops are the ops that are no bubbles.                            *)
LEMMA LastingIsOp == LastingOp \subseteq OpType /\ \A o \in LastingOp : o.op # "bubble"
BY DEF LastingOp

(* One op for each element of a finite set. *)
LEMMA EachTyped ==
    ASSUME NEW S, IsFiniteSet(S), NEW V, NEW g, DOMAIN g = DOMAIN SetToSeq(S),
           g = [i \in DOMAIN SetToSeq(S) |-> g[i]],
           \A i \in DOMAIN SetToSeq(S) : SetToSeq(S)[i] \in S => g[i] \in V
    PROVE  g \in Seq(V)
<1>1. /\ Cardinality(S) \in Nat /\ DOMAIN SetToSeq(S) = 1..Cardinality(S)
      /\ \A i \in DOMAIN SetToSeq(S) : SetToSeq(S)[i] \in S
  BY SetToSeqTyped
<1> QED
  BY <1>1

(* Ops that say only that a soul is gone, away or back. *)
LEMMA RemovesTyped ==
    ASSUME NEW S \in SUBSET Souls PROVE Each(S, RemoveOp) \in Seq(LastingOp)
<1> DEFINE g == [i \in DOMAIN SetToSeq(S) |-> RemoveOp(SetToSeq(S)[i])]
<1>1. IsFiniteSet(S)
  BY Constants, FS_Subset
<1>2. \A i \in DOMAIN SetToSeq(S) : SetToSeq(S)[i] \in S => g[i] \in LastingOp
  BY OpsTyped
<1>3. g \in Seq(LastingOp)
  BY <1>1, <1>2, EachTyped
<1> QED
  BY <1>3 DEF Each

(* The ops that tell who is abroad are lasting ones.                       *)
LEMMA AbroadsTyped ==
    ASSUME NEW S \in SUBSET Souls PROVE Each(S, AbroadOp) \in Seq(LastingOp)
<1> DEFINE g == [i \in DOMAIN SetToSeq(S) |-> AbroadOp(SetToSeq(S)[i])]
<1>1. IsFiniteSet(S)
  BY Constants, FS_Subset
<1>2. \A i \in DOMAIN SetToSeq(S) : SetToSeq(S)[i] \in S => g[i] \in LastingOp
  BY OpsTyped
<1>3. g \in Seq(LastingOp)
  BY <1>1, <1>2, EachTyped
<1> QED
  BY <1>3 DEF Each

(* The ops that tell who came back are lasting ones.                       *)
LEMMA AbroadEndsTyped ==
    ASSUME NEW S \in SUBSET Souls PROVE Each(S, AbroadEndOp) \in Seq(LastingOp)
<1> DEFINE g == [i \in DOMAIN SetToSeq(S) |-> AbroadEndOp(SetToSeq(S)[i])]
<1>1. IsFiniteSet(S)
  BY Constants, FS_Subset
<1>2. \A i \in DOMAIN SetToSeq(S) : SetToSeq(S)[i] \in S => g[i] \in LastingOp
  BY OpsTyped
<1>3. g \in Seq(LastingOp)
  BY <1>1, <1>2, EachTyped
<1> QED
  BY <1>3 DEF Each

(* The souls whose look changed are at home, and so is their look. *)
LEMMA ChangedIn ==
    ASSUME NEW look \in LookType, NEW told, NEW d
    PROVE  /\ Changed(d, look, told) \in SUBSET Souls
           /\ IsFiniteSet(Changed(d, look, told))
           /\ \A s \in Changed(d, look, told) : look[d][s] \in Int
<1>1. CASE d \in Domains
  <2>1. look[d] \in Partial({0, 1})
    BY <1>1 DEF LookType
  <2>2. /\ DOMAIN look[d] \subseteq Souls
        /\ \A s \in DOMAIN look[d] : look[d][s] \in {0, 1}
    BY <2>1, PartialAt
  <2>3. Changed(d, look, told) \subseteq DOMAIN look[d]
    BY <1>1 DEF Changed
  <2>4. IsFiniteSet(Changed(d, look, told))
    BY <2>2, <2>3, Constants, FS_Subset
  <2> QED
    BY <2>2, <2>3, <2>4
<1>2. CASE d \notin Domains
  BY <1>2, FS_EmptySet DEF Changed
<1> QED
  BY <1>1, <1>2

(* diff_states makes lasting ops.                                          *)
LEMMA DiffStatesTyped ==
    ASSUME NEW look \in LookType, NEW told
    PROVE  DiffStates(look, told) \in Seq(LastingOp)
<1> DEFINE S == Changed("state", look, told)
           g == [i \in DOMAIN SetToSeq(S) |->
                   StateOp(SetToSeq(S)[i], look["state"][SetToSeq(S)[i]])]
<1>1. S \in SUBSET Souls /\ IsFiniteSet(S) /\ \A s \in S : look["state"][s] \in Int
  BY ChangedIn
<1>2. DiffStates(look, told) = g
  BY DEF DiffStates, Each
<1> HIDE DEF S
<1>3. \A i \in DOMAIN SetToSeq(S) : SetToSeq(S)[i] \in S => g[i] \in LastingOp
  BY <1>1, OpsTyped
<1>4. g \in Seq(LastingOp)
  BY <1>1, <1>3, EachTyped
<1> QED
  BY <1>2, <1>4

(* diff_dormancy makes lasting ops.                                        *)
LEMMA DiffDormancyTyped ==
    ASSUME NEW look \in LookType, NEW told
    PROVE  DiffDormancy(look, told) \in Seq(LastingOp)
<1> DEFINE S == Changed("dormancy", look, told)
           g == [i \in DOMAIN SetToSeq(S) |->
                   DormancyOp(SetToSeq(S)[i], look["dormancy"][SetToSeq(S)[i]])]
<1>1. S \in SUBSET Souls /\ IsFiniteSet(S) /\ \A s \in S : look["dormancy"][s] \in Int
  BY ChangedIn
<1>2. DiffDormancy(look, told) = g
  BY DEF DiffDormancy, Each
<1> HIDE DEF S
<1>3. \A i \in DOMAIN SetToSeq(S) : SetToSeq(S)[i] \in S => g[i] \in LastingOp
  BY <1>1, OpsTyped
<1>4. g \in Seq(LastingOp)
  BY <1>1, <1>3, EachTyped
<1> QED
  BY <1>2, <1>4

(* diff_biology makes lasting ops.                                         *)
LEMMA DiffBiologyTyped ==
    ASSUME NEW look \in LookType, NEW told
    PROVE  DiffBiology(look, told) \in Seq(LastingOp)
<1> DEFINE S == Changed("biology", look, told)
           g == [i \in DOMAIN SetToSeq(S) |->
                   BiologyOp(SetToSeq(S)[i], look["biology"][SetToSeq(S)[i]])]
<1>1. S \in SUBSET Souls /\ IsFiniteSet(S) /\ \A s \in S : look["biology"][s] \in Int
  BY ChangedIn
<1>2. DiffBiology(look, told) = g
  BY DEF DiffBiology, Each
<1> HIDE DEF S
<1>3. \A i \in DOMAIN SetToSeq(S) : SetToSeq(S)[i] \in S => g[i] \in LastingOp
  BY <1>1, OpsTyped
<1>4. g \in Seq(LastingOp)
  BY <1>1, <1>3, EachTyped
<1> QED
  BY <1>2, <1>4

(* diff_identities makes lasting ops.                                      *)
LEMMA DiffIdentitiesTyped ==
    ASSUME NEW look \in LookType, NEW told
    PROVE  DiffIdentities(look, told) \in Seq(LastingOp)
<1> DEFINE S == Changed("identity", look, told)
           g == [i \in DOMAIN SetToSeq(S) |->
                   IdentityOp(SetToSeq(S)[i], look["identity"][SetToSeq(S)[i]])]
<1>1. S \in SUBSET Souls /\ IsFiniteSet(S) /\ \A s \in S : look["identity"][s] \in Int
  BY ChangedIn
<1>2. DiffIdentities(look, told) = g
  BY DEF DiffIdentities, Each
<1> HIDE DEF S
<1>3. \A i \in DOMAIN SetToSeq(S) : SetToSeq(S)[i] \in S => g[i] \in LastingOp
  BY <1>1, OpsTyped
<1>4. g \in Seq(LastingOp)
  BY <1>1, <1>3, EachTyped
<1> QED
  BY <1>2, <1>4

(* What a diff queues has no bubble. *)
LEMMA DiffedTyped ==
    ASSUME NEW v \in SessionType, NEW seen \in SeenType
    PROVE  \E ops \in Seq(LastingOp), moves \in Partial(LastingOp) :
              Diffed(v, seen) = [v EXCEPT !.queue = @ \o ops, !.moves = moves,
                                          !.abroad = seen.abroad]
<1>1. /\ seen.at \in Partial(Places) /\ seen.look \in LookType /\ seen.abroad \subseteq Souls
      /\ v.at \in Partial(Places) /\ v.look \in LookType /\ v.abroad \subseteq Souls
      /\ v.moves \in Partial(LastingOp) /\ v.queue \in Seq(OpType)
  BY DEF SeenType, SessionType
<1> DEFINE diff == DiffPositions(seen.at, v.at)
           ops == diff.removes \o DiffStates(seen.look, v.look) \o DiffDormancy(seen.look, v.look)
                    \o DiffBiology(seen.look, v.look) \o DiffIdentities(seen.look, v.look)
                    \o DiffAbroad(seen.abroad, v.abroad)
           moves == Coalesced(v.moves, diff.moves)
<1>2. diff.removes \in Seq(LastingOp)
  <2>1. DOMAIN v.at \ DOMAIN seen.at \in SUBSET Souls
    BY <1>1, PartialAt
  <2> QED
    BY <2>1, RemovesTyped DEF DiffPositions
<1>3. diff.moves \in Partial(LastingOp)
  <2> DEFINE fresh == DOMAIN seen.at \ DOMAIN v.at
             moved == {s \in DOMAIN seen.at \cap DOMAIN v.at :
                          Span(seen.at[s], v.at[s]) > MoveEpsilon}
             far(s) == s \in fresh \/ Span(seen.at[s], v.at[s]) > SnapJump
             ms == [s \in fresh \cup moved |-> MoveOp(s, seen.at[s], far(s))]
  <2>1. /\ DOMAIN seen.at \subseteq Souls
        /\ \A s \in DOMAIN seen.at : seen.at[s] \in Int
    BY <1>1, PartialAt, Constants DEF Places
  <2>2. diff.moves = ms
    BY DEF DiffPositions
  <2>3. fresh \cup moved \subseteq DOMAIN seen.at
    OBVIOUS
  <2> HIDE DEF fresh, moved
  <2>4. \A s \in fresh \cup moved : far(s) \in BOOLEAN
    OBVIOUS
  <2> HIDE DEF far
  <2>5. \A s \in fresh \cup moved : MoveOp(s, seen.at[s], far(s)) \in LastingOp
    BY <2>1, <2>3, <2>4, OpsTyped
  <2>6. ms \in [fresh \cup moved -> LastingOp] /\ fresh \cup moved \in SUBSET Souls
    BY <2>1, <2>3, <2>5
  <2> HIDE DEF ms
  <2> QED
    BY <2>2, <2>6, PartialBuilt
<1>4. DiffAbroad(seen.abroad, v.abroad) \in Seq(LastingOp)
  <2>1. seen.abroad \ v.abroad \in SUBSET Souls /\ v.abroad \ seen.abroad \in SUBSET Souls
    BY <1>1
  <2> QED
    BY <2>1, AbroadsTyped, AbroadEndsTyped DEF DiffAbroad
<1>5. Diffed(v, seen) = [v EXCEPT !.queue = @ \o ops, !.moves = moves, !.abroad = seen.abroad]
  BY DEF Diffed, Enqueued, SessionType
<1> HIDE DEF diff
<1>6. ops \in Seq(LastingOp)
  <2>1. /\ DiffStates(seen.look, v.look) \in Seq(LastingOp)
        /\ DiffDormancy(seen.look, v.look) \in Seq(LastingOp)
        /\ DiffBiology(seen.look, v.look) \in Seq(LastingOp)
        /\ DiffIdentities(seen.look, v.look) \in Seq(LastingOp)
    BY <1>1, DiffStatesTyped, DiffDormancyTyped, DiffBiologyTyped, DiffIdentitiesTyped
  <2> QED
    BY <1>2, <1>4, <2>1
<1>7. moves \in Partial(LastingOp)
  <2> DEFINE both == DOMAIN v.moves \cup DOMAIN diff.moves
             late(s) == diff.moves[s].snap \/ (s \in DOMAIN v.moves /\ v.moves[s].snap)
  <2>1. both \in SUBSET Souls
    BY <1>1, <1>3, PartialAt
  <2>2. \A s \in DOMAIN v.moves : v.moves[s] \in LastingOp
    BY <1>1, PartialAt
  <2>3. \A s \in DOMAIN diff.moves : diff.moves[s] \in LastingOp
    BY <1>3, PartialAt
  <2>4. \A s \in both : moves[s] \in LastingOp
    <3> SUFFICES ASSUME NEW s \in both PROVE moves[s] \in LastingOp
      OBVIOUS
    <3>1. CASE s \notin DOMAIN diff.moves
      BY <2>2, <3>1 DEF Coalesced
    <3>2. CASE s \in DOMAIN diff.moves
      <4>1. moves[s] = [diff.moves[s] EXCEPT !.snap = late(s)]
        BY <3>2 DEF Coalesced
      <4>2. late(s) \in BOOLEAN
        OBVIOUS
      <4> HIDE DEF late
      <4>3. diff.moves[s] \in LastingOp
        BY <2>3, <3>2
      <4> QED
        BY <4>1, <4>2, <4>3 DEF LastingOp, OpType
    <3> QED
      BY <3>1, <3>2
  <2>5. moves = [s \in both |-> moves[s]]
    BY DEF Coalesced
  <2> HIDE DEF both, moves
  <2>6. moves \in [both -> LastingOp]
    BY <2>4, <2>5
  <2> QED
    BY <2>1, <2>6, PartialBuilt
<1> HIDE DEF ops, moves
<1> QED
  BY <1>5, <1>6, <1>7

(* A flush takes the queue and the waiting moves. *)
LEMMA TakePendingTyped ==
    ASSUME NEW v \in SessionType
    PROVE  \E ops \in Seq(LastingOp) : TakePending(v) = v.queue \o ops
<1> DEFINE S == DOMAIN v.moves
           g == [i \in DOMAIN SetToSeq(S) |-> v.moves[SetToSeq(S)[i]]]
<1>1. v.moves \in Partial(LastingOp)
  BY DEF SessionType
<1>2. IsFiniteSet(S) /\ \A s \in S : v.moves[s] \in LastingOp
  BY <1>1, PartialAt
<1>3. TakePending(v) = v.queue \o g
  BY DEF TakePending, Each
<1> HIDE DEF S
<1>4. \A i \in DOMAIN SetToSeq(S) : SetToSeq(S)[i] \in S => g[i] \in LastingOp
  BY <1>2
<1>5. g \in Seq(LastingOp)
  BY <1>2, <1>4, EachTyped
<1> QED
  BY <1>3, <1>5

(* Ops that are no bubble change nothing about the bubbles of a queue. *)
LEMMA SaysAfter ==
    ASSUME NEW q \in Seq(OpType), NEW r \in Seq(LastingOp)
    PROVE  /\ q \o r \in Seq(OpType) /\ Says(q \o r) = Says(q)
           /\ \A i \in Says(q) : (q \o r)[i] = q[i]
<1>1. r \in Seq(OpType) /\ Len(q) \in Nat /\ Len(r) \in Nat
  BY LastingIsOp
<1>2. q \o r \in Seq(OpType) /\ Len(q \o r) = Len(q) + Len(r)
  BY <1>1
<1>3. \A i \in 1..Len(q) : (q \o r)[i] = q[i]
  BY <1>1
<1>4. \A i \in 1..Len(q \o r) : i \notin 1..Len(q) => (q \o r)[i].op # "bubble"
  <2> SUFFICES ASSUME NEW i \in 1..Len(q \o r), i \notin 1..Len(q)
               PROVE  (q \o r)[i].op # "bubble"
    OBVIOUS
  <2>1. (q \o r)[i] = r[i - Len(q)] /\ i - Len(q) \in 1..Len(r)
    BY <1>1, <1>2
  <2> QED
    BY <2>1, LastingIsOp
<1>5. \A i \in 1..Len(q) : i \in 1..Len(q \o r)
  BY <1>1, <1>2
<1> QED
  BY <1>2, <1>3, <1>4, <1>5 DEF Says

-----------------------------------------------------------------------------
(* The sessions.                                                           *)

(* The fields of a session.                                                *)
LEMMA SessionParts ==
    ASSUME NEW v \in SessionType
    PROVE  /\ v.seq \in Nat /\ v.ring \in Seq(RingType) /\ v.live \in BOOLEAN
           /\ v.kept \in BOOLEAN /\ v.slow \in 0..MaxSlow /\ v.at \in Partial(Places)
           /\ v.look \in LookType /\ v.abroad \in SUBSET Souls
           /\ v.moves \in Partial(LastingOp) /\ v.queue \in Seq(OpType)
           /\ v.sent \in SUBSET Ids /\ v.crossed \in BOOLEAN /\ v.after \in 0..MaxConns
           /\ v.veiled \in SUBSET Souls
BY DEF SessionType

(* A session that begins and one that is not there.                        *)
LEMMA EmptyTyped ==
    /\ NewSession \in SessionType /\ NoSession \in SessionType
    /\ NewSession.live /\ NewSession.kept /\ ~NoSession.live /\ ~NoSession.kept
    /\ \A v \in {NewSession, NoSession} :
         /\ v.seq = 0 /\ v.ring = <<>> /\ v.slow = 0 /\ v.moves = None /\ v.queue = <<>>
         /\ v.sent = {} /\ v.after = 0
<1>1. None \in Partial(Places) /\ None \in Partial({0, 1}) /\ None \in Partial(LastingOp)
  BY NoneTyped
<1>2. 0 \in 0..MaxSlow /\ 0 \in 0..MaxConns
  BY Constants
<1>3. [d \in Domains |-> None] \in LookType
  BY <1>1 DEF LookType
<1>4. NewSession \in SessionType
  BY <1>1, <1>2, <1>3 DEF NewSession, SessionType
<1>5. NoSession \in SessionType
  BY <1>4 DEF NoSession, SessionType
<1>6. /\ NewSession.live /\ NewSession.kept
      /\ NewSession.seq = 0 /\ NewSession.ring = <<>> /\ NewSession.slow = 0
      /\ NewSession.moves = None /\ NewSession.queue = <<>>
      /\ NewSession.sent = {} /\ NewSession.after = 0
  BY DEF NewSession
<1>7. /\ ~NoSession.live /\ ~NoSession.kept
      /\ NoSession.seq = 0 /\ NoSession.ring = <<>> /\ NoSession.slow = 0
      /\ NoSession.moves = None /\ NoSession.queue = <<>>
      /\ NoSession.sent = {} /\ NoSession.after = 0
  BY <1>4, <1>6 DEF NoSession, SessionType
<1> QED
  BY <1>4, <1>5, <1>6, <1>7

(* What is enqueued goes to the end of the queue.                          *)
LEMMA EnqueuedTyped ==
    ASSUME NEW v \in SessionType, NEW ops \in Seq(OpType)
    PROVE  /\ Enqueued(v, ops) \in SessionType
           /\ Enqueued(v, ops) = [v EXCEPT !.queue = v.queue \o ops]
           /\ v.queue \o ops \in Seq(OpType)
<1>1. v.queue \o ops \in Seq(OpType)
  BY SessionParts
<1> QED
  BY <1>1 DEF Enqueued, SessionType

(* What the ring keeps of a frame.                                         *)
LEMMA LastingTyped ==
    ASSUME NEW ops \in Seq(OpType)
    PROVE  Lasting(ops) \in Seq(LastingOp)
<1> DEFINE T == {o \in Range(ops) : o.op # "bubble"}
           p == Among(ops, T)
<1>1. p \in Seq(OpType) /\ PickedUpTo(p, ops, T, Len(ops))
  BY AmongKeeps
<1>2. \A i \in 1..Len(p) : p[i] \in T
  BY <1>1 DEF PickedUpTo
<1>3. \A i \in 1..Len(p) : p[i] \in LastingOp
  BY <1>1, <1>2 DEF LastingOp
<1>4. p \in Seq(LastingOp)
  BY <1>1, <1>3
<1> QED
  BY <1>4 DEF Lasting

(* A ring takes an entry, and drops its oldest when it is full. *)
LEMMA RingedIs ==
    ASSUME NEW ring \in Seq(RingType), NEW e \in RingType, Len(ring) <= RingSize
    PROVE  /\ Ringed(ring, e) \in Seq(RingType) /\ Len(Ringed(ring, e)) \in 1..RingSize
           /\ \/ Ringed(ring, e) = Append(ring, e)
              \/ Len(ring) >= 1 /\ Ringed(ring, e) = Append(Tail(ring), e)
<1>1. RingSize \in Nat \ {0} /\ Len(ring) \in Nat
  BY Constants
<1>2. Append(ring, e) \in Seq(RingType) /\ Len(Append(ring, e)) = Len(ring) + 1
  OBVIOUS
<1>3. CASE Len(Append(ring, e)) > RingSize
  <2>1. Len(ring) >= 1
    BY <1>1, <1>2, <1>3
  <2>2. ring # <<>>
    BY <2>1
  <2>3. /\ Tail(Append(ring, e)) = Append(Tail(ring), e)
        /\ Tail(Append(ring, e)) \in Seq(RingType)
        /\ Len(Tail(Append(ring, e))) = Len(ring)
    <3>1. Tail(Append(ring, e)) = Append(Tail(ring), e)
      BY <2>2, HeadTailAppend
    <3>2. Tail(ring) \in Seq(RingType) /\ Len(Tail(ring)) = Len(ring) - 1
      BY <2>2
    <3>3. Append(Tail(ring), e) \in Seq(RingType) /\ Len(Append(Tail(ring), e)) = Len(ring)
      BY <1>1, <3>2
    <3> QED
      BY <3>1, <3>3
  <2> QED
    BY <1>1, <1>3, <2>1, <2>3 DEF Ringed
<1>4. CASE ~(Len(Append(ring, e)) > RingSize)
  BY <1>1, <1>2, <1>4 DEF Ringed
<1> QED
  BY <1>3, <1>4

RingEntry(f) == [seq |-> f.seq, id |-> f.id, ops |-> Lasting(f.ops)]

(* A frame that is logged is in the ring and counts as sent.               *)
LEMMA LoggedTyped ==
    ASSUME NEW v \in SessionType, Len(v.ring) <= RingSize,
           NEW f, f.seq \in Nat, f.id \in Ids, f.ops \in Seq(OpType)
    PROVE  /\ Logged(v, f) = [v EXCEPT !.ring = Ringed(v.ring, RingEntry(f)),
                                       !.sent = v.sent \cup {f.id}]
           /\ RingEntry(f) \in RingType /\ Logged(v, f) \in SessionType
           /\ Len(Ringed(v.ring, RingEntry(f))) <= RingSize
<1>1. RingEntry(f) \in RingType
  BY LastingTyped DEF RingEntry, RingType
<1>2. /\ v.ring \in Seq(RingType) /\ v.sent \in SUBSET Ids
  BY SessionParts
<1>3. Logged(v, f) = [v EXCEPT !.ring = Ringed(v.ring, RingEntry(f)), !.sent = v.sent \cup {f.id}]
  BY DEF Logged, RingEntry, SessionType
<1>4. Ringed(v.ring, RingEntry(f)) \in Seq(RingType) /\ Len(Ringed(v.ring, RingEntry(f))) \in 1..RingSize
  BY <1>1, <1>2, RingedIs
<1>5. Logged(v, f) \in SessionType
  <2>1. v.sent \cup {f.id} \in SUBSET Ids
    BY <1>2
  <2> QED
    BY <1>3, <1>4, <2>1, SessionParts DEF SessionType
<1>6. Len(Ringed(v.ring, RingEntry(f))) <= RingSize
  BY <1>4
<1> QED
  BY <1>1, <1>3, <1>5, <1>6

(* A frame takes one number.                                               *)
LEMMA NumberedTyped ==
    ASSUME NEW v \in SessionType
    PROVE  /\ Numbered(v) \in SessionType /\ Numbered(v) = [v EXCEPT !.seq = v.seq + 1]
BY SMTT(30), SessionParts DEF Numbered, SessionType

(* What a finished flush leaves in the session.                            *)
LEMMA CommittedTyped ==
    ASSUME NEW v \in SessionType, Len(v.ring) <= RingSize, NEW f \in DeltaType,
           NEW seen \in SeenType
    PROVE  /\ Committed(v, f, seen) \in SessionType
           /\ Committed(v, f, seen) =
                [v EXCEPT !.ring = Ringed(v.ring, RingEntry(f)), !.sent = v.sent \cup {f.id},
                          !.seq = v.seq + 1, !.at = seen.at, !.look = seen.look, !.slow = 0]
           /\ RingEntry(f) \in RingType /\ Len(Ringed(v.ring, RingEntry(f))) <= RingSize
<1>1. f.seq \in Nat /\ f.id \in Ids /\ f.ops \in Seq(OpType)
  BY DEF DeltaType
<1>2. /\ Logged(v, f) = [v EXCEPT !.ring = Ringed(v.ring, RingEntry(f)), !.sent = v.sent \cup {f.id}]
      /\ RingEntry(f) \in RingType /\ Logged(v, f) \in SessionType
      /\ Len(Ringed(v.ring, RingEntry(f))) <= RingSize
  BY <1>1, LoggedTyped
<1>3. Numbered(Logged(v, f)) \in SessionType
      /\ Numbered(Logged(v, f)) = [Logged(v, f) EXCEPT !.seq = v.seq + 1]
  <2>1. Logged(v, f).seq = v.seq
    BY <1>2 DEF SessionType
  <2> QED
    BY <1>2, <2>1, NumberedTyped
<1>4. seen.at \in Partial(Places) /\ seen.look \in LookType /\ 0 \in 0..MaxSlow
  BY Constants DEF SeenType
<1>5. Committed(v, f, seen) \in SessionType
  BY <1>3, <1>4 DEF Committed, SessionType
<1>6. Committed(v, f, seen) =
        [v EXCEPT !.ring = Ringed(v.ring, RingEntry(f)), !.sent = v.sent \cup {f.id},
                  !.seq = v.seq + 1, !.at = seen.at, !.look = seen.look, !.slow = 0]
  BY <1>2, <1>3 DEF Committed, SessionType
<1> QED
  BY <1>2, <1>5, <1>6

(* What is left of a session when its connection is gone.                  *)
LEMMA LeftTyped ==
    ASSUME NEW v \in SessionType
    PROVE  /\ Left(v) \in SessionType
           /\ Left(v) = [v EXCEPT !.live = FALSE, !.moves = None, !.queue = <<>>,
                                  !.abroad = {}, !.slow = 0]
<1>1. /\ None \in Partial(LastingOp) /\ 0 \in 0..MaxSlow /\ <<>> \in Seq(OpType)
      /\ {} \in SUBSET Souls /\ FALSE \in BOOLEAN
  BY NoneTyped, Constants
<1>2. Left(v) = [v EXCEPT !.live = FALSE, !.moves = None, !.queue = <<>>,
                          !.abroad = {}, !.slow = 0]
  BY DEF Left
<1>3. Left(v) \in SessionType
  BY ZenonT(30), <1>1, <1>2, SessionParts DEF SessionType
<1> QED
  BY <1>2, <1>3

-----------------------------------------------------------------------------
(* What is read of the tables, and the frames made of it.                  *)

HubType == [at : [Souls -> Places], look : [Souls -> [Streams -> {0, 1}]],
            away : SUBSET Souls, purse : [Souls -> {0, 1}]]

(* The types of what the pump and the snapshots read.                      *)
LEMMA ReadTyped ==
    ASSUME hub \in HubType
    PROVE  /\ ReadPositions \in Partial(Places) /\ ReadAbroad \in SUBSET Souls
           /\ ReadLooks \in LookType /\ ReadWallets \in [Souls -> {0, 1}]
           /\ View \in SeenType /\ View.abroad = ReadAbroad
<1>1. /\ hub.at \in [Souls -> Places] /\ hub.away \in SUBSET Souls
      /\ hub.look \in [Souls -> [Streams -> {0, 1}]] /\ hub.purse \in [Souls -> {0, 1}]
  BY DEF HubType
<1>2. ReadPositions \in Partial(Places)
  BY <1>1, PartialBuilt DEF ReadPositions
<1>3. /\ ReadSoulStates \in [Souls -> {0, 1}] /\ ReadDormancy \in [Souls -> {0, 1}]
      /\ ReadBiology \in [Souls -> {0, 1}] /\ ReadIdentities \in [Souls -> {0, 1}]
  BY <1>1 DEF ReadSoulStates, ReadDormancy, ReadBiology, ReadIdentities, Streams
<1>4. /\ ReadSoulStates \in Partial({0, 1}) /\ ReadDormancy \in Partial({0, 1})
      /\ ReadBiology \in Partial({0, 1}) /\ ReadIdentities \in Partial({0, 1})
  BY <1>3, PartialBuilt
<1>5. ReadLooks \in LookType
  <2>1. \A d \in Domains : d \in {"state", "dormancy", "biology", "identity"}
    BY Constants DEF Streams
  <2> QED
    BY <1>4, <2>1 DEF ReadLooks, LookType
<1>6. Without(ReadPositions, ReadAbroad) \in Partial(Places)
  BY <1>2, WithoutTyped
<1>7. [d \in Domains |-> Without(ReadLooks[d], ReadAbroad)] \in LookType
  <2>1. \A d \in Domains : ReadLooks[d] \in Partial({0, 1})
    BY <1>5 DEF LookType
  <2>2. \A d \in Domains : Without(ReadLooks[d], ReadAbroad) \in Partial({0, 1})
    BY <2>1, WithoutTyped
  <2> QED
    BY <2>2 DEF LookType
<1>8. ReadAbroad \in SUBSET Souls
  BY <1>1 DEF ReadAbroad
<1>9. View \in SeenType /\ View.abroad = ReadAbroad
  BY <1>6, <1>7, <1>8 DEF View, SeenType
<1> QED
  BY <1>1, <1>2, <1>5, <1>8, <1>9 DEF ReadWallets

(* A snapshot is a frame with the number it is given.                      *)
LEMMA SnapshotTyped ==
    ASSUME hub \in HubType, NEW n \in Nat
    PROVE  Snapshot(n) \in SnapshotType /\ Snapshot(n).seq = n
<1>1. Snapshot(n) = [kind |-> "snapshot", seq |-> n, at |-> View.at, look |-> View.look,
                     abroad |-> ReadAbroad, wallets |-> ReadWallets]
  BY DEF Snapshot, View
<1>2. View.at \in Partial(Places) /\ View.look \in LookType
  BY ReadTyped DEF SeenType
<1> QED
  BY <1>1, <1>2, ReadTyped DEF SnapshotType

(* What a snapshot leaves in the session.                                  *)
LEMMA SnappedTyped ==
    ASSUME hub \in HubType, NEW v \in SessionType
    PROVE  /\ Snapped(v) \in SessionType
           /\ Snapped(v) = [v EXCEPT !.seq = v.seq + 1, !.at = View.at, !.look = ReadLooks,
                                     !.abroad = ReadAbroad,
                                     !.crossed = v.crossed \/ pump.pc = "sending",
                                     !.veiled = ReadAbroad]
<1>1. /\ Numbered(v) \in SessionType /\ Numbered(v) = [v EXCEPT !.seq = v.seq + 1]
  BY NumberedTyped
<1>2. View.at \in Partial(Places) /\ View.at = Without(ReadPositions, ReadAbroad)
  BY ReadTyped DEF SeenType, View
<1>3. Numbered(v).crossed = v.crossed
  BY <1>1 DEF SessionType
<1>4. Snapped(v) = [Numbered(v) EXCEPT !.at = View.at, !.look = ReadLooks,
                                       !.abroad = ReadAbroad,
                                       !.crossed = v.crossed \/ pump.pc = "sending",
                                     !.veiled = ReadAbroad]
  BY <1>2, <1>3 DEF Snapped
<1>5. (v.crossed \/ pump.pc = "sending") \in BOOLEAN
  BY SessionParts
<1>6. Snapped(v) \in SessionType
  BY <1>1, <1>2, <1>4, <1>5, ReadTyped DEF SessionType
<1> QED
  BY <1>1, <1>4, <1>6 DEF SessionType

(* What the consumer makes of a frame. *)
LEMMA ApplySnapshotTyped ==
    ASSUME NEW w \in ViewType, NEW f \in SnapshotType
    PROVE  ApplySnapshot(w, f) \in ViewType /\ ApplySnapshot(w, f).bubbles = w.bubbles
<1>1. /\ w.look \in [Domains -> Partial(Int)] /\ w.bubbles \in Nat
  BY DEF ViewType
<1>2. /\ f.at \in Partial(Places) /\ f.look \in LookType /\ f.abroad \in SUBSET Souls
      /\ f.wallets \in [Souls -> {0, 1}]
  BY DEF SnapshotType
<1> DEFINE gone == DOMAIN w.track \ DOMAIN f.at
           hidden(d) == gone \cup (IF d \in Fine THEN f.abroad ELSE {})
           look == [d \in Domains |-> Over(f.look[d], Without(w.look[d], hidden(d)))]
<1>3. ApplySnapshot(w, f) = [w EXCEPT !.track = f.at, !.look = look, !.abroad = f.abroad,
                                      !.wallet = f.wallets]
  BY DEF ApplySnapshot, ViewType
<1>4. f.at \in Partial(Int) /\ f.wallets \in Partial(Int)
  <2>1. DOMAIN f.at \in SUBSET Souls /\ f.at \in [DOMAIN f.at -> Int]
    BY <1>2, PartialAt, Constants DEF Places
  <2>2. f.wallets \in [Souls -> Int] /\ Souls \in SUBSET Souls
    BY <1>2
  <2> QED
    BY <2>1, <2>2, PartialBuilt
<1>5. look \in [Domains -> Partial(Int)]
  <2> SUFFICES ASSUME NEW d \in Domains PROVE look[d] \in Partial(Int)
    OBVIOUS
  <2> DEFINE new == f.look[d]
             rest == Without(w.look[d], hidden(d))
             all == DOMAIN new \cup DOMAIN rest
  <2>1. rest \in Partial(Int)
    BY <1>1, WithoutTyped
  <2>2. new \in Partial({0, 1})
    BY <1>2 DEF LookType
  <2> HIDE DEF new, rest
  <2>3. /\ all \in SUBSET Souls
        /\ \A s \in DOMAIN new : new[s] \in Int
        /\ \A s \in DOMAIN rest : rest[s] \in Int
    BY <2>1, <2>2, PartialAt
  <2>4. Over(new, rest) \in [all -> Int]
    BY <2>3 DEF Over
  <2>5. Over(new, rest) \in Partial(Int)
    BY <2>3, <2>4, PartialBuilt
  <2>6. look[d] = Over(new, rest)
    BY DEF new, rest
  <2> QED
    BY <2>5, <2>6
<1> HIDE DEF look
<1> QED
  BY <1>1, <1>2, <1>3, <1>4, <1>5 DEF ViewType

Speaks(f) == f.kind = "delta" /\ ~Quiet(f.ops)

(* The consumer stays typed, and shows a bubble only if the frame has one. *)
LEMMA ApplyFrameTyped ==
    ASSUME NEW w \in ViewType, NEW f \in DeltaType \cup SnapshotType
    PROVE  /\ ApplyFrame(w, f) \in ViewType
           /\ ~Speaks(f) => ApplyFrame(w, f).bubbles = w.bubbles
           /\ Speaks(f) /\ Once(f.ops) => ApplyFrame(w, f).bubbles = w.bubbles + 1
<1>1. CASE f \in DeltaType
  <2>1. f.kind = "delta" /\ f.ops \in Seq(OpType)
    BY <1>1 DEF DeltaType
  <2> QED
    BY <2>1, ApplyDeltaTyped DEF ApplyFrame, Speaks
<1>2. CASE f \in SnapshotType
  <2>1. f.kind = "snapshot"
    BY <1>2 DEF SnapshotType
  <2> QED
    BY <1>2, <2>1, ApplySnapshotTyped DEF ApplyFrame, Speaks
<1> QED
  BY <1>1, <1>2

-----------------------------------------------------------------------------
(* The inductive invariant of the stream: the types, and which connection  *)
(* holds what.                                                             *)

PumpType == [pc : {"asleep", "read", "locked", "sending", "dead"}, seen : SeenType,
             frame : DeltaType]
ReplayType == [old : 0..MaxConns, frames : Seq(RingType)]
FrameType == DeltaType \cup SnapshotType
ClientType == [up : BOOLEAN, seq : Int, back : [conn : 0..MaxConns, seq : Int],
               view : ViewType, heard : SUBSET Ids, twice : BOOLEAN, late : BOOLEAN]
Holding == Serving \cup {"closed"}
HandlerType == [Conns -> Holding \cup {"none", "ended"}]

StreamTyped ==
    /\ hub \in HubType /\ unsaid \in SUBSET Souls /\ note \in {"none", "api", "sim"}
    /\ vp \in [Conns -> SessionType] /\ handler \in HandlerType
    /\ pump \in PumpType /\ replay \in ReplayType /\ wire \in Seq(FrameType)
    /\ client \in ClientType /\ spent \in [changes : Nat, losses : Nat]

(* The connections are opened one after the other, and the one before has  *)
(* ended by then.                                                          *)
Opened ==
    /\ Cur \in 0..MaxConns
    /\ \A c \in Conns : (handler[c] # "none" <=> c <= Cur) /\ (c < Cur => handler[c] = "ended")

(* Only the newest connection has a live session with something queued.    *)
Attached ==
    /\ \A c \in Conns : /\ vp[c].live <=> c = Cur /\ handler[c] \in Holding
                        /\ ~vp[c].live => vp[c].queue = <<>> /\ vp[c].moves = None
                        /\ Len(vp[c].ring) <= RingSize
    /\ pump.pc # "dead" => Cur # 0 /\ handler[Cur] \in Serving /\ vp[Cur].slow < MaxSlow
    /\ ~client.up => wire = <<>>

(* A replay is of an older connection, and so is what a client may resume. *)
Linked ==
    /\ replay.old = 0 \/ replay.old < Cur
    /\ client.back.conn = 0 \/ client.back.conn < Cur
    /\ At({"replaying", "sending"}) => replay.old # 0

StreamInv == StreamTyped /\ Opened /\ Attached /\ Linked

(* The parts of the invariant.                                             *)
LEMMA StreamParts ==
    ASSUME StreamInv
    PROVE  /\ hub \in HubType /\ unsaid \in SUBSET Souls /\ note \in {"none", "api", "sim"}
           /\ vp \in [Conns -> SessionType] /\ handler \in HandlerType
           /\ pump \in PumpType /\ replay \in ReplayType /\ wire \in Seq(FrameType)
           /\ client \in ClientType /\ spent \in [changes : Nat, losses : Nat]
           /\ Cur \in 0..MaxConns /\ Cur \in Nat /\ MaxConns \in Nat /\ Conns = 1..MaxConns
           /\ Cur # 0 => Cur \in Conns
           /\ \A c \in Conns : vp[c] \in SessionType /\ Len(vp[c].ring) <= RingSize
           /\ pump.pc \in {"asleep", "read", "locked", "sending", "dead"}
           /\ pump.seen \in SeenType /\ pump.frame \in DeltaType
           /\ replay.old \in 0..MaxConns /\ replay.frames \in Seq(RingType)
           /\ client.up \in BOOLEAN /\ client.seq \in Int
           /\ client.back.conn \in 0..MaxConns /\ client.back.seq \in Int
           /\ client.view \in ViewType /\ client.heard \in SUBSET Ids
           /\ client.twice \in BOOLEAN /\ client.late \in BOOLEAN
<1>1. MaxConns \in Nat
  BY Constants
<1>2. Cur \in 0..MaxConns
  BY DEF StreamInv, Opened
<1>3. Cur # 0 => Cur \in Conns
  BY <1>1, <1>2 DEF Conns
<1>4. /\ pump \in PumpType /\ replay \in ReplayType /\ client \in ClientType
  BY DEF StreamInv, StreamTyped
<1>5. /\ pump.pc \in {"asleep", "read", "locked", "sending", "dead"}
      /\ pump.seen \in SeenType /\ pump.frame \in DeltaType
      /\ replay.old \in 0..MaxConns /\ replay.frames \in Seq(RingType)
  BY <1>4 DEF PumpType, ReplayType
<1>6. /\ client.up \in BOOLEAN /\ client.seq \in Int
      /\ client.back.conn \in 0..MaxConns /\ client.back.seq \in Int
      /\ client.view \in ViewType /\ client.heard \in SUBSET Ids
      /\ client.twice \in BOOLEAN /\ client.late \in BOOLEAN
  BY <1>4 DEF ClientType
<1>7. \A c \in Conns : vp[c] \in SessionType /\ Len(vp[c].ring) <= RingSize
  BY DEF StreamInv, StreamTyped, Attached
<1>8. Conns = 1..MaxConns
  BY DEF Conns
<1> QED
  BY <1>1, <1>2, <1>3, <1>5, <1>6, <1>7, <1>8 DEF StreamInv, StreamTyped

(* The newest connection, counted. *)
LEMMA CurIs ==
    ASSUME NEW h, NEW n \in 0..MaxConns,
           \A c \in Conns : h[c] # "none" <=> c <= n
    PROVE  Cardinality({c \in Conns : h[c] # "none"}) = n
<1>1. MaxConns \in Nat /\ n \in Nat
  BY Constants
<1>2. {c \in Conns : h[c] # "none"} = 1..n
  BY <1>1 DEF Conns
<1>3. Cardinality(1..n) = n
  BY <1>1, FS_Interval
<1> QED
  BY <1>2, <1>3

(* Connections that stay made or unmade leave Cur alone.                   *)
LEMMA CurStays ==
    ASSUME StreamInv, handler' \in HandlerType,
           \A c \in Conns : handler'[c] # "none" <=> handler[c] # "none"
    PROVE  Cur' = Cur
<1>1. Cur \in 0..MaxConns /\ \A c \in Conns : handler'[c] # "none" <=> c <= Cur
  BY DEF StreamInv, Opened
<1> DEFINE n == Cur
           h == handler'
<1>2. n \in 0..MaxConns /\ \A c \in Conns : h[c] # "none" <=> c <= n
  BY <1>1
<1>3. Cur' = Cardinality({c \in Conns : h[c] # "none"})
  BY DEF Cur
<1> HIDE DEF n, h
<1>4. Cardinality({c \in Conns : h[c] # "none"}) = n
  BY <1>2, CurIs
<1> QED
  BY <1>3, <1>4 DEF n

(* A step that keeps the handlers, and changes nothing in the sessions but *)
(* what is queued for a live one.                                          *)
LEMMA QueueOnly ==
    ASSUME StreamInv, vp' \in [Conns -> SessionType],
           UNCHANGED <<handler, pump, replay, wire, client>>,
           hub' \in HubType, unsaid' \in SUBSET Souls, note' \in {"none", "api", "sim"},
           spent' \in [changes : Nat, losses : Nat],
           \A c \in Conns : /\ vp'[c].live = vp[c].live /\ vp'[c].moves = vp[c].moves
                            /\ vp'[c].ring = vp[c].ring /\ vp'[c].slow = vp[c].slow
                            /\ ~vp[c].live => vp'[c].queue = vp[c].queue
    PROVE  StreamInv' /\ Cur' = Cur
<1>1. Cur' = Cur
  BY CurStays, StreamParts
<1>2. StreamTyped'
  BY DEF StreamInv, StreamTyped
<1>3. Opened'
  BY <1>1 DEF StreamInv, Opened
<1>4. Attached'
  BY <1>1, StreamParts DEF StreamInv, Attached
<1>5. Linked'
  BY <1>1 DEF StreamInv, Linked, At
<1> QED
  BY <1>1, <1>2, <1>3, <1>4, <1>5 DEF StreamInv

(* What the world does to the sessions: it queues an op for each live one, *)
(* or nothing.                                                             *)
Queued(op) ==
    vp' = [c \in Conns |-> IF Reaches(c) THEN Enqueued(vp[c], <<op>>) ELSE vp[c]]

(* A post goes to the queues of the live sessions and changes nothing else *)
(* in a session.                                                           *)
LEMMA QueuedTyped ==
    ASSUME StreamInv, NEW op \in OpType, Queued(op)
    PROVE  /\ vp' \in [Conns -> SessionType]
           /\ \A c \in Conns : /\ vp'[c].live = vp[c].live /\ vp'[c].moves = vp[c].moves
                               /\ vp'[c].ring = vp[c].ring /\ vp'[c].slow = vp[c].slow
                               /\ vp'[c].seq = vp[c].seq /\ vp'[c].sent = vp[c].sent
                               /\ vp'[c].after = vp[c].after /\ vp'[c].kept = vp[c].kept
                               /\ vp'[c].queue = IF Reaches(c) THEN vp[c].queue \o <<op>>
                                                 ELSE vp[c].queue
                               /\ ~vp[c].live => vp'[c].queue = vp[c].queue
<1>1. <<op>> \in Seq(OpType)
  OBVIOUS
<1>2. \A c \in Conns : /\ Enqueued(vp[c], <<op>>) \in SessionType
                       /\ Enqueued(vp[c], <<op>>) = [vp[c] EXCEPT !.queue = vp[c].queue \o <<op>>]
  BY <1>1, StreamParts, EnqueuedTyped
<1>3. \A c \in Conns : vp'[c] = IF Reaches(c) THEN [vp[c] EXCEPT !.queue = vp[c].queue \o <<op>>]
                                ELSE vp[c]
  BY <1>2 DEF Queued
<1>4. vp' \in [Conns -> SessionType]
  BY <1>2, StreamParts DEF Queued
<1>5. \A c \in Conns : vp[c] \in SessionType
  BY StreamParts
<1>6. ASSUME NEW c \in Conns, Reaches(c)
      PROVE  /\ vp'[c].live = vp[c].live /\ vp'[c].moves = vp[c].moves
             /\ vp'[c].ring = vp[c].ring /\ vp'[c].slow = vp[c].slow
             /\ vp'[c].seq = vp[c].seq /\ vp'[c].sent = vp[c].sent
             /\ vp'[c].after = vp[c].after /\ vp'[c].kept = vp[c].kept
             /\ vp'[c].queue = vp[c].queue \o <<op>> /\ vp[c].live
  BY <1>3, <1>5, <1>6 DEF SessionType, Reaches
<1>7. ASSUME NEW c \in Conns, ~Reaches(c) PROVE vp'[c] = vp[c]
  BY <1>3, <1>7
<1> QED
  BY <1>4, <1>6, <1>7

(* The world leaves the rest of the stream as it was. *)
Apart == UNCHANGED <<handler, pump, replay, wire, client>>

WorldDoes ==
    /\ Apart
    /\ \/ vp' = vp
       \/ \E op \in LastingOp : Queued(op)
       \/ \E s \in Souls : Queued(BubbleOp(s)) /\ note = "none" /\ note' = "api"
    /\ \/ note' = note
       \/ vp' = vp /\ note = "none" /\ note' = "sim"
       \/ \E s \in Souls : Queued(BubbleOp(s)) /\ note = "none" /\ note' = "api"

(* A bubble carries the connection it is posted to.                        *)
LEMMA BubbleOpTyped ==
    ASSUME StreamInv, NEW s \in Souls
    PROVE  /\ BubbleOp(s) \in OpType /\ BubbleOp(s).op = "bubble" /\ BubbleOp(s).value = Cur
BY StreamParts DEF BubbleOp, Op, OpType

(* A step of the world queues at most one op and spends a change.          *)
LEMMA WorldTyped ==
    ASSUME StreamInv, World
    PROVE  /\ WorldDoes /\ hub' \in HubType /\ unsaid' \in SUBSET Souls
           /\ note' \in {"none", "api", "sim"} /\ spent' \in [changes : Nat, losses : Nat]
<1>1. /\ hub.at \in [Souls -> Places] /\ hub.away \in SUBSET Souls
      /\ hub.look \in [Souls -> [Streams -> {0, 1}]] /\ hub.purse \in [Souls -> {0, 1}]
      /\ hub \in HubType /\ unsaid \in SUBSET Souls /\ note \in {"none", "api", "sim"}
      /\ spent \in [changes : Nat, losses : Nat]
  BY StreamParts DEF HubType
<1>2. Change => spent' \in [changes : Nat, losses : Nat]
  BY <1>1 DEF Change
<1>3. CASE Roam
  <2>1. PICK s \in Souls, p \in Places : hub' = [hub EXCEPT !.at[s] = p]
    BY <1>3 DEF Roam
  <2>2. [hub.at EXCEPT ![s] = p] \in [Souls -> Places]
    BY <1>1
  <2>3. hub' \in HubType
    BY <1>1, <2>1, <2>2 DEF HubType
  <2> QED
    BY <1>1, <1>2, <1>3, <2>3 DEF Roam, WorldDoes, Apart
<1>4. CASE Alter
  <2>1. PICK s \in Souls, d \in Domains : hub' = [hub EXCEPT !.look[s][d] = 1 - @]
    BY <1>4 DEF Alter
  <2>2. d \in Streams
    BY Constants
  <2>3. hub.look[s] \in [Streams -> {0, 1}] /\ 1 - hub.look[s][d] \in {0, 1}
    BY <1>1, <2>2
  <2>4. [hub.look EXCEPT ![s] = [hub.look[s] EXCEPT ![d] = 1 - hub.look[s][d]]]
          \in [Souls -> [Streams -> {0, 1}]]
    BY <1>1, <2>2, <2>3
  <2>5. hub' \in HubType
    BY <1>1, <2>1, <2>4 DEF HubType
  <2> QED
    BY <1>1, <1>2, <1>4, <2>5 DEF Alter, WorldDoes, Apart
<1>5. CASE Depart
  BY <1>1, <1>2, <1>5 DEF Depart, HubType, WorldDoes, Apart
<1>6. CASE Return
  BY <1>1, <1>2, <1>6 DEF Return, HubType, WorldDoes, Apart
<1>7. ASSUME NEW s \in Souls, hub' = [hub EXCEPT !.purse[s] = 1 - @]
      PROVE  hub' \in HubType /\ hub'.purse[s] \in {0, 1}
  <2>1. [hub.purse EXCEPT ![s] = 1 - @] \in [Souls -> {0, 1}]
    BY <1>1
  <2> QED
    BY <1>1, <1>7, <2>1 DEF HubType
<1>8. CASE Trade
  <2>1. PICK s \in Souls : /\ hub' = [hub EXCEPT !.purse[s] = 1 - @]
                           /\ unsaid' = unsaid \ {s} /\ Change /\ NotifyEconomySoul(s)
                           /\ UNCHANGED <<note, handler, pump, replay, wire, client>>
    BY <1>8 DEF Trade
  <2>2. hub' \in HubType /\ hub'.purse[s] \in Int
    BY <1>7, <2>1
  <2>3. EconomyOp(s, hub'.purse[s]) \in LastingOp
    BY <2>2, OpsTyped
  <2>4. Queued(EconomyOp(s, hub'.purse[s]))
    BY <2>1 DEF NotifyEconomySoul, NotifyEconomy, Queued
  <2> QED
    BY <1>1, <1>2, <2>1, <2>2, <2>3, <2>4 DEF WorldDoes, Apart
<1>9. CASE Feed
  <2>1. PICK s \in Souls : hub' = [hub EXCEPT !.purse[s] = 1 - @] /\ unsaid' = unsaid \cup {s}
    BY <1>9 DEF Feed
  <2>2. hub' \in HubType
    BY <1>7, <2>1
  <2> QED
    BY <1>1, <1>2, <1>9, <2>1, <2>2 DEF Feed, SimNotify, WorldDoes, Apart
<1>10. CASE Quip
  <2>1. PICK s \in Souls : /\ note = "none" /\ note' = "api" /\ Change /\ NotifyBubble(s)
                           /\ UNCHANGED <<hub, unsaid, handler, pump, replay, wire, client>>
    BY <1>10 DEF Quip
  <2>2. Queued(BubbleOp(s))
    BY <2>1 DEF NotifyBubble, Queued
  <2> QED
    BY <1>1, <1>2, <2>1, <2>2 DEF WorldDoes, Apart
<1>11. CASE FanBubble
  BY <1>1, <1>2, <1>11 DEF FanBubble, SimNotify, WorldDoes, Apart
<1> QED
  BY <1>3, <1>4, <1>5, <1>6, <1>8, <1>9, <1>10, <1>11 DEF World

(* The world keeps the types of the stream.                                *)
LEMMA WorldKeepsStream ==
    ASSUME StreamInv, World PROVE StreamInv' /\ Cur' = Cur
<1>1. /\ WorldDoes /\ hub' \in HubType /\ unsaid' \in SUBSET Souls
      /\ note' \in {"none", "api", "sim"} /\ spent' \in [changes : Nat, losses : Nat]
  BY WorldTyped
<1>2. UNCHANGED <<handler, pump, replay, wire, client>>
  BY <1>1 DEF WorldDoes, Apart
<1>3. ASSUME NEW op \in OpType, Queued(op) PROVE StreamInv' /\ Cur' = Cur
  BY <1>1, <1>2, <1>3, QueuedTyped, QueueOnly
<1>4. CASE vp' = vp
  BY <1>1, <1>2, <1>4, StreamParts, QueueOnly
<1> QED
  BY <1>1, <1>3, <1>4, LastingIsOp, BubbleOpTyped DEF WorldDoes

-----------------------------------------------------------------------------
(* A step that neither opens nor ends a connection. *)
LEMMA StepTyped ==
    ASSUME StreamInv, StreamTyped',
           \A c \in Conns : c # Cur => handler'[c] = handler[c],
           Cur # 0 => /\ handler'[Cur] # "none"
                      /\ handler'[Cur] \in Holding <=> handler[Cur] \in Holding,
           \A c \in Conns : /\ vp'[c].live = vp[c].live /\ Len(vp'[c].ring) <= RingSize
                            /\ ~vp'[c].live => vp'[c].queue = <<>> /\ vp'[c].moves = None,
           pump'.pc # "dead" => Cur # 0 /\ handler'[Cur] \in Serving /\ vp'[Cur].slow < MaxSlow,
           ~client'.up => wire' = <<>>,
           replay'.old = 0 \/ replay'.old < Cur,
           client'.back.conn = 0 \/ client'.back.conn < Cur,
           Cur # 0 /\ handler'[Cur] \in {"replaying", "sending"} => replay'.old # 0
    PROVE  StreamInv' /\ Cur' = Cur
<1>1. /\ Cur \in 0..MaxConns /\ Cur \in Nat
      /\ \A c \in Conns : (handler[c] # "none" <=> c <= Cur) /\ (c < Cur => handler[c] = "ended")
      /\ \A c \in Conns : vp[c].live <=> c = Cur /\ handler[c] \in Holding
      /\ Conns = 1..MaxConns /\ MaxConns \in Nat
  BY StreamParts DEF StreamInv, Opened, Attached
<1>2. \A c \in Conns : handler'[c] # "none" <=> handler[c] # "none"
  BY <1>1
<1>3. Cur' = Cur
  BY <1>2, CurStays DEF StreamTyped
<1>4. \A c \in Conns : (handler'[c] # "none" <=> c <= Cur) /\ (c < Cur => handler'[c] = "ended")
  <2> SUFFICES ASSUME NEW c \in Conns
               PROVE  (handler'[c] # "none" <=> c <= Cur) /\ (c < Cur => handler'[c] = "ended")
    OBVIOUS
  <2>1. c < Cur => c # Cur
    BY <1>1
  <2> QED
    BY <1>1, <1>2, <2>1
<1>5. Opened'
  BY <1>1, <1>3, <1>4 DEF Opened
<1>6. \A c \in Conns : vp'[c].live <=> c = Cur /\ handler'[c] \in Holding
  <2> SUFFICES ASSUME NEW c \in Conns
               PROVE  vp'[c].live <=> c = Cur /\ handler'[c] \in Holding
    OBVIOUS
  <2>1. c = Cur => Cur # 0
    BY <1>1
  <2> QED
    BY <1>1, <2>1
<1>7. Attached'
  BY <1>3, <1>6 DEF Attached
<1>8. Linked'
  BY <1>3 DEF Linked, At
<1> QED
  BY <1>3, <1>5, <1>7, <1>8 DEF StreamInv

(* The pump between two rounds.                                            *)
LEMMA PumpTyped ==
    ASSUME NEW pc \in {"asleep", "read", "locked", "sending", "dead"}
    PROVE  Pump(pc) \in PumpType /\ Pump(pc).pc = pc
<1>1. None \in Partial(Places) /\ None \in Partial({0, 1})
  BY NoneTyped
<1>2. NoView \in SeenType
  BY <1>1 DEF NoView, SeenType, LookType
<1>3. NoFrame \in DeltaType
  BY DEF NoFrame, Delta, DeltaType, Ids
<1> QED
  BY <1>2, <1>3 DEF Pump, PumpType

(* What a send does to the wire. *)
LEMMA SendsTyped ==
    ASSUME StreamInv, NEW f \in FrameType, Sends(f)
    PROVE  /\ wire' \in Seq(FrameType)
           /\ client.up => wire' = Append(wire, f)
           /\ ~client.up => wire' = wire /\ wire' = <<>>
BY StreamParts DEF Sends, StreamInv, Attached

(* The four outcomes of a flush. *)
FrameOf(c, v) == Delta(v.seq, <<c, v.seq>>, TakePending(v))
TakenFrom(v) == [v EXCEPT !.queue = <<>>, !.moves = None]

Rests(c, v) ==
    /\ PendingCount(v) = 0
    /\ vp' = [vp EXCEPT ![c] = [v EXCEPT !.slow = 0]]
    /\ pump' = Pump("asleep")
    /\ UNCHANGED <<wire, handler>>

Balks(c, v) ==
    /\ vp' = [vp EXCEPT ![c] = [v EXCEPT !.slow = @ + 1]]
    /\ pump' = Pump(IF v.slow + 1 >= MaxSlow THEN "dead" ELSE "asleep")
    /\ handler' = [handler EXCEPT ![c] = IF v.slow + 1 >= MaxSlow THEN "closed" ELSE @]
    /\ UNCHANGED wire

Starts(c, v) ==
    /\ Sends(FrameOf(c, v)) /\ UNCHANGED handler
    /\ vp' = [vp EXCEPT ![c] = TakenFrom(v)]
    /\ pump' = [pump EXCEPT !.pc = "sending", !.frame = FrameOf(c, v)]

Flushes(c, v) ==
    /\ Sends(FrameOf(c, v)) /\ UNCHANGED handler
    /\ vp' = [vp EXCEPT ![c] = Committed(TakenFrom(v), FrameOf(c, v), pump.seen)]
    /\ pump' = Pump("asleep")

(* The four outcomes of a flush: nothing to say, too much, all said, or    *)
(* still sending.                                                          *)
LEMMA FlushCases ==
    ASSUME NEW c, NEW v, Flush(c, v)
    PROVE  Rests(c, v) \/ Balks(c, v) \/ Starts(c, v) \/ Flushes(c, v)
<1>1. CASE PendingCount(v) = 0
  <2>1. ~QueueFull(v)
    BY <1>1, Constants DEF QueueFull
  <2> QED
    BY <1>1, <2>1 DEF Flush, Rests
<1>2. CASE PendingCount(v) # 0 /\ QueueFull(v)
  BY <1>2 DEF Flush, Balks
<1>3. CASE PendingCount(v) # 0 /\ ~QueueFull(v)
  BY <1>3 DEF Flush, Starts, Flushes, FrameOf, TakenFrom
<1> QED
  BY <1>1, <1>2, <1>3

(* The frame a flush builds says what the queue says.                      *)
LEMMA TakenTyped ==
    ASSUME NEW v \in SessionType, NEW c \in Conns
    PROVE  /\ FrameOf(c, v) \in DeltaType /\ FrameOf(c, v) \in FrameType
           /\ FrameOf(c, v).seq = v.seq /\ FrameOf(c, v).id = <<c, v.seq>>
           /\ FrameOf(c, v).kind = "delta" /\ FrameOf(c, v).ops = TakePending(v)
           /\ Says(TakePending(v)) = Says(v.queue)
           /\ \A i \in Says(v.queue) : TakePending(v)[i] = v.queue[i]
           /\ TakenFrom(v) \in SessionType
           /\ TakenFrom(v) = [v EXCEPT !.queue = <<>>, !.moves = None]
<1>1. PICK ops \in Seq(LastingOp) : TakePending(v) = v.queue \o ops
  BY TakePendingTyped
<1>2. v.queue \in Seq(OpType) /\ v.seq \in Nat
  BY SessionParts
<1>3. /\ TakePending(v) \in Seq(OpType) /\ Says(TakePending(v)) = Says(v.queue)
      /\ \A i \in Says(v.queue) : TakePending(v)[i] = v.queue[i]
  BY <1>1, <1>2, SaysAfter
<1>4. <<c, v.seq>> \in Ids
  BY <1>2, Constants DEF Conns, Ids
<1>5. FrameOf(c, v) = [kind |-> "delta", seq |-> v.seq, id |-> <<c, v.seq>>, ops |-> TakePending(v)]
  BY DEF FrameOf, Delta
<1>6. FrameOf(c, v) \in DeltaType
  BY <1>2, <1>3, <1>4, <1>5 DEF DeltaType
<1>7. None \in Partial(LastingOp) /\ <<>> \in Seq(OpType)
  BY NoneTyped
<1>8. TakenFrom(v) \in SessionType
  BY <1>7, SessionParts DEF TakenFrom, SessionType
<1> QED
  BY <1>3, <1>5, <1>6, <1>8 DEF TakenFrom, FrameType

(* A session whose pending ops are taken is otherwise as before.           *)
LEMMA TakenParts ==
    ASSUME NEW v \in SessionType
    PROVE  LET t == TakenFrom(v) IN
           /\ t \in SessionType /\ t.live = v.live /\ t.ring = v.ring /\ t.slow = v.slow
           /\ t.seq = v.seq /\ t.sent = v.sent /\ t.after = v.after /\ t.queue = <<>>
           /\ t.moves = None /\ t.kept = v.kept
<1>1. None \in Partial(LastingOp) /\ <<>> \in Seq(OpType)
  BY NoneTyped
<1>2. TakenFrom(v) \in SessionType
  BY <1>1, SessionParts DEF TakenFrom, SessionType
<1> QED
  BY <1>2 DEF TakenFrom, SessionType

(* A session after a whole flush. *)
LEMMA FlushedParts ==
    ASSUME NEW v \in SessionType, Len(v.ring) <= RingSize, NEW f \in DeltaType,
           NEW seen \in SeenType
    PROVE  LET w == Committed(v, f, seen) IN
           /\ w \in SessionType /\ w.live = v.live /\ w.slow = 0 /\ w.seq = v.seq + 1
           /\ w.ring = Ringed(v.ring, RingEntry(f)) /\ w.sent = v.sent \cup {f.id}
           /\ w.after = v.after /\ w.queue = v.queue /\ w.moves = v.moves /\ w.kept = v.kept
           /\ RingEntry(f) \in RingType /\ Len(w.ring) <= RingSize
<1>1. /\ Committed(v, f, seen) \in SessionType
      /\ Committed(v, f, seen) =
            [v EXCEPT !.ring = Ringed(v.ring, RingEntry(f)), !.sent = v.sent \cup {f.id},
                      !.seq = v.seq + 1, !.at = seen.at, !.look = seen.look, !.slow = 0]
      /\ RingEntry(f) \in RingType /\ Len(Ringed(v.ring, RingEntry(f))) <= RingSize
  BY CommittedTyped
<1> QED
  BY <1>1 DEF SessionType

(* What one session of the newest connection becomes. *)
LEMMA SessionSet ==
    ASSUME StreamInv, Cur # 0, NEW v \in SessionType, vp' = [vp EXCEPT ![Cur] = v],
           v.live = vp[Cur].live, Len(v.ring) <= RingSize,
           ~v.live => v.queue = <<>> /\ v.moves = None
    PROVE  /\ vp' \in [Conns -> SessionType] /\ vp'[Cur] = v
           /\ \A c \in Conns : c # Cur => vp'[c] = vp[c]
           /\ \A c \in Conns : /\ vp'[c].live = vp[c].live /\ Len(vp'[c].ring) <= RingSize
                               /\ ~vp'[c].live => vp'[c].queue = <<>> /\ vp'[c].moves = None
<1>1. /\ Cur \in Conns /\ vp \in [Conns -> SessionType]
      /\ \A c \in Conns : Len(vp[c].ring) <= RingSize
      /\ \A c \in Conns : ~vp[c].live => vp[c].queue = <<>> /\ vp[c].moves = None
  BY StreamParts DEF StreamInv, Attached
<1>2. \A c \in Conns : vp'[c] = IF c = Cur THEN v ELSE vp[c]
  BY <1>1
<1> QED
  BY <1>1, <1>2

(* The session a flush starts from: that of a live connection. *)
Ready(v) ==
    /\ v \in SessionType /\ v.live /\ Len(v.ring) <= RingSize /\ v.slow < MaxSlow

(* A flush keeps the types of the stream.                                  *)
LEMMA FlushTyped ==
    ASSUME StreamInv, pump.pc # "dead", NEW v, Ready(v), Flush(Cur, v),
           UNCHANGED <<hub, unsaid, note, replay, client, spent>>
    PROVE  StreamInv' /\ Cur' = Cur
<1>1. /\ Cur # 0 /\ Cur \in Conns /\ handler[Cur] \in Serving /\ vp[Cur].live
      /\ handler \in HandlerType /\ MaxSlow \in Nat
  BY StreamParts, Constants DEF StreamInv, Attached, Holding
<1>2. v \in SessionType /\ v.live /\ Len(v.ring) <= RingSize /\ v.slow < MaxSlow /\ v.slow \in Nat
  BY SessionParts DEF Ready
<1>3. /\ hub' \in HubType /\ unsaid' \in SUBSET Souls /\ note' \in {"none", "api", "sim"}
      /\ replay' \in ReplayType /\ client' \in ClientType /\ spent' \in [changes : Nat, losses : Nat]
      /\ client'.up = client.up /\ (~client.up => wire = <<>>) /\ wire \in Seq(FrameType)
      /\ pump \in PumpType
      /\ replay'.old = 0 \/ replay'.old < Cur
      /\ client'.back.conn = 0 \/ client'.back.conn < Cur
      /\ handler[Cur] \in {"replaying", "sending"} => replay'.old # 0
  BY <1>1, StreamParts DEF StreamInv, Attached, Linked, At
<1>4. Pump("asleep") \in PumpType /\ Pump("dead") \in PumpType
      /\ Pump("asleep").pc = "asleep" /\ Pump("dead").pc = "dead"
  BY PumpTyped
<1>5. Serving \subseteq Holding /\ "none" \notin Holding /\ "closed" \in Holding /\ "closed" \notin Serving
  BY DEF Serving, Holding
<1>6. CASE Rests(Cur, v)
  <2> DEFINE w == [v EXCEPT !.slow = 0]
  <2>1. w \in SessionType /\ w.live /\ w.ring = v.ring /\ w.slow = 0
    <3>1. 0 \in 0..MaxSlow
      BY Constants
    <3> QED
      BY <1>2, <3>1 DEF SessionType
  <2>2. vp' = [vp EXCEPT ![Cur] = w] /\ pump' = Pump("asleep") /\ UNCHANGED <<wire, handler>>
    BY <1>6 DEF Rests
  <2> HIDE DEF w
  <2>3. /\ vp' \in [Conns -> SessionType] /\ vp'[Cur] = w
        /\ \A c \in Conns : /\ vp'[c].live = vp[c].live /\ Len(vp'[c].ring) <= RingSize
                            /\ ~vp'[c].live => vp'[c].queue = <<>> /\ vp'[c].moves = None
    BY <1>1, <1>2, <2>1, <2>2, SessionSet
  <2>4. StreamTyped'
    BY <1>1, <1>3, <1>4, <2>2, <2>3 DEF StreamTyped
  <2>5. vp'[Cur].slow < MaxSlow
    BY <2>1, <2>3, Constants
  <2> QED
    BY <1>1, <1>3, <1>4, <1>5, <2>2, <2>3, <2>4, <2>5, StepTyped
<1>7. CASE Balks(Cur, v)
  <2> DEFINE w == [v EXCEPT !.slow = @ + 1]
             pc == IF v.slow + 1 >= MaxSlow THEN "dead" ELSE "asleep"
             h == IF v.slow + 1 >= MaxSlow THEN "closed" ELSE handler[Cur]
  <2>1. w \in SessionType /\ w.live /\ w.ring = v.ring /\ w.slow = v.slow + 1
    BY <1>1, <1>2 DEF SessionType
  <2>2. /\ vp' = [vp EXCEPT ![Cur] = w] /\ pump' = Pump(pc)
        /\ handler' = [handler EXCEPT ![Cur] = h] /\ UNCHANGED wire
    BY <1>7 DEF Balks
  <2>3. /\ pc \in {"dead", "asleep"} /\ h \in Holding
        /\ h \in {"replaying", "sending"} => replay'.old # 0
        /\ pc # "dead" => h \in Serving /\ w.slow < MaxSlow
    BY <1>1, <1>2, <1>3, <1>5, <2>1
  <2> HIDE DEF w, pc, h
  <2>4. /\ vp' \in [Conns -> SessionType] /\ vp'[Cur] = w
        /\ \A c \in Conns : /\ vp'[c].live = vp[c].live /\ Len(vp'[c].ring) <= RingSize
                            /\ ~vp'[c].live => vp'[c].queue = <<>> /\ vp'[c].moves = None
    BY <1>1, <1>2, <2>1, <2>2, SessionSet
  <2>5. /\ handler' \in HandlerType /\ handler'[Cur] = h
        /\ \A c \in Conns : c # Cur => handler'[c] = handler[c]
    BY <1>1, <2>2, <2>3 DEF HandlerType
  <2>6. pump' \in PumpType /\ pump'.pc = pc
    BY <1>4, <2>2, <2>3
  <2>7. StreamTyped'
    BY <1>3, <2>2, <2>4, <2>5, <2>6 DEF StreamTyped
  <2> QED
    BY <1>1, <1>3, <1>5, <2>2, <2>3, <2>4, <2>5, <2>6, <2>7, StepTyped
<1> DEFINE f == FrameOf(Cur, v)
<1>8. /\ f \in DeltaType /\ f \in FrameType /\ TakenFrom(v) \in SessionType
      /\ TakenFrom(v).live /\ TakenFrom(v).ring = v.ring /\ TakenFrom(v).slow = v.slow
  BY <1>1, <1>2, TakenTyped, TakenParts
<1>9. CASE Starts(Cur, v)
  <2> DEFINE w == TakenFrom(v)
  <2>1. /\ Sends(f) /\ UNCHANGED handler /\ vp' = [vp EXCEPT ![Cur] = w]
        /\ pump' = [pump EXCEPT !.pc = "sending", !.frame = f]
    BY <1>9 DEF Starts
  <2>2. wire' \in Seq(FrameType) /\ (~client.up => wire' = <<>>)
    BY <1>8, <2>1, SendsTyped
  <2> HIDE DEF w, f
  <2>3. /\ vp' \in [Conns -> SessionType] /\ vp'[Cur] = w
        /\ \A c \in Conns : /\ vp'[c].live = vp[c].live /\ Len(vp'[c].ring) <= RingSize
                            /\ ~vp'[c].live => vp'[c].queue = <<>> /\ vp'[c].moves = None
    <3>1. w \in SessionType /\ w.live /\ Len(w.ring) <= RingSize
      BY <1>2, <1>8 DEF w
    <3> QED
      BY <1>1, <2>1, <3>1, SessionSet
  <2>4. pump' \in PumpType
    BY <1>3, <1>8, <2>1 DEF PumpType
  <2>5. StreamTyped'
    BY <1>1, <1>3, <2>1, <2>2, <2>3, <2>4 DEF StreamTyped
  <2>6. vp'[Cur].slow < MaxSlow
    BY <1>2, <1>8, <2>3 DEF w
  <2> QED
    BY <1>1, <1>3, <1>5, <2>1, <2>2, <2>3, <2>5, <2>6, StepTyped
<1>10. CASE Flushes(Cur, v)
  <2> DEFINE w == Committed(TakenFrom(v), f, pump.seen)
  <2>1. /\ Sends(f) /\ UNCHANGED handler /\ vp' = [vp EXCEPT ![Cur] = w]
        /\ pump' = Pump("asleep")
    BY <1>10 DEF Flushes
  <2>2. wire' \in Seq(FrameType) /\ (~client.up => wire' = <<>>)
    BY <1>8, <2>1, SendsTyped
  <2>3. pump.seen \in SeenType /\ Len(TakenFrom(v).ring) <= RingSize
    BY <1>2, <1>8, StreamParts
  <2> HIDE DEF f
  <2>4. w \in SessionType /\ w.live /\ Len(w.ring) <= RingSize /\ w.slow = 0
    BY <1>8, <2>3, FlushedParts
  <2> HIDE DEF w
  <2>6. /\ vp' \in [Conns -> SessionType] /\ vp'[Cur] = w
        /\ \A c \in Conns : /\ vp'[c].live = vp[c].live /\ Len(vp'[c].ring) <= RingSize
                            /\ ~vp'[c].live => vp'[c].queue = <<>> /\ vp'[c].moves = None
    BY <1>1, <2>1, <2>4, SessionSet
  <2>7. StreamTyped'
    BY <1>1, <1>3, <1>4, <2>1, <2>2, <2>6 DEF StreamTyped
  <2>8. vp'[Cur].slow < MaxSlow
    BY <2>4, <2>6, Constants
  <2> QED
    BY <1>1, <1>3, <1>4, <1>5, <2>1, <2>2, <2>6, <2>7, <2>8, StepTyped
<1> QED
  BY <1>6, <1>7, <1>9, <1>10, FlushCases

(* A pump that is not dead has a live session.                             *)
LEMMA PumpIsReady ==
    ASSUME StreamInv, pump.pc # "dead"
    PROVE  /\ Cur # 0 /\ Cur \in Conns /\ handler[Cur] \in Serving
           /\ Ready(vp[Cur]) /\ Ready(Diffed(vp[Cur], pump.seen))
<1>1. /\ Cur # 0 /\ Cur \in Conns /\ handler[Cur] \in Serving /\ vp[Cur].slow < MaxSlow
      /\ vp[Cur] \in SessionType /\ Len(vp[Cur].ring) <= RingSize /\ pump.seen \in SeenType
  BY StreamParts DEF StreamInv, Attached
<1>2. vp[Cur].live
  BY <1>1 DEF StreamInv, Attached, Holding
<1>3. PICK ops \in Seq(LastingOp), moves \in Partial(LastingOp) :
         Diffed(vp[Cur], pump.seen) = [vp[Cur] EXCEPT !.queue = @ \o ops, !.moves = moves,
                                                      !.abroad = pump.seen.abroad]
  BY <1>1, DiffedTyped
<1>4. vp[Cur].queue \o ops \in Seq(OpType) /\ pump.seen.abroad \in SUBSET Souls
  BY <1>1, SessionParts, SaysAfter DEF SeenType
<1>5. Diffed(vp[Cur], pump.seen) \in SessionType
  BY <1>1, <1>3, <1>4 DEF SessionType
<1>6. /\ Diffed(vp[Cur], pump.seen).live /\ Diffed(vp[Cur], pump.seen).ring = vp[Cur].ring
      /\ Diffed(vp[Cur], pump.seen).slow = vp[Cur].slow
  BY <1>1, <1>2, <1>3 DEF SessionType
<1> QED
  BY <1>1, <1>2, <1>5, <1>6 DEF Ready

(* The rest of the state where a step does not touch it. *)
LEMMA StreamKept ==
    ASSUME StreamInv
    PROVE  /\ replay.old = 0 \/ replay.old < Cur
           /\ client.back.conn = 0 \/ client.back.conn < Cur
           /\ Cur # 0 /\ handler[Cur] \in {"replaying", "sending"} => replay.old # 0
           /\ ~client.up => wire = <<>>
           /\ pump.pc # "dead" => Cur # 0 /\ handler[Cur] \in Serving /\ vp[Cur].slow < MaxSlow
           /\ \A c \in Conns : ~vp[c].live => vp[c].queue = <<>> /\ vp[c].moves = None
           /\ Cur # 0 => handler[Cur] # "none"
           /\ \A c \in Conns : Len(vp[c].ring) <= RingSize
           /\ \A c \in Conns : vp[c].live <=> c = Cur /\ handler[c] \in Holding
BY StreamParts DEF StreamInv, Opened, Attached, Linked, At

(* Reading the world keeps the types of the stream.                        *)
LEMMA PumpReadTyped ==
    ASSUME StreamInv, PumpRead PROVE StreamInv' /\ Cur' = Cur
<1>1. /\ pump.pc = "asleep" /\ pump' = [pump EXCEPT !.pc = "read", !.seen = View]
      /\ UNCHANGED <<hub, unsaid, note, vp, handler, replay, wire, client, spent>>
  BY DEF PumpRead
<1>2. pump' \in PumpType
  BY <1>1, StreamParts, ReadTyped DEF PumpType
<1>3. StreamTyped'
  BY <1>1, <1>2, StreamParts DEF StreamTyped
<1> QED
  BY <1>1, <1>3, StreamKept, StepTyped

(* Diffing keeps the types of the stream.                                  *)
LEMMA PumpDiffTyped ==
    ASSUME StreamInv, PumpDiff PROVE StreamInv' /\ Cur' = Cur
<1>1. /\ pump.pc = "read" /\ UNCHANGED <<hub, unsaid, note, replay, client, spent>>
  BY DEF PumpDiff
<1> DEFINE v == Diffed(vp[Cur], pump.seen)
<1>2. Ready(v) /\ Ready(vp[Cur]) /\ Cur # 0
  BY <1>1, PumpIsReady
<1>3. CASE At({"sending"})
  <2>1. /\ vp' = [vp EXCEPT ![Cur] = v] /\ pump' = [pump EXCEPT !.pc = "locked"]
        /\ UNCHANGED <<wire, handler>>
    BY <1>3 DEF PumpDiff
  <2> HIDE DEF v
  <2>2. pump' \in PumpType
    BY <2>1, StreamParts DEF PumpType
  <2>3. /\ vp' \in [Conns -> SessionType] /\ vp'[Cur] = v
        /\ \A c \in Conns : /\ vp'[c].live = vp[c].live /\ Len(vp'[c].ring) <= RingSize
                            /\ ~vp'[c].live => vp'[c].queue = <<>> /\ vp'[c].moves = None
    BY <1>2, <2>1, SessionSet DEF Ready
  <2>4. StreamTyped'
    BY <1>1, <2>1, <2>2, <2>3, StreamParts DEF StreamTyped
  <2>5. vp'[Cur].slow < MaxSlow
    BY <1>2, <2>3 DEF Ready
  <2> QED
    BY <1>1, <1>2, <2>1, <2>3, <2>4, <2>5, StreamKept, StepTyped
<1>4. CASE ~At({"sending"})
  <2>1. Flush(Cur, v)
    BY <1>4 DEF PumpDiff
  <2> HIDE DEF v
  <2> QED
    BY <1>1, <1>2, <2>1, FlushTyped
<1> QED
  BY <1>3, <1>4

(* The flush that waited keeps the types of the stream.                    *)
LEMMA PumpLockedTyped ==
    ASSUME StreamInv, PumpLocked PROVE StreamInv' /\ Cur' = Cur
BY PumpIsReady, FlushTyped DEF PumpLocked

(* The end of a send keeps the types of the stream.                        *)
LEMMA PumpSentTyped ==
    ASSUME StreamInv, PumpSent PROVE StreamInv' /\ Cur' = Cur
<1> DEFINE w == Committed(vp[Cur], pump.frame, pump.seen)
<1>1. /\ pump.pc = "sending" /\ vp' = [vp EXCEPT ![Cur] = w] /\ pump' = Pump("asleep")
      /\ UNCHANGED <<hub, unsaid, note, handler, replay, wire, client, spent>>
  <2>1. /\ pump.pc = "sending"
        /\ vp' = [vp EXCEPT ![Cur] = Committed(vp[Cur], pump.frame, pump.seen)]
        /\ pump' = Pump("asleep")
        /\ UNCHANGED <<hub, unsaid, note, handler, replay, wire, client, spent>>
    BY DEF PumpSent
  <2> QED
    BY <2>1
<1>2. Ready(vp[Cur]) /\ Cur # 0 /\ pump.frame \in DeltaType /\ pump.seen \in SeenType
  BY <1>1, PumpIsReady, StreamParts
<1>3. w \in SessionType /\ w.live = vp[Cur].live /\ Len(w.ring) <= RingSize /\ w.slow = 0 /\ w.live
  BY <1>2, FlushedParts DEF Ready
<1> HIDE DEF w
<1>4. /\ vp' \in [Conns -> SessionType] /\ vp'[Cur] = w
      /\ \A c \in Conns : /\ vp'[c].live = vp[c].live /\ Len(vp'[c].ring) <= RingSize
                          /\ ~vp'[c].live => vp'[c].queue = <<>> /\ vp'[c].moves = None
  BY <1>1, <1>2, <1>3, SessionSet
<1>5. pump' \in PumpType
  BY <1>1, PumpTyped
<1>6. StreamTyped'
  BY <1>1, <1>4, <1>5, StreamParts DEF StreamTyped
<1>7. vp'[Cur].slow < MaxSlow
  BY <1>3, <1>4, Constants
<1> QED
  BY <1>1, <1>2, <1>4, <1>6, <1>7, StreamKept, StepTyped

(* A pump that ends keeps the types of the stream.                         *)
LEMMA PumpFailsTyped ==
    ASSUME StreamInv, PumpFails PROVE StreamInv' /\ Cur' = Cur
<1>1. /\ pump' = Pump("dead") /\ spent' = [spent EXCEPT !.losses = @ + 1]
      /\ UNCHANGED <<hub, unsaid, note, vp, handler, replay, wire, client>>
  BY DEF PumpFails
<1>2. pump' \in PumpType /\ pump'.pc = "dead"
  BY <1>1, PumpTyped
<1>3. spent' \in [changes : Nat, losses : Nat]
  BY <1>1, StreamParts
<1>4. StreamTyped'
  BY <1>1, <1>2, <1>3, StreamParts DEF StreamTyped
<1> QED
  BY <1>1, <1>2, <1>4, StreamKept, StepTyped

-----------------------------------------------------------------------------
(* The connection keeps the shape of the stream.                           *)

(* The handler of the newest connection moves, the others stay.            *)
LEMMA HandlerSet ==
    ASSUME StreamInv, Cur # 0, NEW x \in Holding, handler' = [handler EXCEPT ![Cur] = x]
    PROVE  /\ handler' \in HandlerType /\ handler'[Cur] = x /\ x # "none"
           /\ \A c \in Conns : c # Cur => handler'[c] = handler[c]
<1>1. Cur \in Conns /\ handler \in HandlerType /\ "none" \notin Holding
  BY StreamParts DEF Holding, Serving
<1> QED
  BY <1>1 DEF HandlerType

(* The stages of a handler that has a socket.                              *)
LEMMA Stages ==
    /\ Serving \subseteq Holding /\ "none" \notin Holding /\ "ended" \notin Holding
    /\ "closed" \notin Serving /\ "closed" \in Holding
    /\ {"greet", "serving", "replaying", "sending", "resync"} = Serving
BY DEF Holding, Serving

Snaps ==
    /\ Cur # 0 /\ handler[Cur] \in Serving
    /\ Sends(Snapshot(vp[Cur].seq)) /\ vp' = [vp EXCEPT ![Cur] = Snapped(vp[Cur])]
    /\ handler' = [handler EXCEPT ![Cur] = "serving"]
    /\ UNCHANGED <<hub, unsaid, note, pump, replay, client, spent>>

(* Both snapshots are made alike.                                          *)
LEMMA SnapsIs ==
    ASSUME Greet \/ Resync PROVE Snaps
<1>1. CASE Greet
  BY <1>1 DEF Greet, Snaps, At, Serving
<1>2. CASE Resync
  BY <1>2 DEF Resync, Snaps, At, Serving
<1> QED
  BY <1>1, <1>2

(* A snapshot leaves the queue, the ring and what was sent alone.          *)
LEMMA SnappedParts ==
    ASSUME StreamInv, Cur # 0
    PROVE  LET w == Snapped(vp[Cur]) IN
           /\ w \in SessionType /\ w.live = vp[Cur].live /\ w.ring = vp[Cur].ring
           /\ w.slow = vp[Cur].slow /\ w.seq = vp[Cur].seq + 1 /\ w.sent = vp[Cur].sent
           /\ w.after = vp[Cur].after /\ w.queue = vp[Cur].queue /\ w.moves = vp[Cur].moves
           /\ w.kept = vp[Cur].kept
<1>1. hub \in HubType /\ vp[Cur] \in SessionType
  BY StreamParts
<1>2. /\ Snapped(vp[Cur]) \in SessionType
      /\ Snapped(vp[Cur]) =
           [vp[Cur] EXCEPT !.seq = vp[Cur].seq + 1, !.at = View.at, !.look = ReadLooks,
                           !.abroad = ReadAbroad,
                           !.crossed = vp[Cur].crossed \/ pump.pc = "sending",
                           !.veiled = ReadAbroad]
  BY <1>1, SnappedTyped
<1> QED
  BY <1>1, <1>2 DEF SessionType

(* Snapshots keep the types of the stream.                                 *)
LEMMA SnapsTyped ==
    ASSUME StreamInv, Snaps PROVE StreamInv' /\ Cur' = Cur
<1>1. /\ Cur # 0 /\ handler[Cur] \in Serving /\ vp[Cur] \in SessionType
      /\ Cur \in Conns /\ vp[Cur].live
      /\ UNCHANGED <<hub, unsaid, note, pump, replay, client, spent>>
      /\ "serving" \in Serving /\ "serving" \in Holding
      /\ "serving" \notin {"replaying", "sending"}
  BY StreamParts, StreamKept DEF Snaps, Serving, Holding
<1> DEFINE w == Snapped(vp[Cur])
           f == Snapshot(vp[Cur].seq)
<1>2. /\ w \in SessionType /\ w.live = vp[Cur].live /\ w.ring = vp[Cur].ring
      /\ w.slow = vp[Cur].slow
  BY <1>1, SnappedParts
<1>3. f \in FrameType
  BY <1>1, StreamParts, SessionParts, SnapshotTyped DEF FrameType
<1>4. Sends(f) /\ vp' = [vp EXCEPT ![Cur] = w] /\ handler' = [handler EXCEPT ![Cur] = "serving"]
  BY DEF Snaps
<1> HIDE DEF w, f
<1>5. wire' \in Seq(FrameType) /\ (~client.up => wire' = <<>>)
  BY <1>3, <1>4, SendsTyped
<1>6. /\ vp' \in [Conns -> SessionType] /\ vp'[Cur] = w
      /\ \A c \in Conns : /\ vp'[c].live = vp[c].live /\ Len(vp'[c].ring) <= RingSize
                          /\ ~vp'[c].live => vp'[c].queue = <<>> /\ vp'[c].moves = None
  BY <1>1, <1>2, <1>4, StreamKept, SessionSet
<1>7. /\ handler' \in HandlerType /\ handler'[Cur] = "serving"
      /\ \A c \in Conns : c # Cur => handler'[c] = handler[c]
  BY <1>1, <1>4, HandlerSet
<1>8. StreamTyped'
  BY <1>1, <1>5, <1>6, <1>7, StreamParts DEF StreamTyped
<1>9. pump.pc # "dead" => vp'[Cur].slow < MaxSlow
  BY <1>2, <1>6, StreamKept
<1>10. handler'[Cur] # "none" /\ handler'[Cur] \in Holding /\ handler[Cur] \in Holding
  BY <1>1, <1>7, Stages
<1> QED
  BY <1>1, <1>5, <1>6, <1>7, <1>8, <1>9, <1>10, StreamKept, StepTyped

(* Answering a resume keeps the types of the stream.                       *)
LEMMA ResumeTyped ==
    ASSUME StreamInv, Resume PROVE StreamInv' /\ Cur' = Cur
<1> DEFINE b == client.back.conn
           old == vp[b]
           last == client.back.seq
           T == {f \in Range(old.ring) : f.seq > last}
<1>1. /\ client.up /\ b # 0 /\ Cur # 0 /\ handler[Cur] = "serving"
      /\ client' = [client EXCEPT !.back = NoBack]
      /\ UNCHANGED <<hub, unsaid, note, pump, wire, spent>>
  BY DEF Resume, At
<1>2. PICK outcome \in {"resync", "serving", "replaying"} :
        /\ replay' = IF outcome # "replaying" THEN NoReplay
                     ELSE [old |-> b, frames |-> Among(old.ring, T)]
        /\ handler' = [handler EXCEPT ![Cur] = outcome]
        /\ vp' = IF outcome = "replaying" THEN vp ELSE [vp EXCEPT ![b] = NoSession]
  <2> DEFINE outcome == IF ~Replayable(old, last) THEN "resync"
                      ELSE IF old.ring = <<>> THEN "serving" ELSE "replaying"
  <2>1. /\ replay' = IF outcome # "replaying" THEN NoReplay
                     ELSE [old |-> b, frames |-> Among(old.ring, T)]
        /\ handler' = [handler EXCEPT ![Cur] = outcome]
        /\ vp' = IF outcome = "replaying" THEN vp ELSE [vp EXCEPT ![b] = NoSession]
    BY DEF Resume
  <2>2. outcome \in {"resync", "serving", "replaying"}
    OBVIOUS
  <2> HIDE DEF outcome
  <2> QED
    BY <2>1, <2>2
<1>3. /\ b \in Conns /\ b < Cur /\ old \in SessionType /\ Cur \in Conns /\ b \in 0..MaxConns
      /\ client.back.conn \in 0..MaxConns
  BY <1>1, StreamParts, StreamKept
<1>4. Among(old.ring, T) \in Seq(RingType)
  BY <1>3, SessionParts, AmongKeeps
<1>5. replay' \in ReplayType /\ (replay'.old = 0 \/ replay'.old < Cur)
      /\ (outcome = "replaying" => replay'.old # 0)
  <2>1. NoReplay \in ReplayType /\ NoReplay.old = 0
    BY Constants DEF NoReplay, ReplayType
  <2> HIDE DEF b, T
  <2> QED
    BY <1>1, <1>2, <1>3, <1>4, <2>1 DEF ReplayType
<1>6. /\ client' \in ClientType /\ client'.back.conn = 0 /\ client'.up = client.up
  <2>1. NoBack \in [conn : 0..MaxConns, seq : Int] /\ NoBack.conn = 0
    BY Constants DEF NoBack
  <2> QED
    BY <1>1, <2>1, StreamParts DEF ClientType
<1>7. /\ handler' \in HandlerType /\ handler'[Cur] = outcome
      /\ \A c \in Conns : c # Cur => handler'[c] = handler[c]
      /\ outcome \in Serving /\ outcome \in Holding /\ outcome # "none" /\ "serving" \in Holding
  <2>1. outcome \in Serving /\ outcome \in Holding /\ "serving" \in Holding
    BY DEF Serving, Holding
  <2> QED
    BY <1>1, <1>2, <2>1, HandlerSet
<1>8. /\ vp' \in [Conns -> SessionType] /\ vp'[Cur] = vp[Cur]
      /\ \A c \in Conns : /\ vp'[c].live = vp[c].live /\ Len(vp'[c].ring) <= RingSize
                          /\ ~vp'[c].live => vp'[c].queue = <<>> /\ vp'[c].moves = None
  <2>1. CASE outcome = "replaying"
    BY <1>2, <2>1, StreamParts, StreamKept
  <2>2. CASE outcome # "replaying"
    <3>1. vp' = [vp EXCEPT ![b] = NoSession] /\ b # Cur /\ ~vp[b].live
      BY <1>2, <1>3, <2>2, StreamParts, StreamKept
    <3>2. /\ NoSession \in SessionType /\ ~NoSession.live /\ NoSession.ring = <<>>
          /\ NoSession.queue = <<>> /\ NoSession.moves = None
      BY EmptyTyped
    <3>3. Len(<<>>) <= RingSize /\ NoSession.live \in BOOLEAN /\ vp[b].live \in BOOLEAN
      BY <1>3, <3>2, SessionParts, Constants
    <3> HIDE DEF b
    <3>4. vp' \in [Conns -> SessionType] /\ \A c \in Conns : vp'[c] = IF c = b THEN NoSession ELSE vp[c]
      BY <1>3, <3>1, <3>2, StreamParts
    <3> QED
      BY <1>3, <3>1, <3>2, <3>3, <3>4, StreamKept
  <2> QED
    BY <2>1, <2>2
<1> HIDE DEF b, old, last, T
<1>9. StreamTyped'
  BY <1>1, <1>5, <1>6, <1>7, <1>8, StreamParts DEF StreamTyped
<1>10. outcome \in {"replaying", "sending"} => replay'.old # 0
  BY <1>5
<1> QED
  BY <1>1, <1>5, <1>6, <1>7, <1>8, <1>9, <1>10, StreamKept, StepTyped

(* One frame of a replay: what is sent, and what the session becomes. *)
LEMMA ReplayFrameIs ==
    ASSUME StreamInv, ReplayFrame
    PROVE  LET f == replay.frames[1]
               n == vp[Cur].seq
               g == [f EXCEPT !.seq = n]
               w == Numbered(Logged(vp[Cur], g))
           IN /\ Cur # 0 /\ handler[Cur] \in {"replaying", "sending"} /\ vp[Cur].live
              /\ handler[Cur] = "replaying" => pump.pc # "sending"
              /\ Len(replay.frames) >= 1 /\ f \in RingType
              /\ g.seq = n /\ g.id = f.id /\ g.ops = f.ops
              /\ Delta(n, f.id, f.ops) \in DeltaType
              /\ Sends(Delta(n, f.id, f.ops)) /\ vp' = [vp EXCEPT ![Cur] = w]
              /\ w \in SessionType /\ w.live = vp[Cur].live /\ w.slow = vp[Cur].slow
              /\ w.seq = n + 1 /\ w.ring = Ringed(vp[Cur].ring, RingEntry(g))
              /\ w.sent = vp[Cur].sent \cup {f.id} /\ w.after = vp[Cur].after
              /\ w.queue = vp[Cur].queue /\ w.moves = vp[Cur].moves /\ w.kept = vp[Cur].kept
              /\ RingEntry(g) \in RingType /\ Len(w.ring) <= RingSize
              /\ replay' = [replay EXCEPT !.frames = Tail(replay.frames)]
              /\ handler' = [handler EXCEPT ![Cur] = "sending"]
              /\ UNCHANGED <<hub, unsaid, note, pump, client, spent>>
<1> DEFINE f == replay.frames[1]
           n == vp[Cur].seq
           g == [f EXCEPT !.seq = n]
           v == vp[Cur]
           w == Numbered(Logged(v, g))
<1>1. /\ Cur # 0 /\ handler[Cur] \in {"replaying", "sending"} /\ replay.frames # <<>>
      /\ handler[Cur] = "replaying" => pump.pc # "sending"
      /\ replay' = [replay EXCEPT !.frames = Tail(replay.frames)]
      /\ handler' = [handler EXCEPT ![Cur] = "sending"]
      /\ UNCHANGED <<hub, unsaid, note, pump, client, spent>>
  BY DEF ReplayFrame, At
<1>2. /\ v \in SessionType /\ Len(v.ring) <= RingSize /\ replay.frames \in Seq(RingType)
      /\ Cur \in Conns /\ n \in Nat
  BY <1>1, StreamParts, SessionParts
<1>3. Len(replay.frames) >= 1 /\ Head(replay.frames) = f /\ f \in RingType
  BY <1>1, <1>2
<1>4. Sends(Delta(n, f.id, f.ops)) /\ vp' = [vp EXCEPT ![Cur] = w]
  <2>1. LET h == Head(replay.frames)
            m == vp[Cur].seq
        IN /\ Sends(Delta(m, h.id, h.ops))
           /\ vp' = [vp EXCEPT ![Cur] = Numbered(Logged(vp[Cur], [h EXCEPT !.seq = m]))]
    BY DEF ReplayFrame
  <2> QED
    BY <1>3, <2>1
<1>5. /\ f.seq \in Nat /\ f.id \in Ids /\ f.ops \in Seq(OpType)
      /\ g.seq = n /\ g.id = f.id /\ g.ops = f.ops
  BY <1>2, <1>3, LastingIsOp DEF RingType
<1>6. Delta(n, f.id, f.ops) \in DeltaType
  BY <1>2, <1>5 DEF Delta, DeltaType
<1> HIDE DEF g
<1>7. /\ Logged(v, g) = [v EXCEPT !.ring = Ringed(v.ring, RingEntry(g)), !.sent = v.sent \cup {g.id}]
      /\ RingEntry(g) \in RingType /\ Logged(v, g) \in SessionType
      /\ Len(Ringed(v.ring, RingEntry(g))) <= RingSize
  BY <1>2, <1>5, LoggedTyped
<1>8. w \in SessionType /\ w = [Logged(v, g) EXCEPT !.seq = Logged(v, g).seq + 1]
  BY <1>7, NumberedTyped
<1>9. /\ w.live = v.live /\ w.slow = v.slow /\ w.seq = n + 1
      /\ w.ring = Ringed(v.ring, RingEntry(g)) /\ w.sent = v.sent \cup {f.id} /\ w.after = v.after
      /\ w.queue = v.queue /\ w.moves = v.moves /\ w.kept = v.kept
  BY ZenonT(30), <1>2, <1>5, <1>7, <1>8 DEF SessionType
<1>10. vp[Cur].live
  BY <1>1, <1>2, StreamKept DEF Holding, Serving
<1> QED
  BY <1>1, <1>3, <1>4, <1>5, <1>6, <1>7, <1>8, <1>9, <1>10 DEF g

(* A replayed frame keeps the types of the stream.                         *)
LEMMA ReplayFrameTyped ==
    ASSUME StreamInv, ReplayFrame PROVE StreamInv' /\ Cur' = Cur
<1> DEFINE f == replay.frames[1]
           n == vp[Cur].seq
           g == [f EXCEPT !.seq = n]
           w == Numbered(Logged(vp[Cur], g))
           d == Delta(n, f.id, f.ops)
<1>1. /\ Cur # 0 /\ handler[Cur] \in {"replaying", "sending"} /\ vp[Cur].live
      /\ d \in DeltaType /\ Sends(d) /\ vp' = [vp EXCEPT ![Cur] = w]
      /\ w \in SessionType /\ w.live = vp[Cur].live /\ w.slow = vp[Cur].slow
      /\ Len(w.ring) <= RingSize
      /\ replay' = [replay EXCEPT !.frames = Tail(replay.frames)]
      /\ handler' = [handler EXCEPT ![Cur] = "sending"]
      /\ UNCHANGED <<hub, unsaid, note, pump, client, spent>>
      /\ Len(replay.frames) >= 1
  BY ReplayFrameIs
<1> HIDE DEF w, d
<1>2. wire' \in Seq(FrameType) /\ (~client.up => wire' = <<>>)
  BY <1>1, SendsTyped DEF FrameType
<1>3. /\ vp' \in [Conns -> SessionType] /\ vp'[Cur] = w
      /\ \A c \in Conns : /\ vp'[c].live = vp[c].live /\ Len(vp'[c].ring) <= RingSize
                          /\ ~vp'[c].live => vp'[c].queue = <<>> /\ vp'[c].moves = None
  BY <1>1, SessionSet
<1>4. /\ handler' \in HandlerType /\ handler'[Cur] = "sending"
      /\ \A c \in Conns : c # Cur => handler'[c] = handler[c]
      /\ "sending" \in Holding /\ "sending" # "none" /\ handler[Cur] \in Holding
      /\ "sending" \in Serving
  <2>1. "sending" \in Holding /\ "replaying" \in Holding /\ "sending" \in Serving
    BY DEF Holding, Serving
  <2> QED
    BY <1>1, <2>1, HandlerSet
<1>5. replay' \in ReplayType /\ replay'.old = replay.old
  <2>1. replay \in ReplayType /\ replay.frames \in Seq(RingType) /\ replay.frames # <<>>
    BY <1>1, StreamParts
  <2>2. Tail(replay.frames) \in Seq(RingType)
    BY <2>1
  <2> QED
    BY <1>1, <2>1, <2>2 DEF ReplayType
<1>6. StreamTyped'
  BY <1>1, <1>2, <1>3, <1>4, <1>5, StreamParts DEF StreamTyped
<1>7. pump.pc # "dead" => vp'[Cur].slow < MaxSlow
  BY <1>1, <1>3, StreamKept
<1> QED
  BY <1>1, <1>2, <1>3, <1>4, <1>5, <1>6, <1>7, StreamKept, StepTyped

(* The end of a replay: the new session, and what is left of the old one. *)
LEMMA ReplayDoneIs ==
    ASSUME StreamInv, ReplayDone
    PROVE  LET o == replay.old
               w == vp'[Cur]
           IN /\ Cur # 0 /\ handler[Cur] \in {"replaying", "sending"}
              /\ o \in Conns /\ o # 0 /\ o < Cur /\ replay.frames = <<>>
              /\ vp' \in [Conns -> SessionType]
              /\ w.live = vp[Cur].live /\ w.slow = vp[Cur].slow /\ w.seq = vp[Cur].seq
              /\ w.ring = vp[Cur].ring /\ w.sent = vp[Cur].sent /\ w.after = o
              /\ w.queue = vp[Cur].queue /\ w.moves = vp[Cur].moves /\ w.kept = vp[Cur].kept
              /\ vp'[o] = [NoSession EXCEPT !.sent = vp[o].sent]
              /\ \A c \in Conns : c # Cur /\ c # o => vp'[c] = vp[c]
              /\ replay' = NoReplay /\ handler' = [handler EXCEPT ![Cur] = "serving"]
              /\ UNCHANGED <<hub, unsaid, note, pump, wire, client, spent>>
<1> DEFINE o == replay.old
<1>1. /\ Cur # 0 /\ handler[Cur] \in {"replaying", "sending"} /\ replay.frames = <<>>
      /\ vp' = [vp EXCEPT ![Cur].at = vp[o].at, ![Cur].look = vp[o].look,
                          ![Cur].crossed = TRUE, ![Cur].after = o,
                          ![o] = [NoSession EXCEPT !.sent = vp[o].sent]]
      /\ replay' = NoReplay /\ handler' = [handler EXCEPT ![Cur] = "serving"]
      /\ UNCHANGED <<hub, unsaid, note, pump, wire, client, spent>>
  BY DEF ReplayDone, At
<1>2. /\ o \in Conns /\ o # 0 /\ o < Cur /\ o # Cur /\ Cur \in Conns /\ vp \in [Conns -> SessionType]
      /\ o \in 0..MaxConns
  BY <1>1, StreamParts, StreamKept
<1> HIDE DEF o
<1> DEFINE v == vp[Cur]
           w == [v EXCEPT !.at = vp[o].at, !.look = vp[o].look, !.crossed = TRUE, !.after = o]
           rest == [NoSession EXCEPT !.sent = vp[o].sent]
<1>3. v \in SessionType /\ vp[o] \in SessionType
  BY <1>2
<1>4. /\ w \in SessionType /\ w.live = v.live /\ w.slow = v.slow /\ w.seq = v.seq
      /\ w.ring = v.ring /\ w.sent = v.sent /\ w.after = o
      /\ w.queue = v.queue /\ w.moves = v.moves /\ w.kept = v.kept
  <2>1. vp[o].at \in Partial(Places) /\ vp[o].look \in LookType
    BY <1>3, SessionParts
  <2> QED
    BY <1>2, <1>3, <2>1 DEF SessionType
<1>5. rest \in SessionType
  BY <1>3, EmptyTyped, SessionParts DEF SessionType
<1>6. vp' = [c \in Conns |-> IF c = o THEN rest ELSE IF c = Cur THEN w ELSE vp[c]]
  BY <1>1, <1>2
<1> HIDE DEF w, rest
<1>7. vp'[Cur] = w /\ vp'[o] = rest /\ vp' \in [Conns -> SessionType]
      /\ \A c \in Conns : c # Cur /\ c # o => vp'[c] = vp[c]
  BY <1>2, <1>4, <1>5, <1>6
<1> QED
  BY <1>1, <1>2, <1>4, <1>7 DEF rest, o

(* The end of a replay keeps the types of the stream.                      *)
LEMMA ReplayDoneTyped ==
    ASSUME StreamInv, ReplayDone PROVE StreamInv' /\ Cur' = Cur
<1> DEFINE o == replay.old
<1>1. /\ Cur # 0 /\ handler[Cur] \in {"replaying", "sending"}
      /\ o \in Conns /\ o < Cur /\ vp' \in [Conns -> SessionType]
      /\ vp'[Cur].live = vp[Cur].live /\ vp'[Cur].slow = vp[Cur].slow
      /\ vp'[Cur].ring = vp[Cur].ring /\ vp'[Cur].queue = vp[Cur].queue
      /\ vp'[Cur].moves = vp[Cur].moves
      /\ vp'[o] = [NoSession EXCEPT !.sent = vp[o].sent]
      /\ \A c \in Conns : c # Cur /\ c # o => vp'[c] = vp[c]
      /\ replay' = NoReplay /\ handler' = [handler EXCEPT ![Cur] = "serving"]
      /\ UNCHANGED <<hub, unsaid, note, pump, wire, client, spent>>
  BY ReplayDoneIs
<1>2. /\ ~vp'[o].live /\ vp'[o].ring = <<>> /\ vp'[o].queue = <<>> /\ vp'[o].moves = None
  BY <1>1, EmptyTyped DEF SessionType
<1>3. ~vp[o].live /\ Len(<<>>) <= RingSize
  <2>1. o # Cur
    BY <1>1, StreamParts
  <2>2. ~vp[o].live
    BY <1>1, <2>1, StreamKept
  <2>3. Len(<<>>) = 0 /\ RingSize \in Nat
    BY Constants
  <2> QED
    BY <2>2, <2>3
<1>4. vp[o].live \in BOOLEAN /\ vp'[o].live \in BOOLEAN
  BY <1>1, StreamParts, SessionParts
<1> HIDE DEF o
<1>5. \A c \in Conns : /\ vp'[c].live = vp[c].live /\ Len(vp'[c].ring) <= RingSize
                       /\ ~vp'[c].live => vp'[c].queue = <<>> /\ vp'[c].moves = None
  <2> SUFFICES ASSUME NEW c \in Conns
               PROVE  /\ vp'[c].live = vp[c].live /\ Len(vp'[c].ring) <= RingSize
                      /\ ~vp'[c].live => vp'[c].queue = <<>> /\ vp'[c].moves = None
    OBVIOUS
  <2>1. CASE c = o
    BY <1>2, <1>3, <1>4, <2>1
  <2>2. CASE c = Cur
    BY <1>1, <2>2, StreamKept
  <2>3. CASE c # o /\ c # Cur
    BY <1>1, <2>3, StreamKept
  <2> QED
    BY <2>1, <2>2, <2>3
<1>6. NoReplay \in ReplayType /\ NoReplay.old = 0
  BY Constants DEF NoReplay, ReplayType
<1>7. /\ handler' \in HandlerType /\ handler'[Cur] = "serving"
      /\ \A c \in Conns : c # Cur => handler'[c] = handler[c]
      /\ "serving" \in Holding /\ "serving" # "none" /\ handler[Cur] \in Holding
      /\ "serving" \in Serving
  <2>1. "sending" \in Holding /\ "replaying" \in Holding /\ "serving" \in Serving
        /\ "serving" \in Holding
    BY DEF Holding, Serving
  <2> QED
    BY <1>1, <2>1, HandlerSet
<1>8. StreamTyped'
  BY <1>1, <1>6, <1>7, StreamParts DEF StreamTyped
<1>9. pump.pc # "dead" => vp'[Cur].slow < MaxSlow
  BY <1>1, StreamKept
<1> QED
  BY <1>1, <1>5, <1>6, <1>7, <1>8, <1>9, StreamKept, StepTyped

(* What is left keeps its ring and what it sent, and has no queue.         *)
LEMMA LeftParts ==
    ASSUME NEW v \in SessionType
    PROVE  /\ Left(v) \in SessionType /\ ~Left(v).live /\ Left(v).queue = <<>>
           /\ Left(v).moves = None /\ Left(v).ring = v.ring /\ Left(v).seq = v.seq
           /\ Left(v).sent = v.sent /\ Left(v).kept = v.kept /\ Left(v).after = v.after
<1> DEFINE w == [v EXCEPT !.live = FALSE, !.moves = None, !.queue = <<>>, !.abroad = {}, !.slow = 0]
<1>1. Left(v) \in SessionType /\ Left(v) = w
  BY LeftTyped
<1>2. /\ w.live = FALSE /\ w.queue = <<>> /\ w.moves = None /\ w.ring = v.ring /\ w.seq = v.seq
      /\ w.sent = v.sent /\ w.kept = v.kept /\ w.after = v.after
  BY DEF SessionType
<1> QED
  BY <1>1, <1>2

(* The end of a connection keeps the types of the stream.                  *)
LEMMA FinishTyped ==
    ASSUME StreamInv, Finish PROVE StreamInv' /\ Cur' = Cur
<1>1. /\ Cur # 0 /\ handler[Cur] \in Holding
      /\ handler' = [handler EXCEPT ![Cur] = "ended"]
      /\ vp' = [vp EXCEPT ![Cur] = Left(vp[Cur])]
      /\ pump' = Pump("dead") /\ replay' = NoReplay
      /\ UNCHANGED <<hub, unsaid, note, wire, client, spent>>
  BY DEF Finish, At, Holding
<1>2. Cur \in Conns /\ vp[Cur] \in SessionType /\ vp \in [Conns -> SessionType]
      /\ handler \in HandlerType
  BY <1>1, StreamParts
<1>3. /\ Left(vp[Cur]) \in SessionType /\ ~Left(vp[Cur]).live
      /\ Left(vp[Cur]).queue = <<>> /\ Left(vp[Cur]).moves = None
      /\ Left(vp[Cur]).ring = vp[Cur].ring
  BY <1>2, LeftParts
<1>4. vp' \in [Conns -> SessionType] /\ \A c \in Conns : vp'[c] = IF c = Cur THEN Left(vp[Cur]) ELSE vp[c]
  BY <1>1, <1>2, <1>3
<1>5. pump' \in PumpType /\ pump'.pc = "dead"
  BY <1>1, PumpTyped
<1>6. NoReplay \in ReplayType /\ NoReplay.old = 0
  BY Constants DEF NoReplay, ReplayType
<1>7. handler' \in HandlerType /\ \A c \in Conns : handler'[c] = IF c = Cur THEN "ended" ELSE handler[c]
  BY <1>1, <1>2 DEF HandlerType
<1>8. StreamTyped'
  BY <1>1, <1>4, <1>5, <1>6, <1>7, StreamParts DEF StreamTyped
<1>9. Cur' = Cur
  BY <1>1, <1>7, <1>2, StreamKept, CurStays
<1>10. Opened'
  BY <1>7, <1>9, StreamKept, StreamParts DEF StreamInv, Opened
<1>11. Attached'
  <2>1. "ended" \notin Holding
    BY Stages
  <2>2. \A c \in Conns : /\ vp'[c].live <=> c = Cur /\ handler'[c] \in Holding
                         /\ ~vp'[c].live => vp'[c].queue = <<>> /\ vp'[c].moves = None
                         /\ Len(vp'[c].ring) <= RingSize
    BY <1>3, <1>4, <1>7, <2>1, StreamKept
  <2> QED
    BY <1>1, <1>5, <1>9, <2>2, StreamKept DEF Attached
<1>12. Linked'
  BY <1>1, <1>2, <1>6, <1>7, <1>9, StreamKept DEF Linked, At
<1> QED
  BY <1>8, <1>9, <1>10, <1>11, <1>12 DEF StreamInv

(* Eviction keeps the types of the stream.                                 *)
LEMMA ExpireTyped ==
    ASSUME StreamInv, Expire PROVE StreamInv' /\ Cur' = Cur
<1>1. PICK e \in Conns : /\ handler[e] = "ended" /\ replay.old # e
                         /\ vp' = [vp EXCEPT ![e] = NoSession]
                         /\ UNCHANGED <<hub, unsaid, note, handler, pump, replay, wire, client, spent>>
  BY DEF Expire
<1>2. ~vp[e].live /\ vp[e].live \in BOOLEAN
  BY <1>1, StreamKept, StreamParts, SessionParts, Stages
<1>3. /\ NoSession \in SessionType /\ NoSession.live = FALSE /\ NoSession.ring = <<>>
      /\ NoSession.queue = <<>> /\ NoSession.moves = None /\ Len(<<>>) <= RingSize
  BY EmptyTyped, SessionParts, Constants
<1>4. vp' \in [Conns -> SessionType] /\ \A c \in Conns : vp'[c] = IF c = e THEN NoSession ELSE vp[c]
  BY <1>1, <1>3, StreamParts
<1>5. \A c \in Conns : /\ vp'[c].live = vp[c].live /\ Len(vp'[c].ring) <= RingSize
                       /\ ~vp'[c].live => vp'[c].queue = <<>> /\ vp'[c].moves = None
  BY <1>2, <1>3, <1>4, StreamKept
<1>6. StreamTyped'
  BY <1>1, <1>4, StreamParts DEF StreamTyped
<1>7. pump.pc # "dead" => Cur # 0 /\ Cur \in Conns /\ Cur # e
  BY <1>1, StreamKept, StreamParts, Stages
<1>8. pump.pc # "dead" => vp'[Cur].slow < MaxSlow
  BY <1>4, <1>7, StreamKept
<1> QED
  BY <1>1, <1>5, <1>6, <1>8, StreamKept, StepTyped

(* The sessions and the counters of a new connection. *)
LEMMA DialIs ==
    ASSUME StreamInv, Dial
    PROVE  \E back \in {NoBack, [conn |-> Cur, seq |-> client.seq]} :
              /\ back \in [conn : 0..MaxConns, seq : Int] /\ back.conn < Cur + 1
              /\ Cur + 1 \in Conns /\ ~client.up /\ wire = <<>>
              /\ vp' \in [Conns -> SessionType]
              /\ \A d \in Conns : vp'[d] = IF d = Cur + 1 THEN NewSession
                                           ELSE IF d = back.conn THEN Left(vp[d]) ELSE NoSession
              /\ handler' \in HandlerType
              /\ \A d \in Conns : handler'[d] = IF d = Cur + 1 THEN "greet"
                                                ELSE IF d < Cur + 1 THEN "ended" ELSE "none"
              /\ pump' = Pump("asleep") /\ replay' = NoReplay
              /\ client' = [client EXCEPT !.up = TRUE, !.seq = 0 - 1, !.back = back,
                                          !.heard = IF back.conn = 0 THEN {} ELSE client.heard]
              /\ UNCHANGED <<hub, unsaid, note, wire, spent>>
              /\ Cur' = Cur + 1
<1>1. PICK back \in {NoBack, [conn |-> Cur, seq |-> client.seq]} :
         /\ ~client.up /\ Cur + 1 \in Conns
         /\ vp' = [d \in Conns |-> IF d = Cur + 1 THEN NewSession
                                   ELSE IF d = back.conn THEN Left(vp[d]) ELSE NoSession]
         /\ handler' = [d \in Conns |-> IF d = Cur + 1 THEN "greet"
                                        ELSE IF d < Cur + 1 THEN "ended" ELSE "none"]
         /\ pump' = Pump("asleep") /\ replay' = NoReplay
         /\ client' = [client EXCEPT !.up = TRUE, !.seq = 0 - 1, !.back = back,
                                     !.heard = IF back.conn = 0 THEN {} ELSE @]
         /\ UNCHANGED <<hub, unsaid, note, wire, spent>>
  BY DEF Dial
<1>2. Cur \in Nat /\ MaxConns \in Nat /\ Cur \in 0..MaxConns /\ client.seq \in Int
  BY StreamParts
<1>3. back \in [conn : 0..MaxConns, seq : Int] /\ back.conn < Cur + 1
  BY <1>1, <1>2 DEF NoBack
<1>4. \A d \in Conns : Left(vp[d]) \in SessionType
  BY StreamParts, LeftTyped
<1>5. vp' \in [Conns -> SessionType]
  BY <1>1, <1>4, EmptyTyped
<1>6. handler' \in HandlerType
  BY <1>1 DEF HandlerType, Holding, Serving
<1>7. wire = <<>>
  BY <1>1, StreamKept
<1>8. Cur' = Cur + 1
  <2>1. Cur + 1 \in 0..MaxConns
    BY <1>1, <1>2 DEF Conns
  <2>2. \A c \in Conns : handler'[c] # "none" <=> c <= Cur + 1
    BY <1>1, <1>2 DEF Conns
  <2>3. Cur' = Cardinality({c \in Conns : handler'[c] # "none"})
    BY DEF Cur
  <2> QED
    BY <2>1, <2>2, <2>3, CurIs
<1> QED
  BY <1>1, <1>3, <1>5, <1>6, <1>7, <1>8

(* A new connection keeps the types of the stream.                         *)
LEMMA DialTyped ==
    ASSUME StreamInv, Dial PROVE StreamInv'
<1>1. PICK back \in {NoBack, [conn |-> Cur, seq |-> client.seq]} :
              /\ back \in [conn : 0..MaxConns, seq : Int] /\ back.conn < Cur + 1
              /\ Cur + 1 \in Conns /\ ~client.up /\ wire = <<>>
              /\ vp' \in [Conns -> SessionType]
              /\ \A d \in Conns : vp'[d] = IF d = Cur + 1 THEN NewSession
                                           ELSE IF d = back.conn THEN Left(vp[d]) ELSE NoSession
              /\ handler' \in HandlerType
              /\ \A d \in Conns : handler'[d] = IF d = Cur + 1 THEN "greet"
                                                ELSE IF d < Cur + 1 THEN "ended" ELSE "none"
              /\ pump' = Pump("asleep") /\ replay' = NoReplay
              /\ client' = [client EXCEPT !.up = TRUE, !.seq = 0 - 1, !.back = back,
                                          !.heard = IF back.conn = 0 THEN {} ELSE client.heard]
              /\ UNCHANGED <<hub, unsaid, note, wire, spent>>
              /\ Cur' = Cur + 1
  BY DialIs
<1>2. Cur \in Nat /\ MaxConns \in Nat /\ client \in ClientType
  BY StreamParts
<1>3. pump' \in PumpType /\ pump'.pc = "asleep"
  BY <1>1, PumpTyped
<1>4. NoReplay \in ReplayType /\ NoReplay.old = 0
  BY Constants DEF NoReplay, ReplayType
<1>5. client' \in ClientType /\ client'.up /\ client'.back = back
  <2>1. {} \in SUBSET Ids /\ 0 - 1 \in Int
    OBVIOUS
  <2>2. client.heard \in SUBSET Ids
    BY StreamParts
  <2>3. (IF back.conn = 0 THEN {} ELSE client.heard) \in SUBSET Ids
    BY <2>1, <2>2
  <2> QED
    BY <1>1, <1>2, <2>1, <2>3 DEF ClientType
<1>6. StreamTyped'
  BY <1>1, <1>3, <1>4, <1>5, StreamParts DEF StreamTyped
<1>7. Opened'
  BY <1>1, <1>2 DEF Opened, Conns
<1>8. Attached'
  <2>1. "greet" \in Serving /\ "greet" \in Holding /\ "ended" \notin Holding /\ "none" \notin Holding
    BY DEF Serving, Holding
  <2>2. \A c \in Conns : /\ ~Left(vp[c]).live /\ Left(vp[c]).queue = <<>> /\ Left(vp[c]).moves = None
                         /\ Left(vp[c]).ring = vp[c].ring /\ Len(vp[c].ring) <= RingSize
    BY StreamParts, LeftParts
  <2>3. /\ NewSession.live /\ NewSession.ring = <<>> /\ NewSession.slow = 0
        /\ ~NoSession.live /\ NoSession.ring = <<>> /\ NoSession.queue = <<>>
        /\ NoSession.moves = None
    BY EmptyTyped
  <2>4. Len(<<>>) <= RingSize /\ 0 < MaxSlow
    <3>1. Len(<<>>) = 0 /\ RingSize \in Nat /\ MaxSlow \in Nat \ {0}
      BY Constants
    <3> QED
      BY <3>1
  <2>5. \A c \in Conns : /\ vp'[c].live <=> c = Cur'
                         /\ handler'[c] \in Holding <=> c = Cur'
                         /\ ~vp'[c].live => vp'[c].queue = <<>> /\ vp'[c].moves = None
                         /\ Len(vp'[c].ring) <= RingSize
    BY <1>1, <2>1, <2>2, <2>3, <2>4
  <2>6. Cur' # 0 /\ handler'[Cur'] \in Serving /\ vp'[Cur'].slow < MaxSlow
    BY <1>1, <1>2, <2>1, <2>3, <2>4
  <2> QED
    BY <1>5, <2>5, <2>6 DEF Attached
<1>9. Linked'
  <2>1. handler'[Cur'] = "greet"
    BY <1>1
  <2> QED
    BY <1>1, <1>4, <1>5, <2>1 DEF Linked, At
<1> QED
  BY <1>6, <1>7, <1>8, <1>9 DEF StreamInv

-----------------------------------------------------------------------------
(* The client keeps the shape of the stream.                               *)

(* What hearing a frame does to the client and the wire.                   *)
LEMMA HearIs ==
    ASSUME StreamInv, Hear
    PROVE  LET f == wire[1]
               known == f.kind = "delta"
           IN /\ Len(wire) >= 1 /\ f \in FrameType /\ wire' = Tail(wire)
              /\ wire' \in Seq(FrameType)
              /\ client' = [client EXCEPT
                    !.view = ApplyFrame(client.view, f), !.seq = f.seq,
                    !.heard = IF known THEN client.heard \cup {f.id} ELSE client.heard,
                    !.twice = client.twice \/ (known /\ f.id \in client.heard),
                    !.late = client.late \/ (known /\ \E i \in DOMAIN f.ops :
                                 f.ops[i].op = "bubble" /\ f.ops[i].value # Cur)]
              /\ UNCHANGED <<hub, unsaid, note, vp, handler, pump, replay, spent>>
<1>1. wire \in Seq(FrameType) /\ wire # <<>>
  BY StreamParts DEF Hear
<1>2. Len(wire) >= 1 /\ wire[1] \in FrameType /\ Head(wire) = wire[1] /\ Tail(wire) \in Seq(FrameType)
  BY <1>1
<1> QED
  BY <1>2 DEF Hear

(* Hearing a frame keeps the types of the stream.                          *)
LEMMA HearTyped ==
    ASSUME StreamInv, Hear PROVE StreamInv' /\ Cur' = Cur
<1> DEFINE f == wire[1]
           known == f.kind = "delta"
           late == known /\ \E i \in DOMAIN f.ops : f.ops[i].op = "bubble" /\ f.ops[i].value # Cur
           hears == IF known THEN client.heard \cup {f.id} ELSE client.heard
           twice == known /\ f.id \in client.heard
<1>1. /\ Len(wire) >= 1 /\ f \in FrameType /\ wire' \in Seq(FrameType)
      /\ client' = [client EXCEPT !.view = ApplyFrame(client.view, f), !.seq = f.seq,
                                  !.heard = hears, !.twice = client.twice \/ twice,
                                  !.late = client.late \/ late]
      /\ UNCHANGED <<hub, unsaid, note, vp, handler, pump, replay, spent>>
  BY HearIs
<1>2. client \in ClientType /\ client.view \in ViewType /\ client.heard \in SUBSET Ids
      /\ wire \in Seq(FrameType)
  BY StreamParts
<1>3. ApplyFrame(client.view, f) \in ViewType
  BY <1>1, <1>2, ApplyFrameTyped DEF FrameType
<1>4. f.seq \in Int /\ hears \in SUBSET Ids
  BY <1>1, <1>2 DEF FrameType, DeltaType, SnapshotType
<1>5. late \in BOOLEAN /\ twice \in BOOLEAN
  OBVIOUS
<1> HIDE DEF f, late, hears, twice
<1>6. client' \in ClientType /\ client'.up = client.up /\ client'.back = client.back
  BY <1>1, <1>2, <1>3, <1>4, <1>5 DEF ClientType
<1>7. StreamTyped'
  BY <1>1, <1>6, StreamParts DEF StreamTyped
<1>8. client.up
  BY <1>1, <1>2, StreamKept, EmptySeq
<1> QED
  BY <1>1, <1>6, <1>7, <1>8, StreamKept, StepTyped

(* A socket that is gone keeps the types of the stream.                    *)
LEMMA DropsTyped ==
    ASSUME StreamInv, Drops, spent' \in [changes : Nat, losses : Nat]
    PROVE  StreamInv' /\ Cur' = Cur
<1>1. /\ client' = [client EXCEPT !.up = FALSE] /\ wire' = <<>>
      /\ UNCHANGED <<hub, unsaid, note, vp, handler, pump, replay>>
  BY DEF Drops
<1>2. client' \in ClientType /\ ~client'.up /\ client'.back = client.back
  BY <1>1, StreamParts DEF ClientType
<1>3. StreamTyped'
  BY <1>1, <1>2, StreamParts DEF StreamTyped
<1> QED
  BY <1>1, <1>2, <1>3, StreamKept, StepTyped

(* Both ways to lose the socket keep the types of the stream.              *)
LEMMA LosesTyped ==
    ASSUME StreamInv, Lose \/ SeeClosed PROVE StreamInv' /\ Cur' = Cur /\ Drops
<1>1. Drops /\ spent' \in [changes : Nat, losses : Nat]
  BY StreamParts DEF Lose, SeeClosed
<1> QED
  BY <1>1, DropsTyped

(* The stream is typed at first, and has no connection.                    *)
LEMMA InitTyped ==
    ASSUME ViewportInit PROVE StreamInv /\ Cur = 0
<1>1. Cur = 0
  <2>1. 0 \in 0..MaxConns /\ \A c \in Conns : handler[c] # "none" <=> c <= 0
    BY Constants DEF ViewportInit, Conns
  <2> QED
    BY <2>1, CurIs DEF Cur
<1>2. hub \in HubType
  BY Constants DEF ViewportInit, HubType, Places
<1>3. vp \in [Conns -> SessionType] /\ \A c \in Conns : vp[c] = NoSession
  BY EmptyTyped DEF ViewportInit
<1>4. handler \in HandlerType /\ \A c \in Conns : handler[c] = "none"
  BY DEF ViewportInit, HandlerType
<1>5. pump \in PumpType /\ pump.pc = "dead"
  BY PumpTyped DEF ViewportInit
<1>6. replay \in ReplayType /\ replay.old = 0
  BY Constants DEF ViewportInit, NoReplay, ReplayType
<1>7. EmptyView \in ViewType
  BY NoneTyped DEF EmptyView, ViewType
<1>8. client \in ClientType /\ ~client.up /\ client.back.conn = 0
  BY <1>7, Constants DEF ViewportInit, ClientType, NoBack
<1>9. wire \in Seq(FrameType) /\ wire = <<>> /\ spent \in [changes : Nat, losses : Nat]
      /\ unsaid \in SUBSET Souls /\ note \in {"none", "api", "sim"}
  BY DEF ViewportInit
<1>10. StreamTyped
  BY <1>2, <1>3, <1>4, <1>5, <1>6, <1>8, <1>9 DEF StreamTyped
<1>11. Opened
  BY <1>1, <1>4, Constants DEF Opened, Conns
<1>12. Attached
  <2>1. /\ ~NoSession.live /\ NoSession.ring = <<>> /\ NoSession.queue = <<>> /\ NoSession.moves = None
    BY EmptyTyped
  <2>2. Len(<<>>) <= RingSize
    <3>1. Len(<<>>) = 0 /\ RingSize \in Nat
      BY Constants
    <3> QED
      BY <3>1
  <2>3. \A c \in Conns : c # Cur
    BY <1>1 DEF Conns
  <2> QED
    BY <1>3, <1>5, <1>9, <2>1, <2>2, <2>3 DEF Attached
<1> QED
  BY <1>1, <1>6, <1>8, <1>10, <1>11, <1>12 DEF StreamInv, Linked, At

(* Every step but Dial keeps the count of the connections. *)
LEMMA NextTyped ==
    ASSUME StreamInv, [ViewportNext]_viewportVars
    PROVE  StreamInv' /\ (~Dial => Cur' = Cur)
<1>1. CASE UNCHANGED viewportVars
  BY <1>1 DEF viewportVars, StreamInv, StreamTyped, Opened, Attached, Linked, At, Cur
<1>2. CASE World
  BY <1>2, WorldKeepsStream
<1>3. CASE Pumps \/ PumpFails
  BY <1>3, PumpReadTyped, PumpDiffTyped, PumpLockedTyped, PumpSentTyped, PumpFailsTyped DEF Pumps
<1>4. CASE Handler
  BY <1>4, SnapsIs, SnapsTyped, ReplayFrameTyped, ReplayDoneTyped DEF Handler
<1>5. CASE Dial
  BY <1>5, DialTyped
<1>6. CASE Resume \/ Finish \/ Expire
  BY <1>6, ResumeTyped, FinishTyped, ExpireTyped
<1>7. CASE Hear \/ Lose \/ SeeClosed
  BY <1>7, HearTyped, LosesTyped
<1> QED
  BY <1>1, <1>2, <1>3, <1>4, <1>5, <1>6, <1>7 DEF ViewportNext

(* The stream keeps its shape whatever the order of the world, the pump,   *)
(* the connections and the losses; the type invariant follows.             *)
THEOREM StreamIsTyped == ViewportSpec => []StreamInv
<1>1. ViewportInit => StreamInv
  BY InitTyped
<1>2. StreamInv /\ [ViewportNext]_viewportVars => StreamInv'
  BY NextTyped
<1> QED
  BY <1>1, <1>2, PTL DEF ViewportSpec

-----------------------------------------------------------------------------
(* Bubbles: the one that is posted is queued for the connection that is    *)
(* live, then in flight on it, then shown, and nowhere twice.              *)
BubbleInv ==
    /\ \A c \in Conns : Once(vp[c].queue)
    /\ \A c \in Conns : \A i \in Says(vp[c].queue) : vp[c].queue[i].value = Cur
    /\ \A c \in Conns : ~Quiet(vp[c].queue) => client.view.bubbles = 0 /\ note = "api"
    /\ \A k \in 1..Len(wire) : Speaks(wire[k]) =>
          /\ Once(wire[k].ops) /\ \A i \in Says(wire[k].ops) : wire[k].ops[i].value = Cur
          /\ client.view.bubbles = 0 /\ note = "api"
          /\ \A c \in Conns : Quiet(vp[c].queue)
    /\ \A k, l \in 1..Len(wire) : Speaks(wire[k]) /\ Speaks(wire[l]) => k = l
    /\ client.view.bubbles # 0 => client.view.bubbles = 1 /\ note = "api"
    /\ ~client.late

(* No ops say nothing.                                                     *)
LEMMA NothingSaid == Says(<<>>) = {} /\ Once(<<>>) /\ Quiet(<<>>)
<1>1. Len(<<>>) = 0
  OBVIOUS
<1>2. Says(<<>>) = {}
  BY <1>1 DEF Says
<1> QED
  BY <1>2 DEF Once, Quiet

(* The bubble is in the same place of both queues. *)
SaysAlike(p, q) == Says(p) = Says(q) /\ \A i \in Says(q) : p[i] = q[i]

(* A step that posts, sends and shows no bubble. *)
LEMMA BubbleKept ==
    ASSUME BubbleInv, Cur' = Cur, note' = note,
           client'.view.bubbles = client.view.bubbles, client'.late = client.late,
           \A c \in Conns : vp'[c].queue = <<>> \/ SaysAlike(vp'[c].queue, vp[c].queue),
           \A k \in 1..Len(wire') : Speaks(wire'[k]) => k \in 1..Len(wire) /\ wire'[k] = wire[k]
    PROVE  BubbleInv'
<1>1. \A c \in Conns : /\ Once(vp'[c].queue)
                       /\ \A i \in Says(vp'[c].queue) : vp'[c].queue[i].value = Cur
                       /\ ~Quiet(vp'[c].queue) => ~Quiet(vp[c].queue)
  <2> SUFFICES ASSUME NEW c \in Conns
               PROVE  /\ Once(vp'[c].queue)
                      /\ \A i \in Says(vp'[c].queue) : vp'[c].queue[i].value = Cur
                      /\ ~Quiet(vp'[c].queue) => ~Quiet(vp[c].queue)
    OBVIOUS
  <2>1. CASE vp'[c].queue = <<>>
    BY <2>1, NothingSaid
  <2>2. CASE SaysAlike(vp'[c].queue, vp[c].queue)
    <3>1. Once(vp[c].queue) /\ \A i \in Says(vp[c].queue) : vp[c].queue[i].value = Cur
      BY DEF BubbleInv
    <3>2. /\ Says(vp'[c].queue) = Says(vp[c].queue)
          /\ \A i \in Says(vp[c].queue) : vp'[c].queue[i] = vp[c].queue[i]
      BY <2>2 DEF SaysAlike
    <3> QED
      BY <3>1, <3>2 DEF Once, Quiet
  <2> QED
    BY <2>1, <2>2
<1>2. \A k \in 1..Len(wire') : Speaks(wire'[k]) =>
          /\ Once(wire'[k].ops) /\ \A i \in Says(wire'[k].ops) : wire'[k].ops[i].value = Cur
          /\ client.view.bubbles = 0 /\ note = "api"
          /\ \A c \in Conns : Quiet(vp'[c].queue)
  BY <1>1 DEF BubbleInv
<1>3. \A k, l \in 1..Len(wire') : Speaks(wire'[k]) /\ Speaks(wire'[l]) => k = l
  BY DEF BubbleInv
<1>4. /\ \A c \in Conns : ~Quiet(vp'[c].queue) => client.view.bubbles = 0 /\ note = "api"
      /\ client.view.bubbles # 0 => client.view.bubbles = 1 /\ note = "api"
      /\ ~client.late
  BY <1>1 DEF BubbleInv
<1> QED
  BY <1>1, <1>2, <1>3, <1>4 DEF BubbleInv

(* What a send of a frame without a bubble adds to the wire. *)
LEMMA SendsQuietly ==
    ASSUME StreamInv, NEW f \in FrameType, Sends(f), ~Speaks(f)
    PROVE  \A k \in 1..Len(wire') : Speaks(wire'[k]) => k \in 1..Len(wire) /\ wire'[k] = wire[k]
<1>1. wire \in Seq(FrameType)
  BY StreamParts
<1>2. CASE client.up
  <2>1. wire' = Append(wire, f)
    BY <1>2, SendsTyped
  <2> QED
    BY <1>1, <2>1
<1>3. CASE ~client.up
  BY <1>3, SendsTyped
<1> QED
  BY <1>2, <1>3

(* The queues of the sessions, all but one as before. *)
LEMMA QueueSet ==
    ASSUME StreamInv, Cur # 0, NEW v, vp' = [vp EXCEPT ![Cur] = v],
           v.queue = <<>> \/ SaysAlike(v.queue, vp[Cur].queue)
    PROVE  \A c \in Conns : vp'[c].queue = <<>> \/ SaysAlike(vp'[c].queue, vp[c].queue)
<1>1. \A c \in Conns : vp'[c] = IF c = Cur THEN v ELSE vp[c]
  BY StreamParts
<1>2. \A c \in Conns : SaysAlike(vp[c].queue, vp[c].queue)
  BY DEF SaysAlike
<1> QED
  BY <1>1, <1>2

(* Every queue says what it says.                                          *)
LEMMA Alike == \A q : SaysAlike(q, q)
BY DEF SaysAlike

(* A step of the world posts the bubble at most once.                      *)
LEMMA WorldBubbles ==
    ASSUME StreamInv, BubbleInv, World PROVE BubbleInv'
<1>1. WorldDoes /\ Cur' = Cur /\ UNCHANGED <<wire, client>>
  BY WorldTyped, WorldKeepsStream DEF WorldDoes, Apart
<1>2. CASE vp' = vp /\ note' = note
  BY <1>1, <1>2, Alike, BubbleKept
<1>3. CASE vp' = vp /\ note = "none" /\ note' = "sim"
  <2>1. /\ \A c \in Conns : Quiet(vp[c].queue) /\ client.view.bubbles = 0
        /\ \A k \in 1..Len(wire) : ~Speaks(wire[k])
    BY <1>3 DEF BubbleInv
  <2>2. client.view.bubbles = 0
    BY <1>3 DEF BubbleInv
  <2> QED
    BY <1>1, <1>3, <2>1, <2>2 DEF BubbleInv
<1>4. ASSUME NEW op \in LastingOp, Queued(op), note' = note PROVE BubbleInv'
  <2>1. op \in OpType /\ op.op # "bubble"
    BY LastingIsOp
  <2>2. \A c \in Conns : vp'[c].queue = vp[c].queue \o <<op>> \/ vp'[c].queue = vp[c].queue
    BY <1>4, <2>1, QueuedTyped
  <2>3. \A c \in Conns : vp[c].queue \in Seq(OpType) /\ <<op>> \in Seq(LastingOp)
    BY StreamParts, SessionParts
  <2>4. \A c \in Conns : SaysAlike(vp'[c].queue, vp[c].queue)
    <3> SUFFICES ASSUME NEW c \in Conns PROVE SaysAlike(vp'[c].queue, vp[c].queue)
      OBVIOUS
    <3>1. SaysAlike(vp[c].queue \o <<op>>, vp[c].queue)
      BY <2>3, SaysAfter DEF SaysAlike
    <3> QED
      BY <2>2, <3>1, Alike
  <2> QED
    BY <1>1, <1>4, <2>4, BubbleKept
<1>5. ASSUME NEW s \in Souls, Queued(BubbleOp(s)), note = "none", note' = "api" PROVE BubbleInv'
  <2> DEFINE op == BubbleOp(s)
  <2>1. op \in OpType /\ op.op = "bubble" /\ op.value = Cur
    BY BubbleOpTyped
  <2> HIDE DEF op
  <2>2. /\ \A c \in Conns : Quiet(vp[c].queue)
        /\ \A k \in 1..Len(wire) : ~Speaks(wire[k])
        /\ client.view.bubbles = 0 /\ ~client.late
    BY <1>5 DEF BubbleInv
  <2>3. \A c \in Conns : vp'[c].queue = vp[c].queue \o <<op>> \/ vp'[c].queue = vp[c].queue
    BY <1>5, <2>1, QueuedTyped DEF op
  <2>4. \A c \in Conns : /\ Once(vp'[c].queue)
                         /\ \A i \in Says(vp'[c].queue) : vp'[c].queue[i].value = Cur
    <3> SUFFICES ASSUME NEW c \in Conns
                 PROVE  /\ Once(vp'[c].queue)
                        /\ \A i \in Says(vp'[c].queue) : vp'[c].queue[i].value = Cur
      OBVIOUS
    <3>1. CASE vp'[c].queue = vp[c].queue
      BY <2>2, <3>1 DEF Quiet, Once
    <3>2. CASE vp'[c].queue = vp[c].queue \o <<op>>
      <4>1. vp[c].queue \in Seq(OpType) /\ Says(vp[c].queue) = {}
        BY <2>2, StreamParts, SessionParts DEF Quiet
      <4> DEFINE q == vp[c].queue
      <4>2. q \in Seq(OpType) /\ \A i \in 1..Len(q) : q[i].op # "bubble"
        BY <4>1 DEF Says
      <4> HIDE DEF q
      <4>3. Len(q \o <<op>>) = Len(q) + 1 /\ (q \o <<op>>)[Len(q) + 1] = op
            /\ \A i \in 1..Len(q) : (q \o <<op>>)[i] = q[i]
        BY <2>1, <4>2
      <4>4. Says(q \o <<op>>) \subseteq {Len(q) + 1}
        BY <4>2, <4>3 DEF Says
      <4> QED
        BY <2>1, <3>2, <4>3, <4>4 DEF q, Once
    <3> QED
      BY <2>3, <3>1, <3>2
  <2> QED
    BY <1>1, <1>5, <2>2, <2>4 DEF BubbleInv
<1> QED
  BY <1>1, <1>2, <1>3, <1>4, <1>5 DEF WorldDoes

(* A flush puts the bubble that is queued on the wire. *)
LEMMA FlushBubbles ==
    ASSUME StreamInv, BubbleInv, pump.pc # "dead", NEW v, Ready(v), Flush(Cur, v),
           SaysAlike(v.queue, vp[Cur].queue),
           UNCHANGED <<hub, unsaid, note, replay, client, spent>>
    PROVE  BubbleInv'
<1>1. Cur' = Cur /\ Cur # 0 /\ Cur \in Conns /\ note' = note /\ client' = client
  BY FlushTyped, PumpIsReady
<1>2. v \in SessionType
  BY DEF Ready
<1>3. CASE Rests(Cur, v)
  <2>1. vp' = [vp EXCEPT ![Cur] = [v EXCEPT !.slow = 0]] /\ wire' = wire
    BY <1>3 DEF Rests
  <2>2. [v EXCEPT !.slow = 0].queue = v.queue
    BY <1>2 DEF SessionType
  <2>3. \A c \in Conns : vp'[c].queue = <<>> \/ SaysAlike(vp'[c].queue, vp[c].queue)
    BY <1>1, <2>1, <2>2, QueueSet
  <2> QED
    BY <1>1, <2>1, <2>3, BubbleKept
<1>4. CASE Balks(Cur, v)
  <2>1. vp' = [vp EXCEPT ![Cur] = [v EXCEPT !.slow = @ + 1]] /\ wire' = wire
    BY <1>4 DEF Balks
  <2>2. [v EXCEPT !.slow = @ + 1].queue = v.queue
    BY <1>2 DEF SessionType
  <2>3. \A c \in Conns : vp'[c].queue = <<>> \/ SaysAlike(vp'[c].queue, vp[c].queue)
    BY <1>1, <2>1, <2>2, QueueSet
  <2> QED
    BY <1>1, <2>1, <2>3, BubbleKept
<1>5. ASSUME Sends(FrameOf(Cur, v)), NEW w, vp' = [vp EXCEPT ![Cur] = w], w.queue = <<>>
      PROVE  BubbleInv'
  <2> DEFINE f == FrameOf(Cur, v)
  <2>1. /\ f \in DeltaType /\ f \in FrameType /\ Says(f.ops) = Says(v.queue) /\ f.kind = "delta"
        /\ \A i \in Says(v.queue) : f.ops[i] = v.queue[i]
    BY ZenonT(30), <1>1, <1>2, TakenTyped
  <2>2. /\ Says(f.ops) = Says(vp[Cur].queue)
        /\ \A i \in Says(vp[Cur].queue) : f.ops[i] = vp[Cur].queue[i]
    BY <2>1 DEF SaysAlike
  <2> HIDE DEF f
  <2>3. \A c \in Conns : vp'[c].queue = <<>> \/ SaysAlike(vp'[c].queue, vp[c].queue)
    BY <1>1, <1>5, QueueSet
  <2>4. CASE ~Speaks(f)
    BY <1>1, <1>5, <2>1, <2>3, <2>4, SendsQuietly, BubbleKept DEF f
  <2>5. CASE ~client.up
    BY <1>1, <1>5, <2>1, <2>3, <2>5, SendsTyped, BubbleKept DEF f
  <2>6. CASE Speaks(f) /\ client.up
    <3>1. ~Quiet(vp[Cur].queue)
      BY <2>2, <2>6 DEF Speaks, Quiet
    <3>2. client.view.bubbles = 0 /\ note = "api" /\ ~client.late
          /\ \A k \in 1..Len(wire) : ~Speaks(wire[k])
      BY <1>1, <3>1 DEF BubbleInv
    <3>3. Once(f.ops) /\ \A i \in Says(f.ops) : f.ops[i].value = Cur
      BY <1>1, <2>2 DEF BubbleInv, Once
    <3>4. \A c \in Conns : vp'[c].queue = <<>>
      <4>1. \A c \in Conns : c # Cur => vp[c].queue = <<>>
        BY StreamKept
      <4> QED
        BY <1>5, <4>1, StreamParts
    <3>5. /\ Len(wire') = Len(wire) + 1 /\ wire'[Len(wire) + 1] = f
          /\ \A k \in 1..Len(wire) : wire'[k] = wire[k]
      <4>1. wire' = Append(wire, f) /\ wire \in Seq(FrameType)
        BY <1>5, <2>1, <2>6, SendsTyped, StreamParts DEF f
      <4> QED
        BY <4>1
    <3>6. \A k \in 1..Len(wire') : Speaks(wire'[k]) => k = Len(wire) + 1 /\ wire'[k] = f
      <4>1. Len(wire) \in Nat
        BY StreamParts, LenProperties
      <4> QED
        BY <3>2, <3>5, <4>1
    <3> QED
      BY <1>1, <3>2, <3>3, <3>4, <3>6, NothingSaid DEF BubbleInv
  <2> QED
    BY <2>4, <2>5, <2>6
<1>6. TakenFrom(v).queue = <<>> /\ TakenFrom(v) \in SessionType /\ Len(TakenFrom(v).ring) <= RingSize
  BY <1>2, TakenParts DEF Ready
<1>7. CASE Starts(Cur, v)
  BY <1>5, <1>6, <1>7 DEF Starts
<1>8. CASE Flushes(Cur, v)
  <2>1. Committed(TakenFrom(v), FrameOf(Cur, v), pump.seen).queue = <<>>
    <3>1. FrameOf(Cur, v) \in DeltaType /\ pump.seen \in SeenType
      BY <1>1, <1>2, TakenTyped, StreamParts
    <3>2. Committed(TakenFrom(v), FrameOf(Cur, v), pump.seen).queue = TakenFrom(v).queue
      BY <1>6, <3>1, FlushedParts
    <3> QED
      BY <1>6, <3>2
  <2> QED
    BY <1>5, <1>8, <2>1 DEF Flushes
<1> QED
  BY <1>3, <1>4, <1>7, <1>8, FlushCases

(* The diffs put no bubble in the queue.                                   *)
LEMMA DiffedAlike ==
    ASSUME NEW v \in SessionType, NEW seen \in SeenType
    PROVE  SaysAlike(Diffed(v, seen).queue, v.queue)
<1>1. PICK ops \in Seq(LastingOp), moves \in Partial(LastingOp) :
         Diffed(v, seen) = [v EXCEPT !.queue = @ \o ops, !.moves = moves, !.abroad = seen.abroad]
  BY DiffedTyped
<1>2. Diffed(v, seen).queue = v.queue \o ops
  BY <1>1 DEF SessionType
<1> QED
  BY <1>2, SessionParts, SaysAfter DEF SaysAlike

(* The pump moves the bubble from the queue to the frame.                  *)
LEMMA PumpBubbles ==
    ASSUME StreamInv, BubbleInv, Pumps \/ PumpFails PROVE BubbleInv'
<1>1. CASE PumpRead \/ PumpFails
  <2>1. UNCHANGED <<note, vp, wire, client>> /\ Cur' = Cur
    BY <1>1, PumpReadTyped, PumpFailsTyped DEF PumpRead, PumpFails
  <2> QED
    BY <2>1, Alike, BubbleKept
<1>2. CASE PumpDiff
  <2> DEFINE v == Diffed(vp[Cur], pump.seen)
  <2>1. /\ pump.pc # "dead" /\ UNCHANGED <<hub, unsaid, note, replay, client, spent>>
        /\ Cur' = Cur
    BY <1>2, PumpDiffTyped DEF PumpDiff
  <2>2. /\ Cur # 0 /\ Ready(v) /\ SaysAlike(v.queue, vp[Cur].queue)
    BY <2>1, PumpIsReady, DiffedAlike, StreamParts
  <2>3. CASE At({"sending"})
    <3>1. vp' = [vp EXCEPT ![Cur] = v] /\ UNCHANGED wire
      BY <1>2, <2>3 DEF PumpDiff
    <3> HIDE DEF v
    <3>2. \A c \in Conns : vp'[c].queue = <<>> \/ SaysAlike(vp'[c].queue, vp[c].queue)
      BY <2>2, <3>1, QueueSet
    <3> QED
      BY <2>1, <3>1, <3>2, BubbleKept
  <2>4. CASE ~At({"sending"})
    <3>1. Flush(Cur, v)
      BY <1>2, <2>4 DEF PumpDiff
    <3> HIDE DEF v
    <3> QED
      BY <2>1, <2>2, <3>1, FlushBubbles
  <2> QED
    BY <2>3, <2>4
<1>3. CASE PumpLocked
  <2>1. /\ pump.pc # "dead" /\ Flush(Cur, vp[Cur])
        /\ UNCHANGED <<hub, unsaid, note, replay, client, spent>>
    BY <1>3 DEF PumpLocked
  <2> QED
    BY <2>1, PumpIsReady, Alike, FlushBubbles
<1>4. CASE PumpSent
  <2> DEFINE w == Committed(vp[Cur], pump.frame, pump.seen)
  <2>1. /\ pump.pc # "dead" /\ vp' = [vp EXCEPT ![Cur] = w] /\ UNCHANGED <<note, wire, client>>
        /\ Cur' = Cur
    <3>1. /\ pump.pc = "sending" /\ UNCHANGED <<note, wire, client>>
          /\ vp' = [vp EXCEPT ![Cur] = Committed(vp[Cur], pump.frame, pump.seen)]
      BY <1>4 DEF PumpSent
    <3> QED
      BY <1>4, <3>1, PumpSentTyped
  <2>2. Cur # 0 /\ vp[Cur] \in SessionType /\ Len(vp[Cur].ring) <= RingSize
    BY <2>1, PumpIsReady DEF Ready
  <2>3. w.queue = vp[Cur].queue
    BY <2>2, FlushedParts, StreamParts
  <2> HIDE DEF w
  <2>4. \A c \in Conns : vp'[c].queue = <<>> \/ SaysAlike(vp'[c].queue, vp[c].queue)
    BY <2>1, <2>2, <2>3, Alike, QueueSet
  <2> QED
    BY <2>1, <2>4, BubbleKept
<1> QED
  BY <1>1, <1>2, <1>3, <1>4 DEF Pumps

(* Lasting ops have no bubble.                                             *)
LEMMA LastingIsQuiet ==
    ASSUME NEW ops \in Seq(LastingOp) PROVE Quiet(ops)
<1>1. \A i \in 1..Len(ops) : ops[i] \in LastingOp
  OBVIOUS
<1> QED
  BY <1>1, LastingIsOp DEF Quiet, Says

(* Neither a snapshot nor a replayed frame has a bubble. *)
LEMMA HandlerBubbles ==
    ASSUME StreamInv, BubbleInv, Handler PROVE BubbleInv'
<1>1. CASE Greet \/ Resync
  <2>1. Snaps /\ Cur' = Cur
    BY <1>1, SnapsIs, SnapsTyped
  <2>2. /\ Cur # 0 /\ Sends(Snapshot(vp[Cur].seq)) /\ vp' = [vp EXCEPT ![Cur] = Snapped(vp[Cur])]
        /\ UNCHANGED <<note, client>>
    BY <2>1 DEF Snaps
  <2>3. Snapped(vp[Cur]).queue = vp[Cur].queue
    BY <2>2, SnappedParts
  <2>4. \A c \in Conns : vp'[c].queue = <<>> \/ SaysAlike(vp'[c].queue, vp[c].queue)
    BY <2>2, <2>3, Alike, QueueSet
  <2>5. Snapshot(vp[Cur].seq) \in SnapshotType
    BY <2>2, StreamParts, SessionParts, SnapshotTyped
  <2>6. Snapshot(vp[Cur].seq) \in FrameType /\ ~Speaks(Snapshot(vp[Cur].seq))
    BY <2>5 DEF FrameType, SnapshotType, Speaks
  <2> QED
    BY <2>1, <2>2, <2>4, <2>6, SendsQuietly, BubbleKept
<1>2. CASE ReplayFrame
  <2> DEFINE f == replay.frames[1]
             d == Delta(vp[Cur].seq, f.id, f.ops)
             w == Numbered(Logged(vp[Cur], [f EXCEPT !.seq = vp[Cur].seq]))
  <2>1. /\ Cur # 0 /\ f \in RingType /\ d \in DeltaType /\ Sends(d)
        /\ vp' = [vp EXCEPT ![Cur] = w] /\ w.queue = vp[Cur].queue
        /\ UNCHANGED <<note, client>>
    BY <1>2, ReplayFrameIs
  <2>2. Cur' = Cur
    BY <1>2, ReplayFrameTyped
  <2>3. d.ops = f.ops /\ f.ops \in Seq(LastingOp)
    BY <2>1 DEF RingType, Delta
  <2> HIDE DEF w, d, f
  <2>4. d \in FrameType /\ ~Speaks(d)
    BY <2>1, <2>3, LastingIsQuiet DEF FrameType, Speaks
  <2>5. \A c \in Conns : vp'[c].queue = <<>> \/ SaysAlike(vp'[c].queue, vp[c].queue)
    BY <2>1, Alike, QueueSet
  <2> QED
    BY <2>1, <2>2, <2>4, <2>5, SendsQuietly, BubbleKept
<1>3. CASE ReplayDone
  <2> DEFINE o == replay.old
  <2>1. /\ o \in Conns /\ vp'[Cur].queue = vp[Cur].queue
        /\ vp'[o] = [NoSession EXCEPT !.sent = vp[o].sent]
        /\ \A c \in Conns : c # Cur /\ c # o => vp'[c] = vp[c]
        /\ UNCHANGED <<note, wire, client>>
    BY <1>3, ReplayDoneIs
  <2>2. vp'[o].queue = <<>>
    BY <2>1, EmptyTyped DEF SessionType
  <2>3. Cur' = Cur
    BY <1>3, ReplayDoneTyped
  <2> HIDE DEF o
  <2>4. \A c \in Conns : vp'[c].queue = <<>> \/ SaysAlike(vp'[c].queue, vp[c].queue)
    BY <2>1, <2>2, Alike
  <2> QED
    BY <2>1, <2>3, <2>4, BubbleKept
<1> QED
  BY <1>1, <1>2, <1>3 DEF Handler

(* A resume, an end and an eviction bring no bubble back.                  *)
LEMMA SessionsBubbles ==
    ASSUME StreamInv, BubbleInv, Resume \/ Finish \/ Expire PROVE BubbleInv'
<1>1. UNCHANGED <<note, wire>> /\ Cur' = Cur
  BY ResumeTyped, FinishTyped, ExpireTyped DEF Resume, Finish, Expire
<1>2. client'.view = client.view /\ client'.late = client.late
  BY StreamParts DEF Resume, Finish, Expire, ClientType
<1>3. \A c \in Conns : vp'[c].queue = <<>> \/ vp'[c] = vp[c]
  <2>1. NoSession.queue = <<>> /\ \A c \in Conns : Left(vp[c]).queue = <<>>
    BY EmptyTyped, StreamParts, LeftParts
  <2>2. \A d \in Conns : \A v : vp' = [vp EXCEPT ![d] = v] =>
           \A c \in Conns : vp'[c] = IF c = d THEN v ELSE vp[c]
    BY StreamParts
  <2>3. CASE Resume
    <3>1. vp' = vp \/ vp' = [vp EXCEPT ![client.back.conn] = NoSession]
      BY <2>3 DEF Resume
    <3>2. client.back.conn \in Conns
      BY <2>3, StreamParts DEF Resume
    <3> QED
      BY ZenonT(30), <2>1, <2>2, <3>1, <3>2
  <2>4. CASE Finish
    <3>1. Cur \in Conns /\ vp' = [vp EXCEPT ![Cur] = Left(vp[Cur])]
      BY <2>4, StreamParts DEF Finish, At
    <3> QED
      BY <2>1, <2>2, <3>1
  <2>5. CASE Expire
    BY <2>1, <2>2, <2>5 DEF Expire
  <2> QED
    BY <2>3, <2>4, <2>5
<1> QED
  BY <1>1, <1>2, <1>3, Alike, BubbleKept

(* A new connection has none of the bubbles of the one before.             *)
LEMMA DialBubbles ==
    ASSUME StreamInv, BubbleInv, Dial PROVE BubbleInv'
<1>1. PICK back \in {NoBack, [conn |-> Cur, seq |-> client.seq]} :
              /\ wire = <<>>
              /\ \A d \in Conns : vp'[d] = IF d = Cur + 1 THEN NewSession
                                           ELSE IF d = back.conn THEN Left(vp[d]) ELSE NoSession
              /\ client' = [client EXCEPT !.up = TRUE, !.seq = 0 - 1, !.back = back,
                                          !.heard = IF back.conn = 0 THEN {} ELSE client.heard]
              /\ UNCHANGED <<note, wire>>
  BY DialIs
<1>2. /\ NewSession.queue = <<>> /\ NoSession.queue = <<>>
      /\ \A c \in Conns : Left(vp[c]).queue = <<>>
  BY EmptyTyped, StreamParts, LeftParts
<1>3. \A c \in Conns : vp'[c].queue = <<>>
  BY <1>1, <1>2
<1>4. client'.view = client.view /\ client'.late = client.late
  BY <1>1, StreamParts DEF ClientType
<1>5. ~(\E k \in 1..Len(wire') : TRUE)
  <2>1. Len(<<>>) = 0
    OBVIOUS
  <2> QED
    BY <1>1, <2>1
<1> QED
  BY <1>1, <1>3, <1>4, <1>5, NothingSaid DEF BubbleInv

(* The bubble in flight is shown, on the connection it was posted to. *)
LEMMA HearBubbles ==
    ASSUME StreamInv, BubbleInv, Hear PROVE BubbleInv'
<1> DEFINE f == wire[1]
           known == f.kind = "delta"
           late == known /\ \E i \in DOMAIN f.ops : f.ops[i].op = "bubble" /\ f.ops[i].value # Cur
<1>1. /\ Len(wire) >= 1 /\ f \in FrameType /\ wire' = Tail(wire)
      /\ client' = [client EXCEPT
             !.view = ApplyFrame(client.view, f), !.seq = f.seq,
             !.heard = IF known THEN client.heard \cup {f.id} ELSE client.heard,
             !.twice = client.twice \/ (known /\ f.id \in client.heard),
             !.late = client.late \/ late]
      /\ UNCHANGED <<note, vp>>
  BY HearIs
<1>2. client \in ClientType /\ client.view \in ViewType /\ wire \in Seq(FrameType)
  BY StreamParts
<1>3. Cur' = Cur
  BY HearTyped
<1>4. client'.view.bubbles = ApplyFrame(client.view, f).bubbles /\ client'.late = (client.late \/ late)
  <2> HIDE DEF f, late
  <2> QED
    BY <1>1, <1>2 DEF ClientType
<1>5. ~late
  <2> SUFFICES ASSUME known, NEW i \in DOMAIN f.ops, f.ops[i].op = "bubble", f.ops[i].value # Cur
               PROVE  FALSE
    OBVIOUS
  <2>1. f.ops \in Seq(OpType)
    BY <1>1 DEF FrameType, DeltaType, SnapshotType
  <2>2. i \in Says(f.ops)
    BY <2>1 DEF Says
  <2>3. Speaks(f)
    BY <2>2 DEF Speaks, Quiet
  <2>4. 1 \in 1..Len(wire)
    BY <1>1, <1>2
  <2> QED
    BY <2>2, <2>3, <2>4 DEF BubbleInv
<1>6. \A k \in 1..Len(wire') : k + 1 \in 1..Len(wire) /\ wire'[k] = wire[k + 1]
  BY <1>1, <1>2
<1> HIDE DEF f, late
<1>7. f = wire[1] /\ 1 \in 1..Len(wire)
  BY <1>1, <1>2 DEF f
<1>8. CASE ~Speaks(f)
  <2>1. client'.view.bubbles = client.view.bubbles
    BY <1>1, <1>2, <1>4, <1>8, ApplyFrameTyped DEF FrameType
  <2>2. \A k \in 1..Len(wire') : Speaks(wire'[k]) =>
          /\ Once(wire'[k].ops) /\ \A i \in Says(wire'[k].ops) : wire'[k].ops[i].value = Cur
          /\ client.view.bubbles = 0 /\ note = "api"
          /\ \A c \in Conns : Quiet(vp[c].queue)
    BY <1>6 DEF BubbleInv
  <2>3. \A k, l \in 1..Len(wire') : Speaks(wire'[k]) /\ Speaks(wire'[l]) => k = l
    <3>1. \A k, l \in 1..Len(wire') : Speaks(wire'[k]) /\ Speaks(wire'[l]) => k + 1 = l + 1
      BY <1>6 DEF BubbleInv
    <3> QED
      BY <3>1
  <2> QED
    BY <1>1, <1>3, <1>4, <1>5, <2>1, <2>2, <2>3 DEF BubbleInv
<1>9. CASE Speaks(f)
  <2>1. Once(f.ops) /\ client.view.bubbles = 0 /\ note = "api" /\ \A c \in Conns : Quiet(vp[c].queue)
    BY <1>7, <1>9 DEF BubbleInv
  <2>2. client'.view.bubbles = 1
    BY <1>1, <1>2, <1>4, <1>9, <2>1, ApplyFrameTyped DEF FrameType
  <2>3. \A k \in 1..Len(wire') : ~Speaks(wire'[k])
    <3> SUFFICES ASSUME NEW k \in 1..Len(wire'), Speaks(wire'[k]) PROVE FALSE
      OBVIOUS
    <3>1. k + 1 = 1
      BY <1>6, <1>7, <1>9 DEF BubbleInv
    <3> QED
      BY <3>1
  <2> QED
    BY <1>1, <1>3, <1>4, <1>5, <2>1, <2>2, <2>3 DEF BubbleInv, Quiet, Once
<1> QED
  BY <1>8, <1>9

(* What was in flight on a lost socket is never heard.                     *)
LEMMA DropsBubbles ==
    ASSUME StreamInv, BubbleInv, Lose \/ SeeClosed PROVE BubbleInv'
<1>1. /\ Cur' = Cur /\ client' = [client EXCEPT !.up = FALSE] /\ wire' = <<>>
      /\ UNCHANGED <<note, vp>>
  BY LosesTyped DEF Drops
<1>2. client'.view = client.view /\ client'.late = client.late
  BY <1>1, StreamParts DEF ClientType
<1>3. Len(<<>>) = 0
  OBVIOUS
<1> QED
  BY <1>1, <1>2, <1>3, Alike, BubbleKept

(* There is no bubble at first.                                            *)
LEMMA InitBubbles ==
    ASSUME ViewportInit PROVE BubbleInv
<1>1. \A c \in Conns : vp[c].queue = <<>>
  BY EmptyTyped DEF ViewportInit
<1>2. client.view.bubbles = 0 /\ ~client.late /\ wire = <<>> /\ Len(<<>>) = 0
  BY DEF ViewportInit, EmptyView
<1> QED
  BY <1>1, <1>2, NothingSaid DEF BubbleInv

(* Every step keeps where the bubble is.                                   *)
LEMMA NextBubbles ==
    ASSUME StreamInv, BubbleInv, [ViewportNext]_viewportVars PROVE BubbleInv'
<1>1. CASE UNCHANGED viewportVars
  BY <1>1, Alike, BubbleKept DEF viewportVars, Cur
<1>2. CASE World \/ Pumps \/ PumpFails \/ Handler
  BY <1>2, WorldBubbles, PumpBubbles, HandlerBubbles
<1>3. CASE Dial \/ Resume \/ Finish \/ Expire
  BY <1>3, DialBubbles, SessionsBubbles
<1>4. CASE Hear \/ Lose \/ SeeClosed
  BY <1>4, HearBubbles, DropsBubbles
<1> QED
  BY <1>1, <1>2, <1>3, <1>4 DEF ViewportNext

(* A bubble is shown at most once, and on the connection it was posted to: *)
(* the ring copy of a frame has none, so that no replay brings one back    *)
(* (ViewportSession.flush), and what is queued goes with its connection.   *)
THEOREM BubblesAreFresh == ViewportSpec => []BubblesFresh
<1>1. ViewportInit => StreamInv /\ BubbleInv
  BY InitTyped, InitBubbles
<1>2. StreamInv /\ BubbleInv /\ [ViewportNext]_viewportVars => (StreamInv /\ BubbleInv)'
  BY NextTyped, NextBubbles
<1>3. StreamInv /\ BubbleInv => BubblesFresh
  <2> SUFFICES ASSUME StreamInv, BubbleInv PROVE BubblesFresh
    OBVIOUS
  <2>1. client.view.bubbles \in Nat
    BY StreamParts DEF ViewType
  <2> QED
    BY <2>1 DEF BubbleInv, BubblesFresh
<1> QED
  BY <1>1, <1>2, <1>3, PTL DEF ViewportSpec

-----------------------------------------------------------------------------
(* A resume from the ring.  What the client knows of a connection is a     *)
(* book: the frames that were logged or are being sent, L, what is in      *)
(* flight, W, the ids it has heard and the number it has reached.          *)
IsDelta(f) == f.kind = "delta"
Carries(W, id) == \E j \in 1..Len(W) : IsDelta(W[j]) /\ W[j].id = id
CarriesAt(W, id, n) == \E j \in 1..Len(W) : IsDelta(W[j]) /\ W[j].id = id /\ W[j].seq = n

(* The frames in flight are in order, new to the client, and different.    *)
Flows(W, hears, reach) ==
    /\ \A i, j \in 1..Len(W) :
          i < j => W[i].seq <= W[j].seq /\ (IsDelta(W[j]) => W[i].seq < W[j].seq)
    /\ \A j \in 1..Len(W) : reach <= W[j].seq /\ (IsDelta(W[j]) => reach < W[j].seq)
    /\ \A j \in 1..Len(W) : IsDelta(W[j]) => W[j].id \notin hears
    /\ \A i, j \in 1..Len(W) : IsDelta(W[i]) /\ IsDelta(W[j]) /\ W[i].id = W[j].id => i = j

(* What is logged is in order, and what lies beyond the number reached is  *)
(* what the client has not heard; it is in flight while the client is up.  *)
Kept(L, W, hears, reach, up) ==
    /\ \A i, j \in 1..Len(L) : i < j => L[i].seq < L[j].seq /\ L[i].id # L[j].id
    /\ \A i \in 1..Len(L) : L[i].id \in hears <=> L[i].seq <= reach
    /\ \A i \in 1..Len(L) : up /\ L[i].seq > reach => CarriesAt(W, L[i].id, L[i].seq)
    /\ \A i \in 1..Len(L), j \in 1..Len(W) :
          IsDelta(W[j]) /\ W[j].id = L[i].id => W[j].seq = L[i].seq

(* What was sent was heard or is logged; or it fell off the log, and then  *)
(* the log shows the gap.                                                  *)
Covered(S, L, W, hears, reach, up) ==
    \A id \in S :
       \/ id \in hears
       \/ \E i \in 1..Len(L) : L[i].id = id
       \/ /\ Len(L) >= 1 /\ reach + 1 < L[1].seq
          /\ up => \E j \in 1..Len(W) : IsDelta(W[j]) /\ W[j].id = id /\ W[j].seq < L[1].seq

Below(L, W, reach, n) ==
    /\ reach < n
    /\ \A i \in 1..Len(L) : L[i].seq < n
    /\ \A j \in 1..Len(W) : W[j].seq < n

(* The book of the newest connection; the frame of a send that waits is    *)
(* the last of its log.                                                    *)
Sending == pump.pc = "sending"
Live == Cur # 0 /\ vp[Cur].live
Log == IF Cur = 0 THEN <<>>
       ELSE IF Sending THEN Append(vp[Cur].ring, RingEntry(pump.frame)) ELSE vp[Cur].ring
Shipped == IF Cur = 0 THEN {}
           ELSE IF Sending THEN vp[Cur].sent \cup {pump.frame.id} ELSE vp[Cur].sent
Bound == IF Sending THEN vp[Cur].seq + 1 ELSE vp[Cur].seq
InFlight == {wire[j].id : j \in {k \in 1..Len(wire) : IsDelta(wire[k])}}

Book ==
    /\ Flows(wire, client.heard, client.seq)
    /\ Kept(Log, wire, client.heard, client.seq, client.up)
    /\ Covered(Shipped, Log, wire, client.heard, client.seq, client.up)
    /\ Live => Below(Log, wire, client.seq, Bound)
    /\ Cur # 0 /\ vp[Cur].ring = <<>> => vp[Cur].sent = {}
    /\ Sending => pump.frame.id \notin vp[Cur].sent /\ ~At({"sending"})

(* Whose ids are known: an id names its connection and a number it had.    *)
Dated ==
    /\ \A c \in Conns : \A id \in vp[c].sent : id[1] <= c
    /\ \A c \in Conns : \A i \in 1..Len(vp[c].ring) : vp[c].ring[i].id \in vp[c].sent
    /\ \A id \in client.heard \cup InFlight \cup Shipped :
          id[1] <= Cur /\ (Live /\ id[1] = Cur => id[2] < Bound)

(* The connection a client may still resume: its book is closed, and       *)
(* nothing of it is on the new connection.                                 *)
Backed ==
    client.back.conn # 0 =>
       /\ Kept(vp[client.back.conn].ring, <<>>, client.heard, client.back.seq, FALSE)
       /\ Covered(vp[client.back.conn].sent, vp[client.back.conn].ring, <<>>,
                  client.heard, client.back.seq, FALSE)
       /\ replay.old = 0
       /\ \A id \in InFlight \cup Shipped : id[1] = Cur

(* What a replay has still to send is new to the client, and the rest of   *)
(* what the old connection sent is heard or in flight.                     *)
Replays ==
    /\ replay.old = 0 => replay.frames = <<>>
    /\ \A i \in 1..Len(replay.frames) :
          /\ replay.frames[i].id[1] < Cur
          /\ replay.frames[i].id \notin client.heard \cup InFlight \cup Shipped
    /\ \A i, j \in 1..Len(replay.frames) : replay.frames[i].id = replay.frames[j].id => i = j
    /\ replay.old # 0 /\ client.up => \A id \in vp[replay.old].sent :
          id \in client.heard \cup InFlight \/ \E i \in 1..Len(replay.frames) : replay.frames[i].id = id

Resumed ==
    Cur # 0 /\ vp[Cur].after # 0 =>
       /\ vp[Cur].after < Cur
       /\ client.up => vp[vp[Cur].after].sent \subseteq client.heard \cup InFlight

ReplayInv == Book /\ Dated /\ Backed /\ Replays /\ Resumed /\ ~client.twice

(* The number and the id of a frame in flight.                             *)
LEMMA FrameParts ==
    ASSUME NEW W \in Seq(FrameType)
    PROVE  \A j \in 1..Len(W) : W[j].seq \in Nat /\ (IsDelta(W[j]) => W[j].id \in Ids)
<1>1. \A j \in 1..Len(W) : W[j] \in FrameType
  OBVIOUS
<1>2. \A f \in FrameType : f.seq \in Nat /\ (IsDelta(f) => f.id \in Ids)
  BY DEF FrameType, DeltaType, SnapshotType, IsDelta
<1> QED
  BY <1>1, <1>2

(* The number and the id of an entry of a ring.                            *)
LEMMA LogParts ==
    ASSUME NEW L \in Seq(RingType)
    PROVE  \A i \in 1..Len(L) : L[i].seq \in Nat /\ L[i].id \in Ids
<1>1. \A i \in 1..Len(L) : L[i] \in RingType
  OBVIOUS
<1> QED
  BY <1>1 DEF RingType

(* A sequence with one more member, place by place.                        *)
LEMMA Appended ==
    ASSUME NEW A, NEW s \in Seq(A), NEW x \in A
    PROVE  /\ Append(s, x) \in Seq(A) /\ Len(s) \in Nat /\ Len(Append(s, x)) = Len(s) + 1
           /\ Append(s, x)[Len(s) + 1] = x
           /\ \A i \in 1..Len(s) : Append(s, x)[i] = s[i] /\ i \in 1..Len(Append(s, x))
           /\ \A i \in 1..Len(Append(s, x)) : i \in 1..Len(s) \/ i = Len(s) + 1
           /\ Len(s) + 1 \in 1..Len(Append(s, x))
OBVIOUS

(* A sequence without its first, place by place.                           *)
LEMMA Tailed ==
    ASSUME NEW A, NEW s \in Seq(A), Len(s) >= 1
    PROVE  /\ Tail(s) \in Seq(A) /\ Len(s) \in Nat /\ Len(Tail(s)) = Len(s) - 1
           /\ \A i \in 1..Len(Tail(s)) : Tail(s)[i] = s[i + 1] /\ i + 1 \in 1..Len(s)
           /\ \A i \in 1..Len(s) : i = 1 \/ (i - 1 \in 1..Len(Tail(s)) /\ Tail(s)[i - 1] = s[i])
OBVIOUS

(* A frame that is sent and logged under the next number. *)
LEMMA FlowsOn ==
    ASSUME NEW W \in Seq(FrameType), NEW hears, NEW reach \in Int, NEW d \in FrameType,
           Flows(W, hears, reach), reach <= d.seq, IsDelta(d) => reach < d.seq,
           \A j \in 1..Len(W) : W[j].seq <= d.seq /\ (IsDelta(d) => W[j].seq < d.seq),
           IsDelta(d) => d.id \notin hears /\ ~Carries(W, d.id)
    PROVE  Flows(Append(W, d), hears, reach)
<1> DEFINE X == Append(W, d)
<1>1. /\ Len(W) \in Nat /\ Len(X) = Len(W) + 1 /\ X[Len(W) + 1] = d
      /\ \A i \in 1..Len(W) : X[i] = W[i]
      /\ \A i \in 1..Len(X) : i \in 1..Len(W) \/ i = Len(W) + 1
  BY Appended
<1> HIDE DEF X
<1>2. \A i, j \in 1..Len(X) :
          i < j => X[i].seq <= X[j].seq /\ (IsDelta(X[j]) => X[i].seq < X[j].seq)
  <2> SUFFICES ASSUME NEW i \in 1..Len(X), NEW j \in 1..Len(X), i < j
               PROVE  X[i].seq <= X[j].seq /\ (IsDelta(X[j]) => X[i].seq < X[j].seq)
    OBVIOUS
  <2>1. i \in 1..Len(W)
    BY <1>1
  <2>2. CASE j \in 1..Len(W)
    BY <1>1, <2>1, <2>2 DEF Flows
  <2>3. CASE j = Len(W) + 1
    BY <1>1, <2>1, <2>3
  <2> QED
    BY <1>1, <2>2, <2>3
<1>3. \A j \in 1..Len(X) : /\ reach <= X[j].seq /\ (IsDelta(X[j]) => reach < X[j].seq)
                           /\ IsDelta(X[j]) => X[j].id \notin hears
  BY <1>1 DEF Flows
<1>4. \A i, j \in 1..Len(X) : IsDelta(X[i]) /\ IsDelta(X[j]) /\ X[i].id = X[j].id => i = j
  <2> SUFFICES ASSUME NEW i \in 1..Len(X), NEW j \in 1..Len(X),
                      IsDelta(X[i]), IsDelta(X[j]), X[i].id = X[j].id
               PROVE  i = j
    OBVIOUS
  <2>1. CASE i \in 1..Len(W) /\ j \in 1..Len(W)
    BY <1>1, <2>1 DEF Flows
  <2>2. ~(i \in 1..Len(W) /\ j = Len(W) + 1) /\ ~(j \in 1..Len(W) /\ i = Len(W) + 1)
    BY <1>1 DEF Carries
  <2> QED
    BY <1>1, <2>1, <2>2
<1> QED
  BY <1>2, <1>3, <1>4 DEF Flows, X

(* A frame that is sent and logged keeps the log and the client in step.   *)
LEMMA KeptOn ==
    ASSUME NEW L \in Seq(RingType), NEW W \in Seq(FrameType), NEW hears, NEW reach \in Int,
           NEW up, NEW n \in Nat, NEW e \in RingType, NEW X \in Seq(FrameType),
           Kept(L, W, hears, reach, up), Below(L, W, reach, n), e.seq = n,
           e.id \notin hears, ~Carries(W, e.id), \A i \in 1..Len(L) : L[i].id # e.id,
           up => \E d \in DeltaType : d.seq = n /\ d.id = e.id /\ X = Append(W, d),
           ~up => X = W
    PROVE  /\ Kept(Append(L, e), X, hears, reach, up)
           /\ Below(Append(L, e), X, reach, n + 1)
<1> DEFINE M == Append(L, e)
<1>1. /\ Len(L) \in Nat /\ Len(M) = Len(L) + 1 /\ M[Len(L) + 1] = e
      /\ \A i \in 1..Len(L) : M[i] = L[i]
      /\ \A i \in 1..Len(M) : i \in 1..Len(L) \/ i = Len(L) + 1
  BY Appended
<1>2. /\ \A j \in 1..Len(X) : \/ j \in 1..Len(W) /\ X[j] = W[j]
                              \/ IsDelta(X[j]) /\ X[j].seq = n /\ X[j].id = e.id
      /\ \A j \in 1..Len(W) : j \in 1..Len(X) /\ X[j] = W[j]
      /\ up => CarriesAt(X, e.id, n)
  <2>1. CASE ~up
    BY <2>1
  <2>2. CASE up
    <3>1. PICK d \in DeltaType : d.seq = n /\ d.id = e.id /\ X = Append(W, d)
      BY <2>2
    <3>2. d \in FrameType /\ IsDelta(d)
      BY DEF FrameType, DeltaType, IsDelta
    <3>3. /\ Len(W) + 1 \in 1..Len(X) /\ X[Len(W) + 1] = d
          /\ \A i \in 1..Len(W) : X[i] = W[i] /\ i \in 1..Len(X)
          /\ \A i \in 1..Len(X) : i \in 1..Len(W) \/ i = Len(W) + 1
      BY <3>1, <3>2, Appended
    <3> QED
      BY <3>1, <3>2, <3>3 DEF CarriesAt
  <2> QED
    BY <2>1, <2>2
<1>3. /\ \A i \in 1..Len(L) : L[i].seq \in Nat /\ L[i].seq < n
      /\ \A j \in 1..Len(W) : W[j].seq \in Nat /\ W[j].seq < n
      /\ reach < n
  <2>1. \A i \in 1..Len(L) : L[i].seq \in Nat
    BY LogParts
  <2>2. \A j \in 1..Len(W) : W[j].seq \in Nat
    BY FrameParts
  <2>3. /\ reach < n /\ \A i \in 1..Len(L) : L[i].seq < n
        /\ \A j \in 1..Len(W) : W[j].seq < n
    BY DEF Below
  <2> QED
    BY <2>1, <2>2, <2>3
<1> HIDE DEF M
<1>4. \A i, j \in 1..Len(M) : i < j => M[i].seq < M[j].seq /\ M[i].id # M[j].id
  <2> SUFFICES ASSUME NEW i \in 1..Len(M), NEW j \in 1..Len(M), i < j
               PROVE  M[i].seq < M[j].seq /\ M[i].id # M[j].id
    OBVIOUS
  <2>1. i \in 1..Len(L)
    BY <1>1
  <2>2. CASE j \in 1..Len(L)
    BY SMTT(30), <1>1, <2>1, <2>2 DEF Kept
  <2>3. CASE j = Len(L) + 1
    BY <1>1, <1>3, <2>1, <2>3
  <2> QED
    BY <1>1, <2>2, <2>3
<1>5. \A i \in 1..Len(M) : M[i].id \in hears <=> M[i].seq <= reach
  BY <1>1, <1>3 DEF Kept
<1>6. \A i \in 1..Len(M) : up /\ M[i].seq > reach => CarriesAt(X, M[i].id, M[i].seq)
  <2>1. \A id, m : CarriesAt(W, id, m) => CarriesAt(X, id, m)
    BY <1>2 DEF CarriesAt
  <2>2. \A i \in 1..Len(L) : up /\ L[i].seq > reach => CarriesAt(W, L[i].id, L[i].seq)
    BY DEF Kept
  <2> QED
    BY <1>1, <1>2, <2>1, <2>2
<1>7. \A i \in 1..Len(M), j \in 1..Len(X) :
          IsDelta(X[j]) /\ X[j].id = M[i].id => X[j].seq = M[i].seq
  <2> SUFFICES ASSUME NEW i \in 1..Len(M), NEW j \in 1..Len(X), IsDelta(X[j]), X[j].id = M[i].id
               PROVE  X[j].seq = M[i].seq
    OBVIOUS
  <2>1. CASE i \in 1..Len(L) /\ j \in 1..Len(W) /\ X[j] = W[j]
    BY SMTT(30), <1>1, <2>1 DEF Kept
  <2>2. CASE i = Len(L) + 1 /\ j \in 1..Len(W) /\ X[j] = W[j]
    BY <1>1, <2>2 DEF Carries
  <2>3. CASE X[j].seq = n /\ X[j].id = e.id
    BY <1>1, <2>3
  <2> QED
    BY <1>1, <1>2, <2>1, <2>2, <2>3
<1>8. Kept(M, X, hears, reach, up)
  BY <1>4, <1>5, <1>6, <1>7 DEF Kept
<1>9. Below(M, X, reach, n + 1)
  <2>1. \A i \in 1..Len(M) : M[i].seq < n + 1
    BY SMTT(30), <1>1, <1>3
  <2>2. \A j \in 1..Len(X) : X[j].seq < n + 1
    BY <1>2, <1>3
  <2> QED
    BY <1>3, <2>1, <2>2 DEF Below
<1> QED
  BY <1>8, <1>9 DEF M

(* A frame that is sent and logged is covered, as all before it.           *)
LEMMA CoveredOn ==
    ASSUME NEW L \in Seq(RingType), NEW W \in Seq(FrameType), NEW hears, NEW reach \in Int,
           NEW up, NEW e \in RingType, NEW X \in Seq(FrameType), NEW S,
           Covered(S, L, W, hears, reach, up),
           \A j \in 1..Len(W) : j \in 1..Len(X) /\ X[j] = W[j]
    PROVE  Covered(S \cup {e.id}, Append(L, e), X, hears, reach, up)
<1> DEFINE M == Append(L, e)
<1>1. /\ Len(L) \in Nat /\ Len(M) = Len(L) + 1 /\ M[Len(L) + 1] = e
      /\ \A i \in 1..Len(L) : M[i] = L[i] /\ i \in 1..Len(M)
      /\ Len(L) + 1 \in 1..Len(M)
  BY Appended
<1> HIDE DEF M
<1> SUFFICES ASSUME NEW id \in S \cup {e.id}, id \notin hears,
                    ~\E i \in 1..Len(M) : M[i].id = id
             PROVE  /\ Len(M) >= 1 /\ reach + 1 < M[1].seq
                    /\ up => \E j \in 1..Len(X) : IsDelta(X[j]) /\ X[j].id = id /\ X[j].seq < M[1].seq
  BY DEF Covered, M
<1>2. id \in S /\ ~\E i \in 1..Len(L) : L[i].id = id
  BY <1>1
<1>3. /\ Len(L) >= 1 /\ reach + 1 < L[1].seq
      /\ up => \E j \in 1..Len(W) : IsDelta(W[j]) /\ W[j].id = id /\ W[j].seq < L[1].seq
  BY <1>2 DEF Covered
<1>4. 1 \in 1..Len(L) /\ M[1] = L[1]
  BY <1>1, <1>3
<1> QED
  BY <1>1, <1>3, <1>4

(* The oldest entry falls off the log. *)
LEMMA KeptTail ==
    ASSUME NEW L \in Seq(RingType), NEW W \in Seq(FrameType), NEW hears, NEW reach \in Int,
           NEW up, NEW S, Kept(L, W, hears, reach, up),
           Covered(S, L, W, hears, reach, up), Len(L) >= 2
    PROVE  /\ Kept(Tail(L), W, hears, reach, up)
           /\ Covered(S, Tail(L), W, hears, reach, up)
           /\ \A n : Below(L, W, reach, n) => Below(Tail(L), W, reach, n)
<1> DEFINE T == Tail(L)
<1>1. /\ Len(L) \in Nat /\ Len(T) = Len(L) - 1
      /\ \A i \in 1..Len(T) : T[i] = L[i + 1] /\ i + 1 \in 1..Len(L)
      /\ \A i \in 1..Len(L) : i = 1 \/ (i - 1 \in 1..Len(T) /\ T[i - 1] = L[i])
  BY Tailed
<1>2. \A i \in 1..Len(L) : L[i].seq \in Nat
  BY LogParts
<1> HIDE DEF T
<1>3. \A i, j \in 1..Len(T) : i < j => T[i].seq < T[j].seq /\ T[i].id # T[j].id
  <2> SUFFICES ASSUME NEW i \in 1..Len(T), NEW j \in 1..Len(T), i < j
               PROVE  T[i].seq < T[j].seq /\ T[i].id # T[j].id
    OBVIOUS
  <2>1. T[i] = L[i + 1] /\ T[j] = L[j + 1] /\ i + 1 \in 1..Len(L) /\ j + 1 \in 1..Len(L)
    BY <1>1
  <2>2. i + 1 < j + 1
    BY <1>1
  <2> QED
    BY SMTT(30), <2>1, <2>2 DEF Kept
<1>4. /\ \A i \in 1..Len(T) : T[i].id \in hears <=> T[i].seq <= reach
      /\ \A i \in 1..Len(T) : up /\ T[i].seq > reach => CarriesAt(W, T[i].id, T[i].seq)
  BY <1>1 DEF Kept
<1>5. \A i \in 1..Len(T), j \in 1..Len(W) :
          IsDelta(W[j]) /\ W[j].id = T[i].id => W[j].seq = T[i].seq
  BY <1>1 DEF Kept
<1>6. Kept(T, W, hears, reach, up)
  BY <1>3, <1>4, <1>5 DEF Kept
<1>7. Covered(S, T, W, hears, reach, up)
  <2> SUFFICES ASSUME NEW id \in S, id \notin hears, ~\E i \in 1..Len(T) : T[i].id = id
               PROVE  /\ Len(T) >= 1 /\ reach + 1 < T[1].seq
                      /\ up => \E j \in 1..Len(W) : IsDelta(W[j]) /\ W[j].id = id /\ W[j].seq < T[1].seq
    BY DEF Covered
  <2>1. /\ 1 \in 1..Len(L) /\ 2 \in 1..Len(L) /\ 1 \in 1..Len(T) /\ T[1] = L[2]
        /\ L[1].seq < L[2].seq /\ L[1].seq \in Nat /\ L[2].seq \in Nat /\ Len(T) >= 1
    <3>1. 1 \in 1..Len(L) /\ 2 \in 1..Len(L) /\ 1 \in 1..Len(T) /\ T[1] = L[2] /\ Len(T) >= 1
      BY <1>1
    <3> QED
      BY <1>2, <3>1 DEF Kept
  <2>2. \A j \in 1..Len(W) : W[j].seq \in Nat
    BY FrameParts
  <2>3. CASE L[1].id = id
    <3>1. L[1].seq > reach /\ (up => CarriesAt(W, id, L[1].seq))
      BY <2>1, <2>3 DEF Kept
    <3> QED
      BY <2>1, <2>2, <3>1 DEF CarriesAt
  <2>4. CASE L[1].id # id
    <3>1. ~\E i \in 1..Len(L) : L[i].id = id
      BY <1>1, <2>4
    <3>2. /\ reach + 1 < L[1].seq
          /\ up => \E j \in 1..Len(W) : IsDelta(W[j]) /\ W[j].id = id /\ W[j].seq < L[1].seq
      BY <3>1 DEF Covered
    <3> QED
      BY <2>1, <2>2, <3>2
  <2> QED
    BY <2>3, <2>4
<1>8. \A n : Below(L, W, reach, n) => Below(T, W, reach, n)
  BY <1>1 DEF Below
<1> QED
  BY <1>6, <1>7, <1>8 DEF T

(* A snapshot is sent under the number that a frame in flight may have. *)
LEMMA BookSnapped ==
    ASSUME NEW L \in Seq(RingType), NEW W \in Seq(FrameType), NEW hears, NEW reach \in Int,
           NEW up, NEW n \in Nat, NEW S, NEW m \in Nat, m = n \/ m = n - 1,
           NEW X \in Seq(FrameType), Flows(W, hears, reach), Kept(L, W, hears, reach, up),
           Covered(S, L, W, hears, reach, up), Below(L, W, reach, n),
           up => \E d \in SnapshotType : d.seq = m /\ X = Append(W, d),
           ~up => X = W
    PROVE  /\ Flows(X, hears, reach) /\ Kept(L, X, hears, reach, up)
           /\ Covered(S, L, X, hears, reach, up) /\ Below(L, X, reach, n + 1)
           /\ \A j \in 1..Len(X) : IsDelta(X[j]) => j \in 1..Len(W) /\ X[j] = W[j]
<1>1. /\ \A j \in 1..Len(X) : \/ j \in 1..Len(W) /\ X[j] = W[j]
                              \/ ~IsDelta(X[j]) /\ X[j].seq = m
      /\ \A j \in 1..Len(W) : j \in 1..Len(X) /\ X[j] = W[j]
  <2>1. CASE ~up
    BY <2>1
  <2>2. CASE up
    <3>1. PICK d \in SnapshotType : d.seq = m /\ X = Append(W, d)
      BY <2>2
    <3>2. d \in FrameType /\ ~IsDelta(d)
      BY DEF FrameType, SnapshotType, IsDelta
    <3>3. /\ Len(W) + 1 \in 1..Len(X) /\ X[Len(W) + 1] = d
          /\ \A i \in 1..Len(W) : X[i] = W[i] /\ i \in 1..Len(X)
          /\ \A i \in 1..Len(X) : i \in 1..Len(W) \/ i = Len(W) + 1
      BY <3>1, <3>2, Appended
    <3> QED
      BY <3>1, <3>2, <3>3
  <2> QED
    BY <2>1, <2>2
<1>2. /\ \A i \in 1..Len(L) : L[i].seq \in Nat /\ L[i].seq < n
      /\ reach < n
  BY LogParts DEF Below
<1>3. \A j \in 1..Len(W) : W[j].seq \in Nat /\ W[j].seq < n
  <2>1. \A j \in 1..Len(W) : W[j].seq < n
    BY DEF Below
  <2> QED
    BY <2>1, FrameParts
<1>4. Flows(X, hears, reach)
  <2>1. CASE ~up
    BY <2>1
  <2>2. CASE up
    <3>1. PICK d \in SnapshotType : d.seq = m /\ X = Append(W, d)
      BY <2>2
    <3>2. d \in FrameType /\ ~IsDelta(d)
      BY DEF FrameType, SnapshotType, IsDelta
    <3>3. reach <= d.seq /\ \A j \in 1..Len(W) : W[j].seq <= d.seq
      BY <1>2, <1>3, <3>1
    <3> QED
      BY <3>1, <3>2, <3>3, FlowsOn
  <2> QED
    BY <2>1, <2>2
<1>5. Kept(L, X, hears, reach, up)
  <2>1. \A id, k : CarriesAt(W, id, k) => CarriesAt(X, id, k)
    BY <1>1 DEF CarriesAt
  <2>2. \A i \in 1..Len(L), j \in 1..Len(X) :
          IsDelta(X[j]) /\ X[j].id = L[i].id => X[j].seq = L[i].seq
    <3> SUFFICES ASSUME NEW i \in 1..Len(L), NEW j \in 1..Len(X), IsDelta(X[j]), X[j].id = L[i].id
                 PROVE  X[j].seq = L[i].seq
      OBVIOUS
    <3>1. j \in 1..Len(W) /\ X[j] = W[j]
      BY <1>1
    <3> QED
      BY <3>1 DEF Kept
  <2> QED
    BY <2>1, <2>2 DEF Kept
<1>6. Covered(S, L, X, hears, reach, up)
  BY <1>1 DEF Covered
<1>7. Below(L, X, reach, n + 1)
  <2>1. \A j \in 1..Len(X) : X[j].seq < n + 1
    BY <1>1, <1>3
  <2>2. reach < n + 1 /\ \A i \in 1..Len(L) : L[i].seq < n + 1
    BY <1>2
  <2> QED
    BY <2>1, <2>2 DEF Below
<1> QED
  BY <1>1, <1>4, <1>5, <1>6, <1>7

(* The client heard the oldest frame in flight. *)
LEMMA FlowsHeard ==
    ASSUME NEW W \in Seq(FrameType), NEW hears, NEW reach \in Int, Len(W) >= 1,
           Flows(W, hears, reach), NEW ears,
           ears = IF IsDelta(W[1]) THEN hears \cup {W[1].id} ELSE hears
    PROVE  Flows(Tail(W), ears, W[1].seq) /\ (IsDelta(W[1]) => W[1].id \notin hears)
<1> DEFINE T == Tail(W)
<1>1. /\ Len(W) \in Nat /\ Len(T) = Len(W) - 1 /\ 1 \in 1..Len(W)
      /\ \A i \in 1..Len(T) : T[i] = W[i + 1] /\ i + 1 \in 1..Len(W)
  BY Tailed
<1> HIDE DEF T
<1>2. \A i, j \in 1..Len(T) :
          i < j => T[i].seq <= T[j].seq /\ (IsDelta(T[j]) => T[i].seq < T[j].seq)
  <2> SUFFICES ASSUME NEW i \in 1..Len(T), NEW j \in 1..Len(T), i < j
               PROVE  T[i].seq <= T[j].seq /\ (IsDelta(T[j]) => T[i].seq < T[j].seq)
    OBVIOUS
  <2>1. i + 1 < j + 1
    OBVIOUS
  <2> QED
    BY <1>1, <2>1 DEF Flows
<1>3. \A j \in 1..Len(T) : W[1].seq <= T[j].seq /\ (IsDelta(T[j]) => W[1].seq < T[j].seq)
  <2> SUFFICES ASSUME NEW j \in 1..Len(T)
               PROVE  W[1].seq <= T[j].seq /\ (IsDelta(T[j]) => W[1].seq < T[j].seq)
    OBVIOUS
  <2>1. 1 < j + 1
    OBVIOUS
  <2> QED
    BY <1>1, <2>1 DEF Flows
<1>4. \A j \in 1..Len(T) : IsDelta(T[j]) => T[j].id \notin ears
  <2> SUFFICES ASSUME NEW j \in 1..Len(T), IsDelta(T[j]) PROVE T[j].id \notin ears
    OBVIOUS
  <2>1. T[j].id \notin hears
    BY <1>1 DEF Flows
  <2>2. ~(IsDelta(W[1]) /\ T[j].id = W[1].id)
    <3>1. 1 # j + 1
      OBVIOUS
    <3> QED
      BY <1>1, <3>1 DEF Flows
  <2> QED
    BY <2>1, <2>2
<1>5. \A i, j \in 1..Len(T) : IsDelta(T[i]) /\ IsDelta(T[j]) /\ T[i].id = T[j].id => i = j
  <2> SUFFICES ASSUME NEW i \in 1..Len(T), NEW j \in 1..Len(T),
                      IsDelta(T[i]), IsDelta(T[j]), T[i].id = T[j].id
               PROVE  i = j
    OBVIOUS
  <2>1. i + 1 = j + 1
    BY <1>1 DEF Flows
  <2> QED
    BY <2>1
<1>6. IsDelta(W[1]) => W[1].id \notin hears
  BY <1>1 DEF Flows
<1> QED
  BY <1>2, <1>3, <1>4, <1>5, <1>6 DEF Flows, T

(* The client hears a frame: the log and the client stay in step.          *)
LEMMA KeptHeard ==
    ASSUME NEW L \in Seq(RingType), NEW W \in Seq(FrameType), NEW hears, NEW reach \in Int,
           NEW up, Len(W) >= 1, Flows(W, hears, reach),
           Kept(L, W, hears, reach, up), NEW ears,
           ears = IF IsDelta(W[1]) THEN hears \cup {W[1].id} ELSE hears, up
    PROVE  Kept(L, Tail(W), ears, W[1].seq, up)
<1> DEFINE T == Tail(W)
           f == W[1]
<1>1. /\ Len(W) \in Nat /\ Len(T) = Len(W) - 1 /\ 1 \in 1..Len(W)
      /\ \A i \in 1..Len(T) : T[i] = W[i + 1] /\ i + 1 \in 1..Len(W)
      /\ \A i \in 1..Len(W) : i = 1 \/ (i - 1 \in 1..Len(T) /\ T[i - 1] = W[i])
  BY Tailed
<1>2. \A i \in 1..Len(L) : L[i].seq \in Nat
  BY LogParts
<1>3. /\ \A j \in 1..Len(W) : W[j].seq \in Nat
      /\ f.seq \in Nat /\ reach <= f.seq
  <2>1. \A j \in 1..Len(W) : W[j].seq \in Nat
    BY FrameParts
  <2> QED
    BY <1>1, <2>1 DEF Flows
<1>4. \A j \in 1..Len(W) : j # 1 /\ IsDelta(W[j]) => f.seq < W[j].seq
  <2> SUFFICES ASSUME NEW j \in 1..Len(W), j # 1, IsDelta(W[j]) PROVE f.seq < W[j].seq
    OBVIOUS
  <2>1. 1 < j
    OBVIOUS
  <2> QED
    BY <1>1, <2>1 DEF Flows
<1> HIDE DEF T, f
<1>5. \A i \in 1..Len(L) : L[i].id \in ears <=> L[i].seq <= f.seq
  <2> SUFFICES ASSUME NEW i \in 1..Len(L) PROVE L[i].id \in ears <=> L[i].seq <= f.seq
    OBVIOUS
  <2>1. CASE L[i].seq <= reach
    BY <1>2, <1>3, <2>1 DEF Kept
  <2>2. CASE L[i].seq > reach
    <3>1. L[i].id \notin hears
      BY <1>2, <2>2 DEF Kept
    <3>2. PICK j \in 1..Len(W) : IsDelta(W[j]) /\ W[j].id = L[i].id /\ W[j].seq = L[i].seq
      BY <2>2 DEF Kept, CarriesAt
    <3>3. CASE j = 1
      <4>1. L[i].id \in ears
        BY <3>2, <3>3
      <4>2. L[i].seq = f.seq /\ f.seq \in Nat
        BY <1>3, <3>2, <3>3 DEF f
      <4> QED
        BY <4>1, <4>2
    <3>4. CASE j # 1
      <4>1. f.seq < L[i].seq
        BY <1>4, <3>2, <3>4
      <4>2. ~(IsDelta(W[1]) /\ W[1].id = L[i].id)
        BY <1>1, <3>2, <3>4 DEF Flows
      <4>3. L[i].id \notin ears
        BY <3>1, <4>2
      <4> QED
        BY <1>2, <1>3, <4>1, <4>3
    <3> QED
      BY <3>3, <3>4
  <2> QED
    BY <1>2, <2>1, <2>2
<1>6. \A i \in 1..Len(L) : L[i].seq > f.seq => CarriesAt(T, L[i].id, L[i].seq)
  <2> SUFFICES ASSUME NEW i \in 1..Len(L), L[i].seq > f.seq
               PROVE  CarriesAt(T, L[i].id, L[i].seq)
    OBVIOUS
  <2>1. L[i].seq > reach
    BY <1>2, <1>3
  <2>2. PICK j \in 1..Len(W) : IsDelta(W[j]) /\ W[j].id = L[i].id /\ W[j].seq = L[i].seq
    BY <2>1 DEF Kept, CarriesAt
  <2>3. j # 1
    BY <1>2, <1>3, <2>2 DEF f
  <2>4. j - 1 \in 1..Len(T) /\ T[j - 1] = W[j]
    BY <1>1, <2>3
  <2> QED
    BY <2>2, <2>4 DEF CarriesAt
<1>7. \A i \in 1..Len(L), j \in 1..Len(T) :
          IsDelta(T[j]) /\ T[j].id = L[i].id => T[j].seq = L[i].seq
  <2> SUFFICES ASSUME NEW i \in 1..Len(L), NEW j \in 1..Len(T), IsDelta(T[j]), T[j].id = L[i].id
               PROVE  T[j].seq = L[i].seq
    OBVIOUS
  <2>1. T[j] = W[j + 1] /\ j + 1 \in 1..Len(W)
    BY <1>1
  <2> QED
    BY <2>1 DEF Kept
<1>8. \A i, j \in 1..Len(L) : i < j => L[i].seq < L[j].seq /\ L[i].id # L[j].id
  BY DEF Kept
<1> QED
  BY <1>5, <1>6, <1>7, <1>8 DEF Kept, T, f

(* The client hears a frame: what was sent stays covered.                  *)
LEMMA CoveredHeard ==
    ASSUME NEW L \in Seq(RingType), NEW W \in Seq(FrameType), NEW hears, NEW reach \in Int,
           NEW up, Len(W) >= 1, Flows(W, hears, reach), NEW S,
           Covered(S, L, W, hears, reach, up), NEW ears,
           ears = IF IsDelta(W[1]) THEN hears \cup {W[1].id} ELSE hears, up
    PROVE  Covered(S, L, Tail(W), ears, W[1].seq, up)
<1> DEFINE T == Tail(W)
<1>1. /\ Len(W) \in Nat /\ 1 \in 1..Len(W)
      /\ \A i \in 1..Len(W) : i = 1 \/ (i - 1 \in 1..Len(T) /\ T[i - 1] = W[i])
  BY Tailed
<1>2. \A i \in 1..Len(L) : L[i].seq \in Nat
  BY LogParts
<1>3. \A j \in 1..Len(W) : W[j].seq \in Nat
  BY FrameParts
<1> HIDE DEF T
<1> SUFFICES ASSUME NEW id \in S, id \notin ears, ~\E i \in 1..Len(L) : L[i].id = id
             PROVE  /\ Len(L) >= 1 /\ W[1].seq + 1 < L[1].seq
                    /\ \E j \in 1..Len(T) : IsDelta(T[j]) /\ T[j].id = id /\ T[j].seq < L[1].seq
  BY DEF Covered, T
<1>4. id \notin hears /\ ~(IsDelta(W[1]) /\ W[1].id = id)
  OBVIOUS
<1>5. PICK j \in 1..Len(W) : /\ Len(L) >= 1 /\ IsDelta(W[j]) /\ W[j].id = id
                             /\ W[j].seq < L[1].seq
  BY <1>4 DEF Covered
<1>6. j # 1
  BY <1>4, <1>5
<1>7. W[1].seq < W[j].seq
  <2>1. 1 < j
    BY <1>6
  <2> QED
    BY <1>1, <1>5, <2>1 DEF Flows
<1>8. L[1].seq \in Nat /\ W[1].seq \in Nat /\ W[j].seq \in Nat
  BY <1>1, <1>2, <1>3, <1>5
<1>9. j - 1 \in 1..Len(T) /\ T[j - 1] = W[j]
  BY <1>1, <1>6
<1>10. W[1].seq + 1 < L[1].seq
  BY <1>5, <1>7, <1>8
<1> QED
  BY <1>5, <1>9, <1>10

(* Everything in flight is lost. *)
LEMMA BookLost ==
    ASSUME NEW L \in Seq(RingType), NEW W \in Seq(FrameType), NEW hears, NEW reach \in Int,
           NEW up, NEW S, Kept(L, W, hears, reach, up), Covered(S, L, W, hears, reach, up)
    PROVE  /\ Kept(L, <<>>, hears, reach, FALSE) /\ Covered(S, L, <<>>, hears, reach, FALSE)
           /\ Flows(<<>>, hears, reach)
           /\ \A n : Below(L, W, reach, n) => Below(L, <<>>, reach, n)
<1>1. Len(<<>>) = 0
  OBVIOUS
<1>2. ~\E j \in 1..Len(<<>>) : TRUE
  BY <1>1
<1> QED
  BY <1>2 DEF Kept, Covered, Flows, Below

(* A send that never came to its end leaves the log without its frame. *)
LEMMA BookCut ==
    ASSUME NEW L \in Seq(RingType), NEW W \in Seq(FrameType), NEW hears, NEW reach \in Int,
           NEW up, NEW S, NEW e \in RingType, Kept(Append(L, e), W, hears, reach, up),
           Covered(S \cup {e.id}, Append(L, e), W, hears, reach, up),
           e.id \notin S, L = <<>> => S = {}
    PROVE  /\ Kept(L, W, hears, reach, up) /\ Covered(S, L, W, hears, reach, up)
<1> DEFINE M == Append(L, e)
<1>1. /\ Len(L) \in Nat /\ M[Len(L) + 1] = e
      /\ \A i \in 1..Len(L) : M[i] = L[i] /\ i \in 1..Len(M)
      /\ \A i \in 1..Len(M) : i \in 1..Len(L) \/ i = Len(L) + 1
  BY Appended
<1> HIDE DEF M
<1>2. Kept(M, W, hears, reach, up) /\ Covered(S \cup {e.id}, M, W, hears, reach, up)
  BY DEF M
<1>3. \A i, j \in 1..Len(L) : i < j => L[i].seq < L[j].seq /\ L[i].id # L[j].id
  BY <1>1, <1>2 DEF Kept
<1>4. /\ \A i \in 1..Len(L) : L[i].id \in hears <=> L[i].seq <= reach
      /\ \A i \in 1..Len(L) : up /\ L[i].seq > reach => CarriesAt(W, L[i].id, L[i].seq)
  BY <1>1, <1>2 DEF Kept
<1>5. \A i \in 1..Len(L), j \in 1..Len(W) :
          IsDelta(W[j]) /\ W[j].id = L[i].id => W[j].seq = L[i].seq
  BY <1>1, <1>2 DEF Kept
<1>6. Kept(L, W, hears, reach, up)
  BY <1>3, <1>4, <1>5 DEF Kept
<1>7. Covered(S, L, W, hears, reach, up)
  <2> SUFFICES ASSUME NEW id \in S, id \notin hears, ~\E i \in 1..Len(L) : L[i].id = id
               PROVE  /\ Len(L) >= 1 /\ reach + 1 < L[1].seq
                      /\ up => \E j \in 1..Len(W) : IsDelta(W[j]) /\ W[j].id = id /\ W[j].seq < L[1].seq
    BY DEF Covered
  <2>1. id # e.id /\ L # <<>>
    OBVIOUS
  <2>2. Len(L) >= 1
    BY <1>1, <2>1, EmptySeq
  <2>3. 1 \in 1..Len(L) /\ M[1] = L[1]
    BY <1>1, <2>2
  <2>4. ~\E i \in 1..Len(M) : M[i].id = id
    BY <1>1, <2>1
  <2> QED
    BY <1>2, <2>2, <2>3, <2>4 DEF Covered
<1> QED
  BY <1>6, <1>7

(* What is heard of another connection does not change a closed book. *)
LEMMA BookClosed ==
    ASSUME NEW L \in Seq(RingType), NEW hears, NEW reach, NEW S, NEW ears,
           Kept(L, <<>>, hears, reach, FALSE), Covered(S, L, <<>>, hears, reach, FALSE),
           hears \subseteq ears, \A i \in 1..Len(L) : L[i].id \in ears => L[i].id \in hears
    PROVE  Kept(L, <<>>, ears, reach, FALSE) /\ Covered(S, L, <<>>, ears, reach, FALSE)
<1>1. ~\E j \in 1..Len(<<>>) : TRUE
  <2>1. Len(<<>>) = 0
    OBVIOUS
  <2> QED
    BY <2>1
<1>2. Kept(L, <<>>, ears, reach, FALSE)
  BY <1>1 DEF Kept
<1>3. Covered(S, L, <<>>, ears, reach, FALSE)
  BY <1>1 DEF Covered
<1> QED
  BY <1>2, <1>3

(* A connection that has sent nothing has its books in order.              *)
LEMMA BookEmpty ==
    ASSUME NEW hears, NEW reach, NEW up
    PROVE  /\ Kept(<<>>, <<>>, hears, reach, up) /\ Covered({}, <<>>, <<>>, hears, reach, up)
           /\ Flows(<<>>, hears, reach) /\ \A n : reach < n => Below(<<>>, <<>>, reach, n)
<1>1. ~\E j \in 1..Len(<<>>) : TRUE
  <2>1. Len(<<>>) = 0
    OBVIOUS
  <2> QED
    BY <2>1
<1> QED
  BY <1>1 DEF Kept, Covered, Flows, Below

(* A log that goes on where a client got to, and what lies beyond. *)
Adjoins(L, reach) == L # <<>> /\ reach >= L[1].seq - 1
Beyond(L, reach) == {f \in Range(L) : f.seq > reach}

(* Frames that are what the client has not heard of what was sent. *)
Answers(F, L, S, hears) ==
    /\ F \in Seq(RingType)
    /\ \A i \in 1..Len(F) : F[i].id \notin hears /\ \E k \in 1..Len(L) : F[i] = L[k]
    /\ \A i, j \in 1..Len(F) : F[i].id = F[j].id => i = j
    /\ \A id \in S : id \in hears \/ \E i \in 1..Len(F) : F[i].id = id

(* The frames a resume takes from the ring: what the client has not heard  *)
(* of what the old connection sent.                                        *)
LEMMA BookResumed ==
    ASSUME NEW L \in Seq(RingType), NEW hears, NEW reach \in Int, NEW S,
           Kept(L, <<>>, hears, reach, FALSE), Covered(S, L, <<>>, hears, reach, FALSE),
           Adjoins(L, reach),
           NEW F, F = Among(L, Beyond(L, reach))
    PROVE  Answers(F, L, S, hears)
<1> DEFINE T == Beyond(L, reach)
<1>1. F \in Seq(RingType) /\ PickedUpTo(F, L, T, Len(L))
  BY AmongKeeps
<1>2. \A i \in 1..Len(L) : L[i].seq \in Nat /\ L[i] \in Range(L)
  BY LogParts DEF Range
<1>3. L[1].seq \in Nat /\ Len(L) >= 1 /\ 1 \in 1..Len(L)
  <2>1. Len(L) >= 1 /\ 1 \in 1..Len(L)
    BY EmptySeq DEF Adjoins
  <2> QED
    BY <1>2, <2>1
<1>4. \A f \in T : f.seq > reach
  BY DEF Beyond
<1>5. \A i \in 1..Len(L) : L[i].seq > reach => L[i] \in T
  BY <1>2 DEF Beyond
<1> HIDE DEF T
<1>6. /\ \A i \in 1..Len(F) : F[i] \in T /\ \E k \in 1..Len(L) : F[i] = L[k]
      /\ \A k \in 1..Len(L) : L[k] \in T => \E i \in 1..Len(F) : F[i] = L[k]
  BY <1>1 DEF PickedUpTo
<1>7. \A j, k \in 1..Len(L) : L[j].id = L[k].id => j = k
  <2> SUFFICES ASSUME NEW j \in 1..Len(L), NEW k \in 1..Len(L), L[j].id = L[k].id, j # k
               PROVE  FALSE
    OBVIOUS
  <2>1. j < k \/ k < j
    OBVIOUS
  <2> QED
    BY <2>1 DEF Kept
<1>8. \A i, j \in 1..Len(F) : F[i].id = F[j].id => i = j
  <2>1. \A i, j \in 1..Len(F) : F[i] = F[j] => i = j
    BY <1>1, <1>7 DEF PickedUpTo
  <2> SUFFICES ASSUME NEW i \in 1..Len(F), NEW j \in 1..Len(F), F[i].id = F[j].id PROVE i = j
    OBVIOUS
  <2>2. PICK k \in 1..Len(L), l \in 1..Len(L) : F[i] = L[k] /\ F[j] = L[l]
    BY <1>6
  <2>3. F[i] = F[j]
    BY <1>7, <2>2
  <2> QED
    BY <2>1, <2>3
<1>9. \A i \in 1..Len(F) : F[i].id \notin hears
  <2> SUFFICES ASSUME NEW i \in 1..Len(F) PROVE F[i].id \notin hears
    OBVIOUS
  <2>1. PICK k \in 1..Len(L) : F[i] = L[k]
    BY <1>6
  <2>2. L[k].seq > reach /\ L[k].seq \in Nat
    BY <1>2, <1>4, <1>6, <2>1
  <2>3. ~(L[k].seq <= reach)
    BY <2>2
  <2> QED
    BY <2>1, <2>3 DEF Kept
<1>10. \A id \in S : id \in hears \/ \E i \in 1..Len(F) : F[i].id = id
  <2> SUFFICES ASSUME NEW id \in S, id \notin hears PROVE \E i \in 1..Len(F) : F[i].id = id
    OBVIOUS
  <2>1. ~(reach + 1 < L[1].seq)
    BY <1>3 DEF Adjoins
  <2>2. PICK k \in 1..Len(L) : L[k].id = id
    BY <2>1 DEF Covered
  <2>3. ~(L[k].seq <= reach) /\ L[k].seq \in Nat
    BY <1>2, <2>2 DEF Kept
  <2>4. L[k] \in T
    BY <1>5, <2>3
  <2> QED
    BY <1>6, <2>2, <2>4
<1> QED
  BY <1>1, <1>6, <1>8, <1>9, <1>10 DEF Answers

(* The book of a state has its types. *)
LEMMA EntryTyped ==
    ASSUME NEW f \in DeltaType
    PROVE  /\ RingEntry(f) \in RingType /\ RingEntry(f).seq = f.seq /\ RingEntry(f).id = f.id
           /\ f.seq \in Nat /\ f.id \in Ids
<1>1. f.seq \in Nat /\ f.id \in Ids /\ f.ops \in Seq(OpType)
  BY DEF DeltaType
<1>2. Lasting(f.ops) \in Seq(LastingOp)
  BY <1>1, LastingTyped
<1> QED
  BY <1>1, <1>2 DEF RingEntry, RingType

(* The types of what the books are about.                                  *)
LEMMA BookTyped ==
    ASSUME StreamInv
    PROVE  /\ Log \in Seq(RingType) /\ wire \in Seq(FrameType) /\ client.heard \in SUBSET Ids
           /\ client.seq \in Int /\ client.up \in BOOLEAN /\ Shipped \in SUBSET Ids
           /\ InFlight \in SUBSET Ids
           /\ Cur # 0 => /\ Bound \in Nat /\ vp[Cur].ring \in Seq(RingType) /\ Cur \in Conns
                         /\ vp[Cur] \in SessionType /\ vp[Cur].sent \in SUBSET Ids
                         /\ vp[Cur].seq \in Nat
<1>1. Cur # 0 => /\ Cur \in Conns /\ vp[Cur] \in SessionType /\ vp[Cur].ring \in Seq(RingType)
                 /\ vp[Cur].sent \in SUBSET Ids /\ vp[Cur].seq \in Nat
  BY StreamParts, SessionParts
<1>2. RingEntry(pump.frame) \in RingType /\ pump.frame.id \in Ids
  BY StreamParts, EntryTyped
<1>3. Log \in Seq(RingType)
  <2>1. \A s \in Seq(RingType) : \A x \in RingType : Append(s, x) \in Seq(RingType)
    OBVIOUS
  <2>2. <<>> \in Seq(RingType)
    OBVIOUS
  <2> QED
    BY <1>1, <1>2, <2>1, <2>2 DEF Log
<1>4. Shipped \in SUBSET Ids
  BY <1>1, <1>2 DEF Shipped
<1>5. InFlight \in SUBSET Ids
  BY StreamParts, FrameParts DEF InFlight
<1>6. Cur # 0 => Bound \in Nat
  BY <1>1 DEF Bound
<1> QED
  BY <1>1, <1>3, <1>4, <1>5, <1>6, StreamParts

(* The next number and the session of a step that keeps the connection.    *)
LEMMA BoundNext ==
    ASSUME StreamInv, StreamInv', Cur' = Cur, Cur # 0
    PROVE  Bound' \in Nat /\ vp'[Cur] \in SessionType
<1>1. Cur \in Conns /\ vp' \in [Conns -> SessionType]
  BY StreamParts DEF StreamInv, StreamTyped
<1>2. vp'[Cur].seq \in Nat
  BY <1>1, SessionParts
<1> QED
  BY <1>1, <1>2 DEF Bound

(* What is in flight is carried by the wire.                               *)
LEMMA InFlightIs == \A id : id \in InFlight <=> Carries(wire, id)
BY DEF InFlight, Carries

(* What a step that opens no connection does to the ids: those in N are    *)
(* new, the others stay where they are known.                              *)
Moves(N) ==
    /\ Cur' = Cur
    /\ client'.up => client.up
    /\ Live' => Live /\ Bound <= Bound'
    /\ client.heard \subseteq client'.heard /\ client'.heard \subseteq client.heard \cup InFlight
    /\ InFlight' \subseteq InFlight \cup N /\ Shipped' \subseteq Shipped \cup N
    /\ client'.up => InFlight \subseteq client'.heard \cup InFlight'
    /\ \A c \in Conns : c # Cur => \/ vp'[c].ring = vp[c].ring /\ vp'[c].sent = vp[c].sent
                                   \/ vp'[c].ring = <<>> /\ vp'[c].sent \subseteq vp[c].sent
    /\ Cur # 0 => /\ vp'[Cur].sent \subseteq Shipped'
                  /\ \A i \in 1..Len(vp'[Cur].ring) : vp'[Cur].ring[i].id \in vp'[Cur].sent

(* A new id is one of the newest connection, or of one before. *)
LEMMA DatedOn ==
    ASSUME StreamInv, StreamInv', Dated, NEW N \in SUBSET Ids, Moves(N),
           \A x \in N : x[1] <= Cur /\ (Live' /\ x[1] = Cur => x[2] < Bound')
    PROVE  Dated'
<1>1. \A id \in client'.heard \cup InFlight' \cup Shipped' :
         id[1] <= Cur' /\ (Live' /\ id[1] = Cur' => id[2] < Bound')
  <2> SUFFICES ASSUME NEW id \in client'.heard \cup InFlight' \cup Shipped'
               PROVE  id[1] <= Cur /\ (Live' /\ id[1] = Cur => id[2] < Bound')
    BY DEF Moves
  <2>1. CASE id \in N
    BY <2>1
  <2>2. CASE id \in client.heard \cup InFlight \cup Shipped
    <3>1. id[1] <= Cur /\ (Live /\ id[1] = Cur => id[2] < Bound)
      BY <2>2 DEF Dated
    <3>2. id \in Ids
      BY <2>2, BookTyped
    <3>3. id[1] \in Nat /\ id[2] \in Nat
      BY <3>2 DEF Ids
    <3>4. Live' => Live /\ Bound <= Bound' /\ Bound \in Nat /\ Bound' \in Nat
      <4>1. Live' => Live /\ Bound <= Bound' /\ Cur # 0 /\ Cur' = Cur
        BY DEF Moves, Live
      <4> QED
        BY <4>1, BookTyped, BoundNext
    <3> QED
      BY <3>1, <3>3, <3>4
  <2> QED
    BY <2>1, <2>2 DEF Moves
<1>2. \A c \in Conns : /\ \A id \in vp'[c].sent : id[1] <= c
                       /\ \A i \in 1..Len(vp'[c].ring) : vp'[c].ring[i].id \in vp'[c].sent
  <2> SUFFICES ASSUME NEW c \in Conns
               PROVE  /\ \A id \in vp'[c].sent : id[1] <= c
                      /\ \A i \in 1..Len(vp'[c].ring) : vp'[c].ring[i].id \in vp'[c].sent
    OBVIOUS
  <2>1. CASE c # Cur
    <3>1. Len(<<>>) = 0
      OBVIOUS
    <3>2. CASE vp'[c].ring = vp[c].ring /\ vp'[c].sent = vp[c].sent
      BY <3>2 DEF Dated
    <3>3. CASE vp'[c].ring = <<>> /\ vp'[c].sent \subseteq vp[c].sent
      BY <3>1, <3>3 DEF Dated
    <3> QED
      BY <2>1, <3>2, <3>3 DEF Moves
  <2>2. CASE c = Cur
    <3>1. /\ vp'[c].sent \subseteq Shipped' /\ Cur' = Cur
          /\ \A i \in 1..Len(vp'[c].ring) : vp'[c].ring[i].id \in vp'[c].sent
      BY <2>2 DEF Moves, Conns
    <3> QED
      BY <1>1, <2>2, <3>1
  <2> QED
    BY <2>1, <2>2
<1> QED
  BY <1>1, <1>2 DEF Dated

(* What the client may resume stays as it was, or is forgotten. *)
LEMMA BackedOn ==
    ASSUME StreamInv, Dated, Backed, NEW N \in SUBSET Ids, Moves(N),
           client'.back.conn # 0 =>
              LET b == client.back.conn IN
              /\ client'.back = client.back
              /\ replay'.old = replay.old \/ replay'.old = 0
              /\ \/ vp'[b].ring = vp[b].ring /\ vp'[b].sent = vp[b].sent
                 \/ vp'[b].ring = <<>> /\ vp'[b].sent = {}
              /\ \A x \in N : x[1] = Cur
    PROVE  Backed'
<1> SUFFICES ASSUME client'.back.conn # 0 PROVE Backed'
  BY DEF Backed
<1> DEFINE b == client.back.conn
<1>1. /\ client'.back = client.back /\ b # 0
      /\ replay'.old = replay.old \/ replay'.old = 0
      /\ \/ vp'[b].ring = vp[b].ring /\ vp'[b].sent = vp[b].sent
         \/ vp'[b].ring = <<>> /\ vp'[b].sent = {}
      /\ \A x \in N : x[1] = Cur
  OBVIOUS
<1>2. b \in Conns /\ b < Cur /\ b \in Nat /\ Cur \in Nat /\ Cur # 0
  <2>1. b \in 0..MaxConns /\ b # 0 /\ Conns = 1..MaxConns /\ MaxConns \in Nat /\ Cur \in Nat
    BY <1>1, StreamParts
  <2>2. b < Cur
    BY <1>1, StreamKept
  <2> QED
    BY <2>1, <2>2
<1> HIDE DEF b
<1>3. /\ Kept(vp[b].ring, <<>>, client.heard, client.back.seq, FALSE)
      /\ Covered(vp[b].sent, vp[b].ring, <<>>, client.heard, client.back.seq, FALSE)
      /\ replay.old = 0 /\ \A id \in InFlight \cup Shipped : id[1] = Cur
  BY <1>1 DEF Backed, b
<1>4. \A i \in 1..Len(vp[b].ring) : vp[b].ring[i].id \in client'.heard => vp[b].ring[i].id \in client.heard
  <2> SUFFICES ASSUME NEW i \in 1..Len(vp[b].ring), vp[b].ring[i].id \in client'.heard
               PROVE  vp[b].ring[i].id \in client.heard
    OBVIOUS
  <2>1. vp[b].ring[i].id \in vp[b].sent /\ vp[b].ring[i].id[1] <= b
    BY <1>2 DEF Dated
  <2>2. vp[b].sent \in SUBSET Ids
    BY <1>2, StreamParts, SessionParts
  <2>3. vp[b].ring[i].id[1] \in Nat
    BY <2>1, <2>2 DEF Ids
  <2>4. vp[b].ring[i].id[1] # Cur
    BY <1>2, <2>1, <2>3
  <2> QED
    BY <1>3, <2>4 DEF Moves
<1>5. /\ Kept(vp[b].ring, <<>>, client'.heard, client.back.seq, FALSE)
      /\ Covered(vp[b].sent, vp[b].ring, <<>>, client'.heard, client.back.seq, FALSE)
  <2>1. vp[b].ring \in Seq(RingType)
    BY <1>2, StreamParts, SessionParts
  <2> QED
    BY <1>3, <1>4, <2>1, BookClosed DEF Moves
<1>6. /\ Kept(vp'[b].ring, <<>>, client'.heard, client.back.seq, FALSE)
      /\ Covered(vp'[b].sent, vp'[b].ring, <<>>, client'.heard, client.back.seq, FALSE)
  BY ZenonT(30), <1>1, <1>5, BookEmpty
<1>7. replay'.old = 0 /\ Cur' = Cur /\ \A id \in InFlight' \cup Shipped' : id[1] = Cur
  BY <1>1, <1>3 DEF Moves
<1> QED
  BY <1>1, <1>6, <1>7 DEF Backed, b

(* What a replay brought stays heard or in flight. *)
LEMMA ResumedOn ==
    ASSUME StreamInv, StreamInv', Resumed, NEW N \in SUBSET Ids, Moves(N),
           Cur # 0 => vp'[Cur].after \in {vp[Cur].after, 0}
    PROVE  Resumed'
<1> SUFFICES ASSUME Cur # 0, vp'[Cur].after # 0
             PROVE  /\ vp'[Cur].after < Cur
                    /\ client'.up => vp'[vp'[Cur].after].sent \subseteq client'.heard \cup InFlight'
  BY DEF Resumed, Moves
<1>1. vp'[Cur].after = vp[Cur].after /\ vp[Cur].after # 0
  OBVIOUS
<1>2. /\ vp[Cur].after < Cur
      /\ client.up => vp[vp[Cur].after].sent \subseteq client.heard \cup InFlight
  BY <1>1 DEF Resumed
<1>3. vp[Cur].after \in Conns /\ vp[Cur].after # Cur
  <2>1. vp[Cur].after \in 0..MaxConns /\ Conns = 1..MaxConns /\ MaxConns \in Nat /\ Cur \in Nat
    BY StreamParts, SessionParts
  <2> QED
    BY <1>1, <1>2, <2>1
<1>4. vp'[vp[Cur].after].sent \subseteq vp[vp[Cur].after].sent
  BY <1>3 DEF Moves
<1> QED
  BY <1>1, <1>2, <1>4 DEF Moves

(* What a replay has still to send stays new to the client. *)
LEMMA ReplaysOn ==
    ASSUME StreamInv, Replays, NEW N \in SUBSET Ids, Moves(N), \A x \in N : x[1] = Cur,
           replay' = replay \/ replay' = NoReplay
    PROVE  Replays'
<1>1. CASE replay' = NoReplay
  <2>1. ~\E i \in 1..Len(<<>>) : TRUE
    <3>1. Len(<<>>) = 0
      OBVIOUS
    <3> QED
      BY <3>1
  <2>2. replay'.old = 0 /\ replay'.frames = <<>>
    BY <1>1 DEF NoReplay
  <2> QED
    BY <2>1, <2>2 DEF Replays
<1>2. CASE replay' = replay
  <2>1. \A i \in 1..Len(replay.frames) :
          /\ replay.frames[i].id[1] < Cur
          /\ replay.frames[i].id \notin client'.heard \cup InFlight' \cup Shipped'
    <3> SUFFICES ASSUME NEW i \in 1..Len(replay.frames)
                 PROVE  /\ replay.frames[i].id[1] < Cur
                        /\ replay.frames[i].id \notin client'.heard \cup InFlight' \cup Shipped'
      OBVIOUS
    <3>1. /\ replay.frames[i].id[1] < Cur
          /\ replay.frames[i].id \notin client.heard \cup InFlight \cup Shipped
      BY DEF Replays
    <3>2. replay.frames[i].id \in Ids
      BY StreamParts, LogParts
    <3>3. replay.frames[i].id[1] \in Nat /\ Cur \in Nat
      BY <3>2, StreamParts DEF Ids
    <3>4. replay.frames[i].id \notin N
      BY <3>1, <3>3
    <3> QED
      BY <3>1, <3>4 DEF Moves
  <2>2. replay.old # 0 /\ client'.up => \A id \in vp'[replay.old].sent :
          id \in client'.heard \cup InFlight' \/ \E i \in 1..Len(replay.frames) : replay.frames[i].id = id
    <3> SUFFICES ASSUME replay.old # 0, client'.up, NEW id \in vp'[replay.old].sent
                 PROVE  \/ id \in client'.heard \cup InFlight'
                        \/ \E i \in 1..Len(replay.frames) : replay.frames[i].id = id
      OBVIOUS
    <3>1. replay.old \in Conns /\ replay.old # Cur /\ client.up
      <4>1. /\ replay.old \in 0..MaxConns /\ Conns = 1..MaxConns /\ MaxConns \in Nat /\ Cur \in Nat
            /\ replay.old < Cur
        BY StreamParts, StreamKept
      <4> QED
        BY <4>1 DEF Moves
    <3>2. id \in vp[replay.old].sent
      BY <3>1 DEF Moves
    <3>3. \/ id \in client.heard \cup InFlight
          \/ \E i \in 1..Len(replay.frames) : replay.frames[i].id = id
      BY <3>1, <3>2 DEF Replays
    <3> QED
      BY <3>3 DEF Moves
  <2> QED
    BY <1>2, <2>1, <2>2 DEF Replays, Moves
<1> QED
  BY <1>1, <1>2

(* The book of a step that neither logs, sends nor loses a frame. *)
LEMMA BookSame ==
    ASSUME Book, Sending => Cur # 0, UNCHANGED wire, client'.heard = client.heard, client'.seq = client.seq,
           client'.up = client.up, Log' = Log, Shipped' = Shipped, Cur' = Cur,
           Live' => Live /\ Bound' = Bound,
           Cur # 0 => vp'[Cur].ring = vp[Cur].ring /\ vp'[Cur].sent = vp[Cur].sent,
           pump'.pc = "sending" => Sending /\ pump'.frame = pump.frame /\ ~At({"sending"})'
    PROVE  Book'
<1>1. /\ Flows(wire', client'.heard, client'.seq)
      /\ Kept(Log', wire', client'.heard, client'.seq, client'.up)
      /\ Covered(Shipped', Log', wire', client'.heard, client'.seq, client'.up)
  BY DEF Book
<1>2. Live' => Below(Log', wire', client'.seq, Bound')
  BY DEF Book
<1>3. /\ Cur' # 0 /\ vp'[Cur'].ring = <<>> => vp'[Cur'].sent = {}
      /\ Sending' => pump'.frame.id \notin vp'[Cur'].sent /\ ~At({"sending"})'
  BY DEF Book, Sending
<1> QED
  BY <1>1, <1>2, <1>3 DEF Book

(* A step after which all ids are old, or of the newest connection. *)
LEMMA ReplayOn ==
    ASSUME StreamInv, StreamInv', ReplayInv, Book', NEW N \in SUBSET Ids, Moves(N),
           \A x \in N : x[1] = Cur /\ (Live' => x[2] < Bound'),
           replay' = replay \/ replay' = NoReplay,
           Cur # 0 => vp'[Cur].after \in {vp[Cur].after, 0},
           client'.back = client.back, ~client'.twice,
           \A c \in Conns : c # Cur => \/ vp'[c].ring = vp[c].ring /\ vp'[c].sent = vp[c].sent
                                       \/ vp'[c].ring = <<>> /\ vp'[c].sent = {}
    PROVE  ReplayInv'
<1>1. /\ Book /\ Dated /\ Backed /\ Replays /\ Resumed
  BY DEF ReplayInv
<1>2. Cur \in Nat
  BY StreamParts
<1>3. \A x \in N : x[1] <= Cur /\ (Live' /\ x[1] = Cur => x[2] < Bound')
  BY <1>2
<1>4. Dated'
  BY <1>1, <1>3, DatedOn
<1>5. Backed'
  <2>1. client'.back.conn # 0 => client.back.conn \in Conns /\ client.back.conn # Cur
    <3>1. /\ client.back.conn \in 0..MaxConns /\ Conns = 1..MaxConns /\ MaxConns \in Nat
          /\ client.back.conn = 0 \/ client.back.conn < Cur
      BY StreamParts, StreamKept
    <3> QED
      BY <1>2, <3>1
  <2>2. replay'.old = replay.old \/ replay'.old = 0
    BY DEF NoReplay
  <2> QED
    BY <1>1, <2>1, <2>2, BackedOn
<1>6. Replays'
  BY <1>1, ReplaysOn
<1>7. Resumed'
  BY <1>1, ResumedOn
<1> QED
  BY <1>4, <1>5, <1>6, <1>7 DEF ReplayInv

(* A step that leaves what was logged and sent as it was. *)
LEMMA StillReplay ==
    ASSUME StreamInv, StreamInv', ReplayInv, Cur' = Cur, UNCHANGED <<replay, wire, client>>,
           \A c \in Conns : /\ vp'[c].ring = vp[c].ring /\ vp'[c].sent = vp[c].sent
                            /\ vp'[c].seq = vp[c].seq /\ vp'[c].after = vp[c].after
                            /\ vp'[c].live = vp[c].live,
           pump'.pc = "sending" <=> Sending, Sending => pump'.frame = pump.frame,
           Sending => Cur # 0 /\ handler'[Cur] = handler[Cur]
    PROVE  ReplayInv'
<1>1. Cur # 0 => Cur \in Conns
  BY StreamParts
<1>2. /\ Log' = Log /\ Shipped' = Shipped /\ InFlight' = InFlight
      /\ Live' = Live /\ (Live => Bound' = Bound)
  <2>1. Sending' <=> Sending
    BY DEF Sending
  <2>2. Log' = Log
    BY <1>1, <2>1 DEF Log, RingEntry
  <2>3. Shipped' = Shipped
    BY <1>1, <2>1 DEF Shipped
  <2>4. InFlight' = InFlight
    BY DEF InFlight
  <2>5. Live' = Live /\ (Live => Bound' = Bound)
    BY <1>1, <2>1 DEF Live, Bound
  <2> QED
    BY <2>2, <2>3, <2>4, <2>5
<1>3. Book /\ Dated /\ ~client.twice
  BY DEF ReplayInv
<1>4. Book'
  <2>1. Sending => ~At({"sending"})'
    BY <1>3 DEF Book, At
  <2> QED
    BY <1>1, <1>2, <1>3, <2>1, BookSame
<1>5. Moves({})
  <2>1. Live => Bound <= Bound
    BY BookTyped DEF Live
  <2>2. Cur # 0 => /\ vp[Cur].sent \subseteq Shipped
                   /\ \A i \in 1..Len(vp[Cur].ring) : vp[Cur].ring[i].id \in vp[Cur].sent
    BY <1>1, <1>3 DEF Shipped, Dated
  <2> QED
    BY <1>1, <1>2, <2>1, <2>2 DEF Moves
<1> QED
  BY <1>1, <1>3, <1>4, <1>5, ReplayOn

(* The world does not touch the books.                                     *)
LEMMA WorldReplay ==
    ASSUME StreamInv, ReplayInv, World PROVE ReplayInv'
<1>1. WorldDoes /\ StreamInv' /\ Cur' = Cur
  BY WorldTyped, WorldKeepsStream
<1>2. UNCHANGED <<handler, pump, replay, wire, client>>
  BY <1>1 DEF WorldDoes, Apart
<1>3. \A c \in Conns : /\ vp'[c].ring = vp[c].ring /\ vp'[c].sent = vp[c].sent
                       /\ vp'[c].seq = vp[c].seq /\ vp'[c].after = vp[c].after
                       /\ vp'[c].live = vp[c].live
  <2>1. CASE vp' = vp
    BY <2>1
  <2>2. ASSUME NEW op \in OpType, Queued(op)
        PROVE  \A c \in Conns : /\ vp'[c].ring = vp[c].ring /\ vp'[c].sent = vp[c].sent
                                /\ vp'[c].seq = vp[c].seq /\ vp'[c].after = vp[c].after
                                /\ vp'[c].live = vp[c].live
    BY <2>2, QueuedTyped
  <2>3. vp' = vp \/ \E op \in OpType : Queued(op)
    BY <1>1, LastingIsOp, BubbleOpTyped DEF WorldDoes
  <2> QED
    BY <2>1, <2>2, <2>3
<1>4. Sending => Cur # 0
  BY StreamKept DEF Sending
<1> QED
  BY <1>1, <1>2, <1>3, <1>4, StillReplay DEF Sending

(* Taking the oldest off and adding the newest can be done in either       *)
(* order.                                                                  *)
LEMMA TailOfAppend ==
    ASSUME NEW A, NEW s \in Seq(A), NEW x \in A, Len(s) >= 1
    PROVE  Tail(Append(s, x)) = Append(Tail(s), x) /\ Len(Append(s, x)) >= 2
OBVIOUS

(* A frame that is sent and logged. *)
LEMMA BookGrows ==
    ASSUME StreamInv, ReplayInv, ~Sending, Live, UNCHANGED client, Cur' = Cur,
           NEW d \in DeltaType, d.seq = vp[Cur].seq, Sends(d),
           d.id \notin client.heard \cup InFlight \cup Shipped,
           NEW e \in RingType, e.seq = d.seq, e.id = d.id,
           Log' = Append(Log, e) \/ (Len(Log) >= 1 /\ Log' = Append(Tail(Log), e)),
           Shipped' = Shipped \cup {d.id}, Bound' = Bound + 1,
           vp'[Cur].ring = <<>> => vp'[Cur].sent = {},
           pump'.pc = "sending" => pump'.frame.id \notin vp'[Cur].sent /\ ~At({"sending"})'
    PROVE  /\ Book' /\ InFlight' \subseteq InFlight \cup {d.id}
           /\ client.up => InFlight \subseteq InFlight' /\ d.id \in InFlight'
<1> DEFINE M == Append(Log, e)
<1>1. /\ Cur # 0 /\ Log \in Seq(RingType) /\ wire \in Seq(FrameType) /\ client.heard \in SUBSET Ids
      /\ client.seq \in Int /\ client.up \in BOOLEAN /\ Bound \in Nat /\ Bound = vp[Cur].seq
      /\ Log = vp[Cur].ring /\ Shipped = vp[Cur].sent /\ Cur \in Conns
  BY BookTyped DEF Live, Bound, Log, Shipped
<1>2. /\ Flows(wire, client.heard, client.seq)
      /\ Kept(Log, wire, client.heard, client.seq, client.up)
      /\ Covered(Shipped, Log, wire, client.heard, client.seq, client.up)
      /\ Below(Log, wire, client.seq, Bound)
  BY DEF ReplayInv, Book
<1>3. d \in FrameType /\ IsDelta(d) /\ d.kind = "delta"
  BY DEF FrameType, DeltaType, IsDelta
<1>4. /\ wire' \in Seq(FrameType)
      /\ client.up => wire' = Append(wire, d)
      /\ ~client.up => wire' = wire
  BY <1>3, SendsTyped
<1>5. \A j \in 1..Len(wire) : j \in 1..Len(wire') /\ wire'[j] = wire[j]
  <2>1. CASE client.up
    BY <1>1, <1>3, <1>4, <2>1, Appended
  <2>2. CASE ~client.up
    BY <1>4, <2>2
  <2> QED
    BY <2>1, <2>2
<1>6. /\ ~Carries(wire, d.id) /\ ~Carries(wire, e.id)
      /\ d.id \notin client.heard /\ e.id \notin client.heard
      /\ \A i \in 1..Len(Log) : Log[i].id # e.id
  BY <1>1, InFlightIs DEF ReplayInv, Dated
<1>7. Flows(wire', client.heard, client.seq)
  <2>1. CASE client.up
    <3>1. /\ client.seq < d.seq /\ client.seq <= d.seq
          /\ \A j \in 1..Len(wire) : wire[j].seq <= d.seq /\ wire[j].seq < d.seq
      BY <1>1, <1>2, FrameParts DEF Below
    <3>2. /\ wire \in Seq(FrameType) /\ client.seq \in Int /\ d \in FrameType
          /\ Flows(wire, client.heard, client.seq) /\ client.seq <= d.seq
      BY <1>1, <1>2, <1>3, <3>1
    <3>3. IsDelta(d) => client.seq < d.seq
      BY <3>1
    <3>4. \A j \in 1..Len(wire) : wire[j].seq <= d.seq /\ (IsDelta(d) => wire[j].seq < d.seq)
      BY <3>1
    <3>5. IsDelta(d) => d.id \notin client.heard /\ ~Carries(wire, d.id)
      BY <1>6
    <3>6. Flows(Append(wire, d), client.heard, client.seq)
      BY <3>2, <3>3, <3>4, <3>5, FlowsOn
    <3> QED
      BY <1>4, <2>1, <3>6
  <2>2. CASE ~client.up
    BY <1>2, <1>4, <2>2
  <2> QED
    BY <2>1, <2>2
<1>8. /\ Kept(M, wire', client.heard, client.seq, client.up)
      /\ Below(M, wire', client.seq, Bound + 1)
  <2>1. client.up => \E x \in DeltaType : x.seq = Bound /\ x.id = e.id /\ wire' = Append(wire, x)
    BY <1>1, <1>4
  <2> QED
    <3>1. /\ Log \in Seq(RingType) /\ wire \in Seq(FrameType) /\ client.seq \in Int
          /\ client.up \in BOOLEAN /\ Bound \in Nat /\ e \in RingType /\ wire' \in Seq(FrameType)
          /\ Kept(Log, wire, client.heard, client.seq, client.up)
          /\ Below(Log, wire, client.seq, Bound) /\ e.seq = Bound
          /\ e.id \notin client.heard /\ ~Carries(wire, e.id)
          /\ \A i \in 1..Len(Log) : Log[i].id # e.id
      BY <1>1, <1>2, <1>4, <1>6
    <3>2. ~client.up => wire' = wire
      BY <1>4
    <3> QED
      BY <2>1, <3>1, <3>2, KeptOn
<1>9. Covered(Shipped \cup {e.id}, M, wire', client.heard, client.seq, client.up)
  <2>1. /\ Log \in Seq(RingType) /\ wire \in Seq(FrameType) /\ client.seq \in Int
        /\ client.up \in BOOLEAN /\ e \in RingType /\ wire' \in Seq(FrameType)
        /\ Covered(Shipped, Log, wire, client.heard, client.seq, client.up)
    BY <1>1, <1>2, <1>4
  <2> QED
    BY <1>5, <2>1, CoveredOn
<1>10. /\ Kept(Log', wire', client.heard, client.seq, client.up)
       /\ Below(Log', wire', client.seq, Bound + 1)
       /\ Covered(Shipped \cup {e.id}, Log', wire', client.heard, client.seq, client.up)
  <2>1. CASE Log' = M
    BY <1>8, <1>9, <2>1
  <2>2. CASE Len(Log) >= 1 /\ Log' = Append(Tail(Log), e)
    <3>1. Log' = Tail(M) /\ Len(M) >= 2 /\ M \in Seq(RingType)
      BY SMTT(30), <1>1, <2>2, TailOfAppend
    <3> HIDE DEF M
    <3> QED
      BY <1>1, <1>4, <1>8, <1>9, <3>1, KeptTail
  <2> QED
    BY <2>1, <2>2
<1>11. /\ InFlight' \subseteq InFlight \cup {d.id}
       /\ client.up => InFlight \subseteq InFlight' /\ d.id \in InFlight'
  <2>1. CASE client.up
    <3>1. /\ Len(wire) + 1 \in 1..Len(wire') /\ wire'[Len(wire) + 1] = d
          /\ \A j \in 1..Len(wire') : j \in 1..Len(wire) \/ j = Len(wire) + 1
      BY <1>1, <1>3, <1>4, <2>1, Appended
    <3> QED
      BY <1>3, <1>5, <3>1 DEF InFlight
  <2>2. CASE ~client.up
    BY <1>4, <2>2 DEF InFlight
  <2> QED
    BY <2>1, <2>2
<1>12. Book'
  <2>1. client' = client /\ Cur' = Cur /\ Cur # 0
    BY <1>1
  <2>2. /\ Flows(wire', client'.heard, client'.seq)
        /\ Kept(Log', wire', client'.heard, client'.seq, client'.up)
        /\ Covered(Shipped', Log', wire', client'.heard, client'.seq, client'.up)
        /\ Below(Log', wire', client'.seq, Bound')
    BY <1>7, <1>10, <2>1
  <2>3. /\ vp'[Cur'].ring = <<>> => vp'[Cur'].sent = {}
        /\ Sending' => pump'.frame.id \notin vp'[Cur'].sent /\ ~At({"sending"})'
    BY <2>1 DEF Sending
  <2> QED
    BY <2>2, <2>3 DEF Book
<1> QED
  BY <1>11, <1>12

(* The sessions of a step that replaces one of them. *)
LEMMA SetOne ==
    ASSUME StreamInv, NEW d \in Conns, NEW v, vp' = [vp EXCEPT ![d] = v]
    PROVE  vp'[d] = v /\ \A c \in Conns : c # d => vp'[c] = vp[c]
BY StreamParts

(* The ids of a ring that took an entry. *)
LEMMA RingedIds ==
    ASSUME NEW ring \in Seq(RingType), NEW e \in RingType, Len(ring) <= RingSize, NEW S,
           \A i \in 1..Len(ring) : ring[i].id \in S
    PROVE  \A i \in 1..Len(Ringed(ring, e)) : Ringed(ring, e)[i].id \in S \cup {e.id}
<1>1. CASE Ringed(ring, e) = Append(ring, e)
  BY <1>1, Appended
<1>2. CASE Len(ring) >= 1 /\ Ringed(ring, e) = Append(Tail(ring), e)
  <2> DEFINE T == Tail(ring)
  <2>1. T \in Seq(RingType) /\ \A i \in 1..Len(T) : T[i].id \in S
    BY <1>2, Tailed
  <2>2. Ringed(ring, e) = Append(T, e)
    BY <1>2
  <2> HIDE DEF T
  <2> QED
    BY <2>1, <2>2, Appended
<1> QED
  BY <1>1, <1>2, RingedIs

(* A flush logs and sends one frame of a new id, or does neither. *)
LEMMA FlushReplay ==
    ASSUME StreamInv, ReplayInv, pump.pc # "dead", ~Sending, ~At({"sending"}),
           NEW v, Ready(v), Flush(Cur, v),
           v.ring = vp[Cur].ring, v.sent = vp[Cur].sent, v.seq = vp[Cur].seq,
           v.after = vp[Cur].after, v.live = vp[Cur].live,
           UNCHANGED <<hub, unsaid, note, replay, client, spent>>
    PROVE  ReplayInv'
<1>1. /\ Cur # 0 /\ Cur \in Conns /\ vp[Cur].live /\ StreamInv' /\ Cur' = Cur /\ Live
      /\ client' = client /\ replay' = replay
  BY PumpIsReady, FlushTyped DEF Ready, Live
<1>2. v \in SessionType /\ v.live /\ Len(v.ring) <= RingSize
  BY DEF Ready
<1>3. Pump("asleep").pc = "asleep" /\ Pump("dead").pc = "dead"
  BY PumpTyped
<1>4. ASSUME NEW w, vp' = [vp EXCEPT ![Cur] = w], w.ring = v.ring, w.sent = v.sent, w.seq = v.seq,
             w.after = v.after, w.live = v.live, pump'.pc # "sending", wire' = wire
      PROVE  ReplayInv'
  <2>1. vp'[Cur] = w /\ \A c \in Conns : c # Cur => vp'[c] = vp[c]
    BY <1>1, <1>4, SetOne
  <2>2. \A c \in Conns : /\ vp'[c].ring = vp[c].ring /\ vp'[c].sent = vp[c].sent
                         /\ vp'[c].seq = vp[c].seq /\ vp'[c].after = vp[c].after
                         /\ vp'[c].live = vp[c].live
    BY <1>4, <2>1
  <2> QED
    BY <1>1, <1>4, <2>2, StillReplay DEF Sending
<1>5. CASE Rests(Cur, v)
  <2>1. vp' = [vp EXCEPT ![Cur] = [v EXCEPT !.slow = 0]] /\ wire' = wire /\ pump' = Pump("asleep")
    BY <1>5 DEF Rests
  <2> DEFINE w == [v EXCEPT !.slow = 0]
  <2>2. w.ring = v.ring /\ w.sent = v.sent /\ w.seq = v.seq /\ w.after = v.after /\ w.live = v.live
    BY <1>2 DEF SessionType
  <2> HIDE DEF w
  <2>3. vp' = [vp EXCEPT ![Cur] = w]
    BY <2>1 DEF w
  <2> QED
    BY <1>3, <1>4, <2>1, <2>2, <2>3
<1>6. CASE Balks(Cur, v)
  <2> DEFINE w == [v EXCEPT !.slow = @ + 1]
             pc == IF v.slow + 1 >= MaxSlow THEN "dead" ELSE "asleep"
  <2>1. vp' = [vp EXCEPT ![Cur] = w] /\ wire' = wire /\ pump' = Pump(pc)
    BY <1>6 DEF Balks
  <2>2. w.ring = v.ring /\ w.sent = v.sent /\ w.seq = v.seq /\ w.after = v.after /\ w.live = v.live
    BY <1>2 DEF SessionType
  <2>3. pump'.pc # "sending"
    BY <1>3, <2>1
  <2> HIDE DEF w
  <2> QED
    BY <1>4, <2>1, <2>2, <2>3
<1> DEFINE f == FrameOf(Cur, v)
           x == <<Cur, v.seq>>
<1>7. /\ f \in DeltaType /\ f.seq = v.seq /\ f.id = x
  BY <1>1, <1>2, TakenTyped
<1>8. RingEntry(f) \in RingType /\ RingEntry(f).seq = f.seq /\ RingEntry(f).id = f.id
  BY <1>7, EntryTyped
<1>9. /\ Bound = v.seq /\ Log = v.ring /\ Shipped = v.sent /\ v.seq \in Nat
      /\ Log \in Seq(RingType) /\ Cur \in Nat
  BY <1>1, <1>2, SessionParts, StreamParts DEF Bound, Log, Shipped
<1>10. x \in Ids /\ x[1] = Cur /\ x[2] = v.seq
  BY <1>9 DEF Ids
<1> HIDE DEF f, x
<1>11. x \notin client.heard \cup InFlight \cup Shipped
  <2>1. \A id \in client.heard \cup InFlight \cup Shipped : id[1] = Cur => id[2] < Bound
    BY <1>1 DEF ReplayInv, Dated
  <2> QED
    BY <1>9, <1>10, <2>1
<1>12. ASSUME NEW w, vp' = [vp EXCEPT ![Cur] = w], Sends(f),
              Log' = Append(Log, RingEntry(f)) \/ (Len(Log) >= 1 /\ Log' = Append(Tail(Log), RingEntry(f))),
              Shipped' = Shipped \cup {x}, Bound' = Bound + 1,
              w.ring = <<>> => w.sent = {}, w.sent \subseteq Shipped', w.after = v.after,
              \A i \in 1..Len(w.ring) : w.ring[i].id \in w.sent,
              pump'.pc = "sending" => pump'.frame.id \notin w.sent /\ UNCHANGED handler
       PROVE  ReplayInv'
  <2>1. vp'[Cur] = w /\ \A c \in Conns : c # Cur => vp'[c] = vp[c]
    BY <1>1, <1>12, SetOne
  <2>2. pump'.pc = "sending" => ~At({"sending"})'
    BY <1>1, <1>12 DEF At
  <2>3. /\ Book' /\ InFlight' \subseteq InFlight \cup {x}
        /\ client.up => InFlight \subseteq InFlight'
    <3>1. /\ ~Sending /\ Live /\ client' = client /\ Cur' = Cur /\ f \in DeltaType
          /\ f.seq = vp[Cur].seq /\ Sends(f) /\ f.id \notin client.heard \cup InFlight \cup Shipped
          /\ RingEntry(f) \in RingType /\ RingEntry(f).seq = f.seq /\ RingEntry(f).id = f.id
          /\ Log' = Append(Log, RingEntry(f)) \/ (Len(Log) >= 1 /\ Log' = Append(Tail(Log), RingEntry(f)))
          /\ Shipped' = Shipped \cup {f.id} /\ Bound' = Bound + 1
      BY <1>1, <1>7, <1>8, <1>11, <1>12
    <3>2. vp'[Cur].ring = <<>> => vp'[Cur].sent = {}
      BY <1>12, <2>1
    <3>3. pump'.pc = "sending" => pump'.frame.id \notin vp'[Cur].sent /\ ~At({"sending"})'
      BY <1>12, <2>1, <2>2
    <3> QED
      BY <1>7, <3>1, <3>2, <3>3, BookGrows
  <2>4. Moves({x})
    <3>1. Live' => Live /\ Bound <= Bound'
      BY <1>1, <1>9, <1>12
    <3> QED
      BY <1>1, <1>12, <2>1, <2>3, <3>1 DEF Moves
  <2>5. {x} \in SUBSET Ids /\ \A y \in {x} : y[1] = Cur /\ (Live' => y[2] < Bound')
    BY <1>9, <1>10, <1>12
  <2>6. ~client'.twice /\ client'.back = client.back
    BY <1>1 DEF ReplayInv
  <2>7. vp'[Cur].after \in {vp[Cur].after, 0}
    BY <1>12, <2>1
  <2> QED
    BY <1>1, <2>1, <2>3, <2>4, <2>5, <2>6, <2>7, ReplayOn
<1>13. /\ vp[Cur].ring = <<>> => vp[Cur].sent = {}
       /\ \A i \in 1..Len(v.ring) : v.ring[i].id \in v.sent
  BY <1>1 DEF ReplayInv, Book, Dated
<1>14. CASE Starts(Cur, v)
  <2> DEFINE w == TakenFrom(v)
  <2>1. /\ Sends(f) /\ UNCHANGED handler /\ vp' = [vp EXCEPT ![Cur] = w]
        /\ pump'.pc = "sending" /\ pump'.frame = f
    <3>1. pump \in PumpType /\ pump' = [pump EXCEPT !.pc = "sending", !.frame = f]
      BY <1>14, StreamParts DEF Starts, f
    <3>2. pump'.pc = "sending" /\ pump'.frame = f
      BY <3>1 DEF PumpType
    <3> QED
      BY <1>14, <3>2 DEF Starts, f
  <2>2. /\ w.ring = v.ring /\ w.sent = v.sent /\ w.seq = v.seq /\ w.after = v.after
    BY <1>2, TakenParts
  <2> HIDE DEF w
  <2>3. vp'[Cur] = w
    BY <1>1, <2>1, SetOne
  <2>4. Log' = Append(Log, RingEntry(f))
    BY <1>1, <1>9, <2>1, <2>2, <2>3 DEF Log, Sending, RingEntry
  <2>5. Shipped' = Shipped \cup {x}
    BY <1>1, <1>7, <1>9, <2>1, <2>2, <2>3 DEF Shipped, Sending
  <2>6. Bound' = Bound + 1
    BY <1>1, <1>9, <2>1, <2>2, <2>3 DEF Bound, Sending
  <2>7. /\ w.ring = <<>> => w.sent = {}
        /\ w.sent \subseteq Shipped' /\ pump'.frame.id \notin w.sent
        /\ \A i \in 1..Len(w.ring) : w.ring[i].id \in w.sent
    BY <1>7, <1>9, <1>11, <1>13, <2>1, <2>2, <2>5
  <2> QED
    BY <1>12, <2>1, <2>2, <2>4, <2>5, <2>6, <2>7
<1>15. CASE Flushes(Cur, v)
  <2> DEFINE w == Committed(TakenFrom(v), f, pump.seen)
  <2>1. /\ Sends(f) /\ UNCHANGED handler /\ vp' = [vp EXCEPT ![Cur] = w]
        /\ pump'.pc = "asleep"
    BY <1>3, <1>15 DEF Flushes, f
  <2>2. /\ TakenFrom(v) \in SessionType /\ TakenFrom(v).ring = v.ring /\ TakenFrom(v).sent = v.sent
        /\ TakenFrom(v).seq = v.seq /\ TakenFrom(v).after = v.after /\ pump.seen \in SeenType
    BY <1>2, TakenParts, StreamParts
  <2>3. /\ w.ring = Ringed(v.ring, RingEntry(f)) /\ w.sent = v.sent \cup {f.id} /\ w.seq = v.seq + 1
        /\ w.after = v.after
    BY <1>2, <1>7, <2>2, FlushedParts
  <2> HIDE DEF w
  <2>4. vp'[Cur] = w
    BY <1>1, <2>1, SetOne
  <2>5. Log' = w.ring /\ Shipped' = Shipped \cup {x} /\ Bound' = Bound + 1
    BY <1>1, <1>7, <1>9, <2>1, <2>3, <2>4 DEF Log, Shipped, Bound, Sending
  <2>6. /\ Len(w.ring) \in 1..RingSize
        /\ \/ Log' = Append(Log, RingEntry(f))
           \/ Len(Log) >= 1 /\ Log' = Append(Tail(Log), RingEntry(f))
    BY <1>2, <1>8, <1>9, <2>3, <2>5, RingedIs
  <2>7. \A i \in 1..Len(w.ring) : w.ring[i].id \in w.sent
    BY <1>2, <1>7, <1>8, <1>9, <1>13, <2>3, RingedIds
  <2>8. w.ring # <<>>
    <3>1. Len(<<>>) = 0 /\ RingSize \in Nat
      BY Constants
    <3> QED
      BY <2>6, <3>1
  <2>9. w.sent \subseteq Shipped'
    BY <1>7, <1>9, <2>3, <2>5
  <2> QED
    BY <1>12, <2>1, <2>3, <2>5, <2>6, <2>7, <2>8, <2>9
<1> QED
  BY <1>5, <1>6, <1>14, <1>15, FlushCases DEF f

(* A diff queues, and leaves what was logged and sent as it was. *)
LEMMA DiffedParts ==
    ASSUME NEW v \in SessionType, NEW seen \in SeenType
    PROVE  LET w == Diffed(v, seen) IN
           /\ w.ring = v.ring /\ w.sent = v.sent /\ w.seq = v.seq
           /\ w.after = v.after /\ w.live = v.live
<1>1. PICK ops \in Seq(LastingOp), moves \in Partial(LastingOp) :
        Diffed(v, seen) = [v EXCEPT !.queue = @ \o ops, !.moves = moves, !.abroad = seen.abroad]
  BY DiffedTyped
<1> QED
  BY <1>1 DEF SessionType

(* The frame of a send that waited is logged when the send is over. *)
LEMMA PumpSentReplay ==
    ASSUME StreamInv, ReplayInv, PumpSent PROVE ReplayInv'
<1> DEFINE w == Committed(vp[Cur], pump.frame, pump.seen)
           e == RingEntry(pump.frame)
           L == Append(vp[Cur].ring, e)
<1>1. /\ pump.pc = "sending" /\ vp' = [vp EXCEPT ![Cur] = w] /\ pump' = Pump("asleep")
      /\ UNCHANGED <<hub, unsaid, note, handler, replay, wire, client, spent>>
  <2>1. /\ pump.pc = "sending"
        /\ vp' = [vp EXCEPT ![Cur] = Committed(vp[Cur], pump.frame, pump.seen)]
        /\ pump' = Pump("asleep")
        /\ UNCHANGED <<hub, unsaid, note, handler, replay, wire, client, spent>>
    BY DEF PumpSent
  <2> QED
    BY <2>1
<1>2. /\ Sending /\ Cur # 0 /\ Cur \in Conns /\ StreamInv' /\ Cur' = Cur
      /\ vp[Cur] \in SessionType /\ Len(vp[Cur].ring) <= RingSize /\ vp[Cur].live
      /\ vp[Cur].ring \in Seq(RingType) /\ vp[Cur].seq \in Nat
      /\ pump.frame \in DeltaType /\ pump.seen \in SeenType /\ pump'.pc = "asleep"
  BY <1>1, PumpIsReady, PumpTyped, PumpSentTyped, StreamParts, SessionParts DEF Ready, Sending
<1>3. /\ w.ring = Ringed(vp[Cur].ring, e) /\ w.sent = vp[Cur].sent \cup {pump.frame.id}
      /\ w.seq = vp[Cur].seq + 1 /\ w.after = vp[Cur].after /\ w.live = vp[Cur].live
      /\ e \in RingType /\ e.id = pump.frame.id
  BY ZenonT(30), <1>2, FlushedParts, EntryTyped
<1> HIDE DEF w, e
<1>4. vp'[Cur] = w /\ \A c \in Conns : c # Cur => vp'[c] = vp[c]
  BY <1>1, <1>2, SetOne
<1>5. /\ Log = L /\ Shipped = vp[Cur].sent \cup {pump.frame.id} /\ Bound = vp[Cur].seq + 1
      /\ Live
  BY <1>2 DEF Log, Shipped, Bound, Live, e
<1>6. /\ Log' = w.ring /\ Shipped' = Shipped /\ Bound' = Bound /\ Live' /\ InFlight' = InFlight
      /\ ~Sending'
  <2>1. ~Sending' /\ InFlight' = InFlight
    BY <1>1, <1>2 DEF Sending, InFlight
  <2>2. Log' = w.ring /\ Shipped' = w.sent /\ Bound' = w.seq /\ Live'
    BY <1>2, <1>3, <1>4, <2>1 DEF Log, Shipped, Bound, Live
  <2> QED
    BY <1>3, <1>5, <2>1, <2>2
<1>7. Len(w.ring) \in 1..RingSize /\ (w.ring = L \/ (w.ring = Tail(L) /\ Len(L) >= 2))
  <2>1. /\ Len(w.ring) \in 1..RingSize
        /\ \/ w.ring = L
           \/ Len(vp[Cur].ring) >= 1 /\ w.ring = Append(Tail(vp[Cur].ring), e)
    BY <1>2, <1>3, RingedIs
  <2> QED
    BY SMTT(30), <1>2, <1>3, <2>1, TailOfAppend
<1>8. w.ring # <<>>
  <2>1. Len(<<>>) = 0 /\ RingSize \in Nat
    BY Constants
  <2> QED
    BY <1>7, <2>1
<1>9. /\ L \in Seq(RingType) /\ wire \in Seq(FrameType) /\ client.heard \in SUBSET Ids
      /\ client.seq \in Int /\ client.up \in BOOLEAN
  BY <1>5, BookTyped
<1> HIDE DEF L
<1>10. /\ Flows(wire, client.heard, client.seq)
       /\ Kept(L, wire, client.heard, client.seq, client.up)
       /\ Covered(Shipped, L, wire, client.heard, client.seq, client.up)
       /\ Below(L, wire, client.seq, Bound)
  BY <1>5 DEF ReplayInv, Book
<1>11. /\ Kept(w.ring, wire, client.heard, client.seq, client.up)
       /\ Covered(Shipped, w.ring, wire, client.heard, client.seq, client.up)
       /\ Below(w.ring, wire, client.seq, Bound)
  <2>1. CASE w.ring = L
    BY <1>10, <2>1
  <2>2. CASE w.ring = Tail(L) /\ Len(L) >= 2
    BY <1>9, <1>10, <2>2, KeptTail
  <2> QED
    BY <1>7, <2>1, <2>2
<1>12. Book'
  <2>1. wire' = wire /\ client' = client /\ vp'[Cur'] = w
    BY <1>1, <1>2, <1>4
  <2> QED
    BY <1>6, <1>8, <1>10, <1>11, <2>1 DEF Book
<1>13. \A i \in 1..Len(w.ring) : w.ring[i].id \in w.sent
  <2>1. \A i \in 1..Len(vp[Cur].ring) : vp[Cur].ring[i].id \in vp[Cur].sent
    BY <1>2 DEF ReplayInv, Dated
  <2> QED
    BY <1>2, <1>3, <2>1, RingedIds
<1>14. Moves({})
  <2>1. Bound <= Bound'
    BY <1>2, <1>5, <1>6
  <2>2. vp'[Cur].sent \subseteq Shipped'
    BY <1>3, <1>4, <1>5, <1>6
  <2> QED
    BY <1>1, <1>2, <1>4, <1>5, <1>6, <1>13, <2>1, <2>2 DEF Moves
<1>15. ~client'.twice /\ client'.back = client.back /\ vp'[Cur].after = vp[Cur].after
  BY <1>1, <1>3, <1>4 DEF ReplayInv
<1> QED
  BY <1>1, <1>2, <1>4, <1>12, <1>14, <1>15, ReplayOn

(* The pump keeps the books.                                               *)
LEMMA PumpReplay ==
    ASSUME StreamInv, ReplayInv, Pumps \/ PumpFails PROVE ReplayInv'
<1>1. CASE PumpRead \/ PumpFails
  <2>1. /\ UNCHANGED <<vp, handler, replay, wire, client>> /\ StreamInv' /\ Cur' = Cur
        /\ ~Sending
    BY <1>1, PumpReadTyped, PumpFailsTyped DEF PumpRead, PumpFails, Sending
  <2>2. pump'.pc # "sending"
    <3>1. CASE PumpRead
      BY <3>1, StreamParts DEF PumpRead, PumpType
    <3>2. CASE PumpFails
      BY <3>2, PumpTyped DEF PumpFails
    <3> QED
      BY <1>1, <3>1, <3>2
  <2> QED
    BY <2>1, <2>2, StillReplay
<1>2. CASE PumpDiff
  <2> DEFINE v == Diffed(vp[Cur], pump.seen)
  <2>1. /\ pump.pc = "read" /\ UNCHANGED <<hub, unsaid, note, replay, client, spent>>
        /\ StreamInv' /\ Cur' = Cur /\ ~Sending
    BY <1>2, PumpDiffTyped DEF PumpDiff, Sending
  <2>2. Cur # 0 /\ Cur \in Conns /\ Ready(v) /\ pump.pc # "dead"
    BY <2>1, PumpIsReady
  <2>3. /\ v.ring = vp[Cur].ring /\ v.sent = vp[Cur].sent /\ v.seq = vp[Cur].seq
        /\ v.after = vp[Cur].after /\ v.live = vp[Cur].live
    BY <2>2, StreamParts, DiffedParts
  <2>4. CASE At({"sending"})
    <3>1. vp' = [vp EXCEPT ![Cur] = v] /\ pump' = [pump EXCEPT !.pc = "locked"] /\ UNCHANGED wire
      BY <1>2, <2>4 DEF PumpDiff
    <3> HIDE DEF v
    <3>2. vp'[Cur] = v /\ \A c \in Conns : c # Cur => vp'[c] = vp[c]
      BY <2>2, <3>1, SetOne
    <3>3. \A c \in Conns : /\ vp'[c].ring = vp[c].ring /\ vp'[c].sent = vp[c].sent
                           /\ vp'[c].seq = vp[c].seq /\ vp'[c].after = vp[c].after
                           /\ vp'[c].live = vp[c].live
      BY <2>3, <3>2
    <3>4. pump'.pc # "sending"
      BY <3>1, StreamParts DEF PumpType
    <3> QED
      BY <2>1, <3>1, <3>3, <3>4, StillReplay
  <2>5. CASE ~At({"sending"})
    <3>1. Flush(Cur, v)
      BY <1>2, <2>5 DEF PumpDiff
    <3> HIDE DEF v
    <3> QED
      BY <2>1, <2>2, <2>3, <2>5, <3>1, FlushReplay
  <2> QED
    BY <2>4, <2>5
<1>3. CASE PumpLocked
  <2>1. /\ pump.pc = "locked" /\ ~At({"sending"}) /\ Flush(Cur, vp[Cur])
        /\ UNCHANGED <<hub, unsaid, note, replay, client, spent>>
    BY <1>3 DEF PumpLocked
  <2>2. pump.pc # "dead" /\ ~Sending
    BY <2>1 DEF Sending
  <2>3. Ready(vp[Cur])
    BY <2>2, PumpIsReady
  <2> QED
    BY <2>1, <2>2, <2>3, FlushReplay
<1>4. CASE PumpSent
  BY <1>4, PumpSentReplay
<1> QED
  BY <1>1, <1>2, <1>3, <1>4 DEF Pumps

(* A snapshot is sent under a number, and nothing is logged. *)
LEMMA SnapsReplay ==
    ASSUME StreamInv, ReplayInv, Snaps PROVE ReplayInv'
<1> DEFINE w == Snapped(vp[Cur])
           f == Snapshot(vp[Cur].seq)
<1>1. /\ Cur # 0 /\ Cur \in Conns /\ vp[Cur] \in SessionType /\ handler[Cur] \in Serving
      /\ UNCHANGED <<hub, unsaid, note, pump, replay, client, spent>>
      /\ Sends(f) /\ vp' = [vp EXCEPT ![Cur] = w] /\ handler' = [handler EXCEPT ![Cur] = "serving"]
      /\ StreamInv' /\ Cur' = Cur /\ Live /\ vp[Cur].seq \in Nat
  BY StreamParts, StreamKept, SnapsTyped, BookTyped, Stages DEF Snaps, Live
<1>2. /\ w.ring = vp[Cur].ring /\ w.sent = vp[Cur].sent /\ w.seq = vp[Cur].seq + 1
      /\ w.after = vp[Cur].after /\ w.live = vp[Cur].live
  BY <1>1, SnappedParts
<1>3. f \in SnapshotType /\ f \in FrameType /\ f.seq = vp[Cur].seq
  BY <1>1, StreamParts, SnapshotTyped DEF FrameType
<1> HIDE DEF w, f
<1>4. vp'[Cur] = w /\ \A c \in Conns : c # Cur => vp'[c] = vp[c]
  BY <1>1, SetOne
<1>5. /\ wire' \in Seq(FrameType)
      /\ client.up => wire' = Append(wire, f)
      /\ ~client.up => wire' = wire
  BY <1>1, <1>3, SendsTyped
<1>6. /\ Log' = Log /\ Shipped' = Shipped /\ Bound' = Bound + 1 /\ Live' /\ Bound \in Nat
      /\ (Sending' <=> Sending) /\ (vp[Cur].seq = Bound \/ vp[Cur].seq = Bound - 1)
  <2>1. Sending' <=> Sending
    BY <1>1 DEF Sending
  <2>0. /\ Cur' = Cur /\ pump' = pump /\ Cur # 0 /\ vp'[Cur'].ring = vp[Cur].ring
        /\ vp'[Cur'].sent = vp[Cur].sent /\ vp'[Cur'].seq = vp[Cur].seq + 1
        /\ vp'[Cur'].live /\ vp[Cur].live
    BY <1>1, <1>2, <1>4 DEF Live
  <2>2. Log' = Log
    BY <2>0, <2>1 DEF Log
  <2>5. Shipped' = Shipped
    BY <2>0, <2>1 DEF Shipped
  <2>3. Bound' = Bound + 1 /\ Live' /\ Bound \in Nat
    <3>1. CASE Sending
      BY <1>1, <2>0, <2>1, <3>1 DEF Bound, Live
    <3>2. CASE ~Sending
      BY <1>1, <2>0, <2>1, <3>2 DEF Bound, Live
    <3> QED
      BY <3>1, <3>2
  <2>4. vp[Cur].seq = Bound \/ vp[Cur].seq = Bound - 1
    BY <1>1 DEF Bound
  <2> QED
    BY <2>1, <2>2, <2>3, <2>4, <2>5
<1>7. /\ Log \in Seq(RingType) /\ wire \in Seq(FrameType) /\ client.seq \in Int
      /\ client.up \in BOOLEAN
  BY BookTyped
<1>8. /\ Flows(wire, client.heard, client.seq)
      /\ Kept(Log, wire, client.heard, client.seq, client.up)
      /\ Covered(Shipped, Log, wire, client.heard, client.seq, client.up)
      /\ Below(Log, wire, client.seq, Bound)
  BY <1>1 DEF ReplayInv, Book
<1>9. /\ Flows(wire', client.heard, client.seq)
      /\ Kept(Log, wire', client.heard, client.seq, client.up)
      /\ Covered(Shipped, Log, wire', client.heard, client.seq, client.up)
      /\ Below(Log, wire', client.seq, Bound + 1)
      /\ \A j \in 1..Len(wire') : IsDelta(wire'[j]) => j \in 1..Len(wire) /\ wire'[j] = wire[j]
  <2>1. client.up => \E d \in SnapshotType : d.seq = vp[Cur].seq /\ wire' = Append(wire, d)
    BY <1>3, <1>5
  <2>2. ~client.up => wire' = wire
    BY <1>5
  <2> QED
    BY <1>1, <1>5, <1>6, <1>7, <1>8, <2>1, <2>2, BookSnapped
<1>10. client' = client
  BY <1>1
<1>11. Book'
  <2>1. Sending' => pump'.frame.id \notin vp'[Cur'].sent /\ ~At({"sending"})'
    <3>1. handler'[Cur'] = "serving"
      BY <1>1, StreamParts DEF HandlerType
    <3> QED
      BY <1>1, <1>2, <1>4, <1>6, <3>1 DEF ReplayInv, Book, At
  <2>2. vp'[Cur'].ring = <<>> => vp'[Cur'].sent = {}
    BY <1>1, <1>2, <1>4 DEF ReplayInv, Book
  <2> QED
    BY <1>6, <1>9, <1>10, <2>1, <2>2 DEF Book
<1>12. InFlight' = InFlight
  <2>1. \A j \in 1..Len(wire) : j \in 1..Len(wire') /\ wire'[j] = wire[j]
    <3>1. CASE client.up
      BY <1>3, <1>5, <1>7, <3>1, Appended
    <3>2. CASE ~client.up
      BY <1>5, <3>2
    <3> QED
      BY <3>1, <3>2
  <2> QED
    BY <1>9, <2>1 DEF InFlight
<1>13. Moves({})
  <2>1. Bound <= Bound'
    BY <1>6
  <2>2. /\ vp[Cur].sent \subseteq Shipped
        /\ \A i \in 1..Len(vp[Cur].ring) : vp[Cur].ring[i].id \in vp[Cur].sent
    BY <1>1 DEF Shipped, ReplayInv, Dated
  <2> QED
    BY <1>1, <1>2, <1>4, <1>6, <1>10, <1>12, <2>1, <2>2 DEF Moves
<1>14. ~client'.twice /\ client'.back = client.back /\ vp'[Cur].after = vp[Cur].after
  BY <1>1, <1>2, <1>4 DEF ReplayInv
<1> QED
  BY <1>1, <1>4, <1>11, <1>13, <1>14, ReplayOn

(* A frame of a replay is sent and logged under a number of this session. *)
LEMMA ReplayFrameReplay ==
    ASSUME StreamInv, ReplayInv, ReplayFrame PROVE ReplayInv'
<1> DEFINE f == replay.frames[1]
           n == vp[Cur].seq
           g == [f EXCEPT !.seq = n]
           w == Numbered(Logged(vp[Cur], g))
           d == Delta(n, f.id, f.ops)
           e == RingEntry(g)
           x == f.id
<1>1. /\ Cur # 0 /\ handler[Cur] \in {"replaying", "sending"} /\ vp[Cur].live
      /\ handler[Cur] = "replaying" => pump.pc # "sending"
      /\ Len(replay.frames) >= 1 /\ f \in RingType /\ g.seq = n /\ g.id = x
      /\ d \in DeltaType /\ Sends(d) /\ vp' = [vp EXCEPT ![Cur] = w]
      /\ w.live = vp[Cur].live /\ w.seq = n + 1 /\ w.ring = Ringed(vp[Cur].ring, e)
      /\ w.sent = vp[Cur].sent \cup {x} /\ w.after = vp[Cur].after /\ e \in RingType
      /\ replay' = [replay EXCEPT !.frames = Tail(replay.frames)]
      /\ UNCHANGED <<hub, unsaid, note, pump, client, spent>>
  BY ReplayFrameIs
<1>2. /\ d.seq = n /\ d.id = x /\ e.seq = n /\ e.id = x
  BY <1>1 DEF Delta, RingEntry
<1> HIDE DEF w, d, e, g
<1>3. /\ StreamInv' /\ Cur' = Cur /\ Cur \in Conns /\ Cur \in Nat /\ n \in Nat
      /\ vp[Cur].ring \in Seq(RingType) /\ Len(vp[Cur].ring) <= RingSize /\ Live
      /\ replay.frames \in Seq(RingType) /\ x \in Ids
  <2>1. x \in Ids
    BY <1>1 DEF RingType
  <2> QED
    BY <1>1, <2>1, ReplayFrameTyped, StreamParts, SessionParts DEF Live
<1>4. ~Sending
  <2>1. handler[Cur] = "sending" => At({"sending"})
    BY <1>1 DEF At
  <2> QED
    BY <1>1, <2>1 DEF ReplayInv, Book, Sending
<1>5. vp'[Cur] = w /\ \A c \in Conns : c # Cur => vp'[c] = vp[c]
  BY <1>1, <1>3, SetOne
<1>6. x[1] < Cur /\ x[1] \in Nat /\ x \notin client.heard \cup InFlight \cup Shipped
  <2>1. 1 \in 1..Len(replay.frames)
    BY <1>1, <1>3
  <2> QED
    BY <1>3, <2>1 DEF ReplayInv, Replays, Ids
<1> HIDE DEF f, x, n
<1>7. /\ Log = vp[Cur].ring /\ Shipped = vp[Cur].sent /\ Bound = n /\ ~Sending'
      /\ Log' = w.ring /\ Shipped' = Shipped \cup {x} /\ Bound' = Bound + 1 /\ Live'
  <2>1. ~Sending' /\ vp'[Cur'] = w /\ Cur' = Cur /\ Cur # 0
    BY <1>1, <1>3, <1>4, <1>5 DEF Sending
  <2>2. Log = vp[Cur].ring /\ Shipped = vp[Cur].sent /\ Bound = n
    BY <1>1, <1>4 DEF Log, Shipped, Bound, n
  <2>3. Log' = w.ring /\ Shipped' = w.sent /\ Bound' = w.seq /\ Live'
    BY <1>1, <2>1 DEF Log, Shipped, Bound, Live
  <2> QED
    BY <1>1, <2>1, <2>2, <2>3
<1>8. /\ Len(w.ring) \in 1..RingSize
      /\ Log' = Append(Log, e) \/ (Len(Log) >= 1 /\ Log' = Append(Tail(Log), e))
  BY <1>1, <1>3, <1>7, RingedIs
<1>9. w.ring # <<>>
  <2>1. Len(<<>>) = 0 /\ RingSize \in Nat
    BY Constants
  <2> QED
    BY <1>8, <2>1
<1>10. client' = client
  BY <1>1
<1>11. /\ Book' /\ InFlight' \subseteq InFlight \cup {x}
       /\ client.up => InFlight \subseteq InFlight' /\ x \in InFlight'
  <2>1. /\ d \in DeltaType /\ d.seq = vp[Cur].seq /\ Sends(d)
        /\ d.id \notin client.heard \cup InFlight \cup Shipped
        /\ e \in RingType /\ e.seq = d.seq /\ e.id = d.id
        /\ Shipped' = Shipped \cup {d.id}
    BY <1>1, <1>2, <1>6, <1>7 DEF n
  <2>2. vp'[Cur].ring = <<>> => vp'[Cur].sent = {}
    BY <1>5, <1>9
  <2>3. pump'.pc # "sending"
    BY <1>7 DEF Sending
  <2>4. /\ Book' /\ InFlight' \subseteq InFlight \cup {d.id}
        /\ client.up => InFlight \subseteq InFlight' /\ d.id \in InFlight'
    BY <1>3, <1>4, <1>7, <1>8, <1>10, <2>1, <2>2, <2>3, BookGrows
  <2> QED
    BY <1>2, <2>4
<1>12. \A i \in 1..Len(w.ring) : w.ring[i].id \in w.sent
  <2>1. \A i \in 1..Len(vp[Cur].ring) : vp[Cur].ring[i].id \in vp[Cur].sent
    BY <1>3 DEF ReplayInv, Dated
  <2> QED
    BY ZenonT(30), <1>1, <1>2, <1>3, <2>1, RingedIds
<1>13. Moves({x})
  <2>1. Bound <= Bound'
    BY <1>3, <1>7
  <2>2. vp'[Cur].sent \subseteq Shipped'
    BY <1>1, <1>5, <1>7
  <2> QED
    BY <1>3, <1>5, <1>7, <1>10, <1>11, <1>12, <2>1, <2>2 DEF Moves
<1>14. {x} \in SUBSET Ids /\ Dated'
  <2>1. \A y \in {x} : y[1] <= Cur /\ (Live' /\ y[1] = Cur => y[2] < Bound')
    BY <1>3, <1>6
  <2>2. {x} \in SUBSET Ids
    BY <1>3
  <2> QED
    BY <1>3, <1>13, <2>1, <2>2, DatedOn DEF ReplayInv
<1>15. Backed'
  <2>1. replay.old # 0
    BY <1>1, StreamKept
  <2> QED
    BY <1>10, <2>1 DEF ReplayInv, Backed
<1>16. Resumed'
  BY <1>1, <1>3, <1>5, <1>13, <1>14, ResumedOn DEF ReplayInv
<1>17. Replays'
  <2> DEFINE F == replay.frames
             T == Tail(F)
  <2>1. replay'.old = replay.old /\ replay'.frames = T /\ replay.old # 0
    BY <1>1, StreamParts, StreamKept DEF ReplayType
  <2>2. /\ \A i \in 1..Len(T) : T[i] = F[i + 1] /\ i + 1 \in 1..Len(F)
        /\ \A i \in 1..Len(F) : i = 1 \/ (i - 1 \in 1..Len(T) /\ T[i - 1] = F[i])
        /\ Len(F) \in Nat /\ F[1].id = x /\ 1 \in 1..Len(F) /\ Len(T) = Len(F) - 1
    BY <1>1, <1>3, Tailed DEF x, f
  <2>3. /\ \A i \in 1..Len(F) : /\ F[i].id[1] < Cur
                                /\ F[i].id \notin client.heard \cup InFlight \cup Shipped
        /\ \A i, j \in 1..Len(F) : F[i].id = F[j].id => i = j
        /\ client.up => \A id \in vp[replay.old].sent :
              id \in client.heard \cup InFlight \/ \E i \in 1..Len(F) : F[i].id = id
    BY <2>1 DEF ReplayInv, Replays
  <2> HIDE DEF F, T
  <2>4. \A i \in 1..Len(T) : /\ T[i].id[1] < Cur' /\ T[i].id # x
                             /\ T[i].id \notin client'.heard \cup InFlight' \cup Shipped'
    <3> SUFFICES ASSUME NEW i \in 1..Len(T)
                 PROVE  /\ T[i].id[1] < Cur /\ T[i].id # x
                        /\ T[i].id \notin client.heard \cup InFlight' \cup Shipped'
      BY <1>3, <1>10
    <3>1. T[i] = F[i + 1] /\ i + 1 \in 1..Len(F) /\ i + 1 # 1
      BY <2>2
    <3>2. T[i].id # x
      BY <2>2, <2>3, <3>1
    <3> QED
      BY <1>7, <1>11, <2>3, <3>1, <3>2
  <2>5. \A i, j \in 1..Len(T) : T[i].id = T[j].id => i = j
    <3> SUFFICES ASSUME NEW i \in 1..Len(T), NEW j \in 1..Len(T), T[i].id = T[j].id PROVE i = j
      OBVIOUS
    <3>1. i + 1 = j + 1
      BY <2>2, <2>3
    <3> QED
      BY <3>1
  <2>6. client'.up => \A id \in vp'[replay.old].sent :
          id \in client'.heard \cup InFlight' \/ \E i \in 1..Len(T) : T[i].id = id
    <3> SUFFICES ASSUME client.up, NEW id \in vp'[replay.old].sent,
                        ~\E i \in 1..Len(T) : T[i].id = id
                 PROVE  id \in client.heard \cup InFlight'
      BY <1>10
    <3>1. replay.old \in Conns /\ replay.old # Cur
      <4>1. /\ replay.old \in 0..MaxConns /\ Conns = 1..MaxConns /\ MaxConns \in Nat
            /\ replay.old < Cur
        BY <2>1, StreamParts, StreamKept
      <4> QED
        BY <1>3, <2>1, <4>1
    <3>2. id \in vp[replay.old].sent
      BY <1>5, <3>1
    <3>3. CASE id \in client.heard \cup InFlight
      BY <1>11, <3>3
    <3>4. CASE \E i \in 1..Len(F) : F[i].id = id
      <4>1. PICK i \in 1..Len(F) : F[i].id = id
        BY <3>4
      <4>2. i = 1
        BY <2>2, <4>1
      <4> QED
        BY <1>11, <2>2, <4>1, <4>2
    <3> QED
      BY <2>3, <3>2, <3>3, <3>4
  <2> QED
    BY <2>1, <2>4, <2>5, <2>6 DEF Replays
<1> QED
  BY <1>10, <1>11, <1>14, <1>15, <1>16, <1>17 DEF ReplayInv

(* The replay is over: all that the old connection sent is heard or on its *)
(* way.                                                                    *)
LEMMA ReplayDoneReplay ==
    ASSUME StreamInv, ReplayInv, ReplayDone PROVE ReplayInv'
<1> DEFINE o == replay.old
           w == vp'[Cur]
<1>1. /\ Cur # 0 /\ o \in Conns /\ o # 0 /\ o < Cur /\ replay.frames = <<>>
      /\ w.live = vp[Cur].live /\ w.seq = vp[Cur].seq /\ w.ring = vp[Cur].ring
      /\ w.sent = vp[Cur].sent /\ w.after = o
      /\ vp'[o] = [NoSession EXCEPT !.sent = vp[o].sent]
      /\ \A c \in Conns : c # Cur /\ c # o => vp'[c] = vp[c]
      /\ replay' = NoReplay /\ handler' = [handler EXCEPT ![Cur] = "serving"]
      /\ UNCHANGED <<hub, unsaid, note, pump, wire, client, spent>>
  BY ReplayDoneIs
<1>2. /\ StreamInv' /\ Cur' = Cur /\ Cur \in Conns /\ wire' = wire /\ client' = client
      /\ pump' = pump /\ handler'[Cur] = "serving"
  BY <1>1, ReplayDoneTyped, StreamParts DEF HandlerType
<1>3. vp'[o].ring = <<>> /\ vp'[o].sent = vp[o].sent
  BY <1>1, EmptyTyped DEF SessionType
<1> HIDE DEF o, w
<1>4. /\ Log' = Log /\ Shipped' = Shipped /\ Bound' = Bound /\ InFlight' = InFlight
      /\ (Live' => Live)
  <2>1. /\ Sending' = Sending /\ vp'[Cur'].ring = vp[Cur].ring /\ vp'[Cur'].sent = vp[Cur].sent
        /\ vp'[Cur'].seq = vp[Cur].seq /\ vp'[Cur'].live = vp[Cur].live
    BY <1>1, <1>2 DEF Sending, w
  <2>2. Log' = Log
    BY <1>2, <2>1 DEF Log
  <2>3. Shipped' = Shipped
    BY <1>2, <2>1 DEF Shipped
  <2>4. Bound' = Bound /\ InFlight' = InFlight /\ (Live' => Live)
    BY <1>2, <2>1 DEF Bound, InFlight, Live
  <2> QED
    BY <2>2, <2>3, <2>4
<1>5. Book'
  <2>1. ~At({"sending"})'
    BY <1>1, <1>2 DEF At
  <2>2. vp'[Cur].ring = vp[Cur].ring /\ vp'[Cur].sent = vp[Cur].sent
    BY <1>1 DEF w
  <2> QED
    BY <1>1, <1>2, <1>4, <2>1, <2>2, BookSame DEF ReplayInv, Sending
<1>6. Moves({})
  <2>1. Live => Bound <= Bound
    BY BookTyped DEF Live
  <2>2. /\ vp'[Cur].sent \subseteq Shipped'
        /\ \A i \in 1..Len(vp'[Cur].ring) : vp'[Cur].ring[i].id \in vp'[Cur].sent
    BY <1>1, <1>2, <1>4 DEF Shipped, ReplayInv, Dated, w
  <2>3. \A c \in Conns : c # Cur => \/ vp'[c].ring = vp[c].ring /\ vp'[c].sent = vp[c].sent
                                    \/ vp'[c].ring = <<>> /\ vp'[c].sent \subseteq vp[c].sent
    BY <1>1, <1>3
  <2> QED
    BY <1>2, <1>4, <2>1, <2>2, <2>3 DEF Moves
<1>7. Dated'
  BY <1>2, <1>6, DatedOn DEF ReplayInv
<1>8. Backed'
  BY <1>1, <1>2 DEF ReplayInv, Backed, o
<1>9. Replays'
  BY <1>1, <1>6, ReplaysOn DEF ReplayInv
<1>10. Resumed'
  <2>1. client.up => vp[o].sent \subseteq client.heard \cup InFlight
    <3>1. ~\E i \in 1..Len(<<>>) : TRUE
      <4>1. Len(<<>>) = 0
        OBVIOUS
      <4> QED
        BY <4>1
    <3> QED
      BY <1>1, <3>1 DEF ReplayInv, Replays, o
  <2>2. vp'[Cur].after = o
    BY <1>1 DEF w
  <2> QED
    BY <1>1, <1>2, <1>3, <1>4, <2>1, <2>2 DEF Resumed
<1> QED
  BY <1>2, <1>5, <1>7, <1>8, <1>9, <1>10 DEF ReplayInv

(* A resume sends what lies beyond the number the client reached.          *)
LEMMA ResumeReplay ==
    ASSUME StreamInv, ReplayInv, Resume PROVE ReplayInv'
<1> DEFINE b == client.back.conn
           old == vp[b]
           last == client.back.seq
           F == Among(old.ring, {f \in Range(old.ring) : f.seq > last})
<1>1. /\ client.up /\ b # 0 /\ Cur # 0 /\ handler[Cur] = "serving"
      /\ client' = [client EXCEPT !.back = NoBack]
      /\ UNCHANGED <<hub, unsaid, note, pump, wire, spent>>
  BY DEF Resume, At
<1>2. PICK outcome \in {"resync", "serving", "replaying"} :
        /\ replay' = IF outcome # "replaying" THEN NoReplay ELSE [old |-> b, frames |-> F]
        /\ handler' = [handler EXCEPT ![Cur] = outcome]
        /\ vp' = IF outcome = "replaying" THEN vp ELSE [vp EXCEPT ![b] = NoSession]
        /\ outcome = "replaying" => Replayable(old, last) /\ old.ring # <<>>
  <2> DEFINE outcome == IF ~Replayable(old, last) THEN "resync"
                      ELSE IF old.ring = <<>> THEN "serving" ELSE "replaying"
  <2>1. /\ replay' = IF outcome # "replaying" THEN NoReplay ELSE [old |-> b, frames |-> F]
        /\ handler' = [handler EXCEPT ![Cur] = outcome]
        /\ vp' = IF outcome = "replaying" THEN vp ELSE [vp EXCEPT ![b] = NoSession]
    BY DEF Resume
  <2>2. outcome \in {"resync", "serving", "replaying"}
    OBVIOUS
  <2>3. outcome = "replaying" => Replayable(old, last) /\ old.ring # <<>>
    OBVIOUS
  <2> HIDE DEF outcome
  <2> QED
    BY <2>1, <2>2, <2>3
<1>3. /\ b \in Conns /\ b < Cur /\ old \in SessionType /\ Cur \in Conns /\ Cur \in Nat /\ b \in Nat
      /\ StreamInv' /\ Cur' = Cur /\ old.ring \in Seq(RingType) /\ old.sent \in SUBSET Ids
      /\ last \in Int
  <2>1. /\ b \in Conns /\ b < Cur /\ Cur \in Conns /\ Cur \in Nat /\ last \in Int
        /\ Conns = 1..MaxConns /\ MaxConns \in Nat
    BY <1>1, StreamParts, StreamKept
  <2> QED
    BY <2>1, StreamParts, SessionParts, ResumeTyped
<1>4. /\ client'.back.conn = 0 /\ client'.up = client.up /\ client'.heard = client.heard
      /\ client'.seq = client.seq /\ client'.twice = client.twice /\ wire' = wire /\ pump' = pump
      /\ handler'[Cur] = outcome
  BY <1>1, <1>2, <1>3, StreamParts DEF ClientType, NoBack, HandlerType
<1>5. /\ vp'[Cur] = vp[Cur]
      /\ \A c \in Conns : \/ vp'[c] = vp[c]
                          \/ vp'[c] = NoSession
  <2>1. vp' = vp \/ vp' = [vp EXCEPT ![b] = NoSession]
    BY <1>2
  <2> HIDE DEF b
  <2>2. /\ vp \in [Conns -> SessionType] /\ b \in Conns /\ Cur \in Conns /\ b # Cur
    BY <1>3, StreamParts
  <2>3. CASE vp' = vp
    BY <2>3
  <2>4. CASE vp' = [vp EXCEPT ![b] = NoSession]
    <3>1. \A c \in Conns : vp'[c] = IF c = b THEN NoSession ELSE vp[c]
      BY <2>2, <2>4
    <3> QED
      BY <2>2, <3>1
  <2> QED
    BY <2>1, <2>3, <2>4
<1> HIDE DEF b, old, last, F
<1>6. /\ Log' = Log /\ Shipped' = Shipped /\ Bound' = Bound /\ InFlight' = InFlight
      /\ (Live' => Live)
  <2>1. Sending' = Sending /\ vp'[Cur'] = vp[Cur]
    BY <1>3, <1>4, <1>5 DEF Sending
  <2>2. Log' = Log
    BY <1>3, <1>4, <2>1 DEF Log
  <2>3. Shipped' = Shipped
    BY <1>3, <1>4, <2>1 DEF Shipped
  <2>4. Bound' = Bound /\ InFlight' = InFlight /\ (Live' => Live)
    BY <1>3, <1>4, <2>1 DEF Bound, InFlight, Live
  <2> QED
    BY <2>2, <2>3, <2>4
<1>7. Book'
  <2>1. ~At({"sending"})'
    BY <1>2, <1>3, <1>4 DEF At
  <2> QED
    BY <1>1, <1>3, <1>4, <1>5, <1>6, <2>1, BookSame DEF ReplayInv, Sending
<1>8. Moves({})
  <2>1. Live => Bound <= Bound
    BY BookTyped DEF Live
  <2>2. /\ vp'[Cur].sent \subseteq Shipped'
        /\ \A i \in 1..Len(vp'[Cur].ring) : vp'[Cur].ring[i].id \in vp'[Cur].sent
    BY <1>1, <1>3, <1>5, <1>6 DEF Shipped, ReplayInv, Dated
  <2>3. \A c \in Conns : c # Cur => \/ vp'[c].ring = vp[c].ring /\ vp'[c].sent = vp[c].sent
                                    \/ vp'[c].ring = <<>> /\ vp'[c].sent \subseteq vp[c].sent
    BY <1>5, EmptyTyped
  <2> QED
    BY <1>3, <1>4, <1>6, <2>1, <2>2, <2>3 DEF Moves
<1>9. Dated'
  BY <1>3, <1>8, DatedOn DEF ReplayInv
<1>10. Backed'
  BY <1>4 DEF Backed
<1>11. Resumed'
  BY <1>3, <1>5, <1>8, ResumedOn DEF ReplayInv
<1>12. Replays'
  <2>1. CASE outcome # "replaying"
    BY <1>2, <1>8, <2>1, ReplaysOn DEF ReplayInv
  <2>2. CASE outcome = "replaying"
    <3>1. /\ Kept(old.ring, <<>>, client.heard, last, FALSE)
          /\ Covered(old.sent, old.ring, <<>>, client.heard, last, FALSE)
          /\ \A id \in InFlight \cup Shipped : id[1] = Cur
      BY <1>1 DEF ReplayInv, Backed, old, last, b
    <3>2. old.ring # <<>> /\ last >= old.ring[1].seq - 1
      BY <1>2, <2>2 DEF Replayable
    <3>3. /\ F \in Seq(RingType)
          /\ \A i \in 1..Len(F) : F[i].id \notin client.heard /\ \E k \in 1..Len(old.ring) : F[i] = old.ring[k]
          /\ \A i, j \in 1..Len(F) : F[i].id = F[j].id => i = j
          /\ \A id \in old.sent : id \in client.heard \/ \E i \in 1..Len(F) : F[i].id = id
      <4> DEFINE L == old.ring
                 S == old.sent
                 hears == client.heard
      <4>1. /\ L \in Seq(RingType) /\ last \in Int /\ Kept(L, <<>>, hears, last, FALSE)
            /\ Covered(S, L, <<>>, hears, last, FALSE) /\ Adjoins(L, last)
        BY <1>3, <3>1, <3>2 DEF Adjoins
      <4>2. F = Among(L, Beyond(L, last))
        BY DEF F, Beyond
      <4> HIDE DEF L, S, hears
      <4>3. Answers(F, L, S, hears)
        BY <4>1, <4>2, BookResumed
      <4> QED
        BY <4>3 DEF Answers, L, S, hears
    <3>4. replay'.old = b /\ replay'.frames = F /\ vp' = vp
      BY <1>2, <2>2
    <3>5. \A i \in 1..Len(F) : /\ F[i].id[1] < Cur
                               /\ F[i].id \notin client.heard \cup InFlight \cup Shipped
      <4> SUFFICES ASSUME NEW i \in 1..Len(F)
                   PROVE  F[i].id[1] < Cur /\ F[i].id \notin client.heard \cup InFlight \cup Shipped
        OBVIOUS
      <4>1. PICK k \in 1..Len(old.ring) : F[i] = old.ring[k]
        BY <3>3
      <4>2. F[i].id \in old.sent /\ F[i].id[1] <= b
        BY <1>3, <4>1 DEF ReplayInv, Dated, old
      <4>3. F[i].id[1] \in Nat
        BY <1>3, <4>2 DEF Ids
      <4>4. F[i].id[1] < Cur /\ F[i].id[1] # Cur
        BY <1>3, <4>2, <4>3
      <4> QED
        BY <3>1, <3>3, <4>4
    <3>6. \A id \in vp'[b].sent : id \in client.heard \/ \E i \in 1..Len(F) : F[i].id = id
      BY <3>3, <3>4 DEF old
    <3> QED
      BY <1>1, <1>3, <1>4, <1>6, <3>3, <3>4, <3>5, <3>6 DEF Replays
  <2> QED
    BY <2>1, <2>2
<1> QED
  BY <1>4, <1>7, <1>9, <1>10, <1>11, <1>12 DEF ReplayInv

(* What is left of the newest connection when its pump is gone: a frame    *)
(* whose send waited is not in the ring.                                   *)
LEMMA BookLeft ==
    ASSUME StreamInv, ReplayInv, Cur # 0
    PROVE  /\ Kept(vp[Cur].ring, wire, client.heard, client.seq, client.up)
           /\ Covered(vp[Cur].sent, vp[Cur].ring, wire, client.heard, client.seq, client.up)
<1>1. /\ vp[Cur].ring \in Seq(RingType) /\ wire \in Seq(FrameType) /\ client.seq \in Int
      /\ vp[Cur].sent \in SUBSET Ids
  BY BookTyped
<1>2. /\ Kept(Log, wire, client.heard, client.seq, client.up)
      /\ Covered(Shipped, Log, wire, client.heard, client.seq, client.up)
      /\ vp[Cur].ring = <<>> => vp[Cur].sent = {}
  BY DEF ReplayInv, Book
<1>3. CASE Sending
  <2> DEFINE e == RingEntry(pump.frame)
  <2>1. e \in RingType /\ e.id = pump.frame.id
    BY StreamParts, EntryTyped
  <2>2. Log = Append(vp[Cur].ring, e) /\ Shipped = vp[Cur].sent \cup {e.id}
    BY <1>3, <2>1 DEF Log, Shipped
  <2>3. e.id \notin vp[Cur].sent
    BY <1>3, <2>1 DEF ReplayInv, Book
  <2> HIDE DEF e
  <2>4. /\ Kept(Append(vp[Cur].ring, e), wire, client.heard, client.seq, client.up)
        /\ Covered(vp[Cur].sent \cup {e.id}, Append(vp[Cur].ring, e), wire, client.heard,
                   client.seq, client.up)
    BY <1>2, <2>2
  <2> QED
    BY <1>1, <1>2, <2>1, <2>3, <2>4, BookCut
<1>4. CASE ~Sending
  BY <1>2, <1>4 DEF Log, Shipped
<1> QED
  BY <1>3, <1>4

(* The end of a connection leaves its books to a resume.                   *)
LEMMA FinishReplay ==
    ASSUME StreamInv, ReplayInv, Finish PROVE ReplayInv'
<1> DEFINE w == Left(vp[Cur])
<1>1. /\ Cur # 0 /\ vp' = [vp EXCEPT ![Cur] = w] /\ pump' = Pump("dead") /\ replay' = NoReplay
      /\ UNCHANGED <<hub, unsaid, note, wire, client, spent>>
  BY DEF Finish, At
<1>2. /\ StreamInv' /\ Cur' = Cur /\ Cur \in Conns /\ pump'.pc = "dead"
      /\ wire' = wire /\ client' = client
  BY <1>1, FinishTyped, StreamParts, PumpTyped
<1>3. /\ ~w.live /\ w.ring = vp[Cur].ring /\ w.sent = vp[Cur].sent /\ w.after = vp[Cur].after
  BY <1>2, StreamParts, LeftParts
<1> HIDE DEF w
<1>4. vp'[Cur] = w /\ \A c \in Conns : c # Cur => vp'[c] = vp[c]
  BY <1>1, <1>2, SetOne
<1>5. ~Sending' /\ ~Live' /\ Log' = vp[Cur].ring /\ Shipped' = vp[Cur].sent /\ InFlight' = InFlight
  <2>1. ~Sending' /\ vp'[Cur'] = w
    BY <1>2, <1>4 DEF Sending
  <2>2. Log' = vp[Cur].ring
    BY <1>1, <1>2, <1>3, <2>1 DEF Log
  <2>3. Shipped' = vp[Cur].sent
    BY <1>1, <1>2, <1>3, <2>1 DEF Shipped
  <2>4. ~Live' /\ InFlight' = InFlight
    BY <1>2, <1>3, <2>1 DEF Live, InFlight
  <2> QED
    BY <2>1, <2>2, <2>3, <2>4
<1>6. Book'
  <2>1. vp[Cur].ring = <<>> => vp[Cur].sent = {}
    BY <1>1 DEF ReplayInv, Book
  <2>2. Flows(wire, client.heard, client.seq)
    BY DEF ReplayInv, Book
  <2>3. /\ Kept(vp[Cur].ring, wire, client.heard, client.seq, client.up)
        /\ Covered(vp[Cur].sent, vp[Cur].ring, wire, client.heard, client.seq, client.up)
    BY <1>1, BookLeft
  <2> QED
    BY <1>2, <1>3, <1>4, <1>5, <2>1, <2>2, <2>3 DEF Book
<1>7. Moves({})
  <2>1. /\ vp[Cur].sent \subseteq Shipped
        /\ \A i \in 1..Len(vp[Cur].ring) : vp[Cur].ring[i].id \in vp[Cur].sent
    BY <1>1, <1>2 DEF Shipped, ReplayInv, Dated
  <2> QED
    BY <1>2, <1>3, <1>4, <1>5, <2>1 DEF Moves
<1>8. ~client'.twice /\ client'.back = client.back /\ vp'[Cur].after = vp[Cur].after
  BY <1>2, <1>3, <1>4 DEF ReplayInv
<1> QED
  BY <1>1, <1>2, <1>4, <1>6, <1>7, <1>8, ReplayOn

(* Eviction drops a session whose books nobody can use any more.           *)
LEMMA ExpireReplay ==
    ASSUME StreamInv, ReplayInv, Expire PROVE ReplayInv'
<1>1. PICK e \in Conns : /\ handler[e] = "ended" /\ vp' = [vp EXCEPT ![e] = NoSession]
                         /\ UNCHANGED <<hub, unsaid, note, handler, pump, replay, wire, client, spent>>
  BY DEF Expire
<1>2. /\ StreamInv' /\ Cur' = Cur /\ wire' = wire /\ client' = client /\ pump' = pump
      /\ handler' = handler /\ replay' = replay /\ (Cur # 0 => Cur \in Conns)
  BY <1>1, ExpireTyped, StreamParts
<1>3. vp'[e] = NoSession /\ \A c \in Conns : c # e => vp'[c] = vp[c]
  BY <1>1, SetOne
<1>4. InFlight' = InFlight /\ ~client'.twice /\ Sending' = Sending
  BY <1>2 DEF InFlight, ReplayInv, Sending
<1>5. \A c \in Conns : c # Cur => \/ vp'[c].ring = vp[c].ring /\ vp'[c].sent = vp[c].sent
                                  \/ vp'[c].ring = <<>> /\ vp'[c].sent = {}
  BY <1>3, EmptyTyped
<1>6. Live => Bound <= Bound
  BY BookTyped DEF Live
<1>7. CASE e # Cur
  <2>1. /\ Log' = Log /\ Shipped' = Shipped /\ Bound' = Bound /\ Live' = Live
        /\ (Cur # 0 => vp'[Cur] = vp[Cur])
    <3>1. Cur # 0 => vp'[Cur'] = vp[Cur]
      BY <1>2, <1>3, <1>7
    <3>2. Log' = Log
      BY <1>2, <1>4, <3>1 DEF Log
    <3>3. Shipped' = Shipped
      BY <1>2, <1>4, <3>1 DEF Shipped
    <3>4. Live' = Live
      BY <1>2, <3>1 DEF Live
    <3>5. Cur # 0 => Bound' = Bound
      BY <1>2, <1>4, <3>1 DEF Bound
    <3>6. CASE Cur = 0
      <4>1. vp'[0] = vp[0]
        BY <1>1, <1>7, <3>6, StreamParts
      <4> QED
        BY <1>2, <1>4, <3>2, <3>3, <3>4, <3>6, <4>1 DEF Bound
    <3> QED
      BY <1>2, <3>1, <3>2, <3>3, <3>4, <3>5, <3>6
  <2>2. Book'
    <3>1. Sending => Cur # 0
      BY StreamKept DEF Sending
    <3>2. pump'.pc = "sending" => ~At({"sending"})'
      BY <1>2 DEF ReplayInv, Book, Sending, At
    <3> QED
      BY <1>2, <2>1, <3>1, <3>2, BookSame DEF ReplayInv, Sending
  <2>3. Moves({})
    <3>1. Cur # 0 => /\ vp[Cur].sent \subseteq Shipped
                     /\ \A i \in 1..Len(vp[Cur].ring) : vp[Cur].ring[i].id \in vp[Cur].sent
      BY <1>2 DEF Shipped, ReplayInv, Dated
    <3> QED
      BY <1>2, <1>4, <1>5, <1>6, <2>1, <3>1 DEF Moves
  <2> QED
    BY <1>2, <1>4, <1>5, <2>1, <2>2, <2>3, ReplayOn
<1>8. CASE e = Cur
  <2>1. ~Sending /\ Cur # 0
    <3>1. "ended" \notin Serving /\ Cur # 0
      BY <1>8, Stages, StreamParts
    <3> QED
      BY <1>1, <1>8, <3>1, StreamKept DEF Sending
  <2>2. Log' = <<>> /\ Shipped' = {} /\ ~Live' /\ vp'[Cur'] = NoSession
    <3>1. vp'[Cur'] = NoSession /\ ~Sending'
      BY <1>2, <1>3, <1>4, <1>8, <2>1
    <3>2. NoSession.ring = <<>> /\ NoSession.sent = {} /\ ~NoSession.live
      BY EmptyTyped
    <3> QED
      BY <1>2, <2>1, <3>1, <3>2 DEF Log, Shipped, Live
  <2>3. Book'
    <3>1. ~\E j \in 1..Len(<<>>) : TRUE
      <4>1. Len(<<>>) = 0
        OBVIOUS
      <4> QED
        BY <4>1
    <3>2. /\ Kept(<<>>, wire, client.heard, client.seq, client.up)
          /\ Covered({}, <<>>, wire, client.heard, client.seq, client.up)
      BY <3>1 DEF Kept, Covered
    <3>3. Flows(wire, client.heard, client.seq)
      BY DEF ReplayInv, Book
    <3>4. ~Sending' /\ NoSession.sent = {}
      BY <1>4, <2>1, EmptyTyped
    <3> QED
      BY <1>2, <2>2, <3>2, <3>3, <3>4 DEF Book
  <2>4. Moves({})
    <3>1. /\ vp'[Cur].sent \subseteq Shipped'
          /\ \A i \in 1..Len(vp'[Cur].ring) : vp'[Cur].ring[i].id \in vp'[Cur].sent
      BY <1>2, <2>1, <2>2, EmptyTyped
    <3> QED
      BY <1>2, <1>4, <1>5, <2>2, <3>1 DEF Moves
  <2>5. vp'[Cur].after = 0
    BY <1>2, <2>2, EmptyTyped
  <2> QED
    BY <1>2, <1>4, <1>5, <2>3, <2>4, <2>5, ReplayOn
<1> QED
  BY <1>7, <1>8

(* The client heard a frame that was in flight. *)
LEMMA HearReplay ==
    ASSUME StreamInv, ReplayInv, Hear PROVE ReplayInv'
<1> DEFINE f == wire[1]
           T == Tail(wire)
           ears == IF IsDelta(f) THEN client.heard \cup {f.id} ELSE client.heard
<1>1. /\ Len(wire) >= 1 /\ f \in FrameType /\ wire' = T
      /\ client' = [client EXCEPT
            !.view = ApplyFrame(client.view, f), !.seq = f.seq, !.heard = ears,
            !.twice = client.twice \/ (f.kind = "delta" /\ f.id \in client.heard),
            !.late = client.late \/ (f.kind = "delta" /\ \E i \in DOMAIN f.ops :
                         f.ops[i].op = "bubble" /\ f.ops[i].value # Cur)]
      /\ UNCHANGED <<hub, unsaid, note, vp, handler, pump, replay, spent>>
  BY HearIs DEF IsDelta
<1>2. /\ client'.heard = ears /\ client'.seq = f.seq /\ client'.up = client.up
      /\ client'.back = client.back
      /\ client'.twice = (client.twice \/ (IsDelta(f) /\ f.id \in client.heard))
  BY <1>1, StreamParts DEF ClientType, IsDelta
<1>3. /\ StreamInv' /\ Cur' = Cur /\ wire \in Seq(FrameType) /\ Log \in Seq(RingType)
      /\ client.seq \in Int /\ vp' = vp /\ pump' = pump /\ handler' = handler /\ replay' = replay
      /\ (Cur # 0 => Cur \in Conns)
  BY <1>1, HearTyped, BookTyped
<1>4. client.up
  <2>1. wire # <<>>
    BY <1>1, <1>3, EmptySeq
  <2> QED
    BY <2>1, StreamKept
<1>5. /\ \A i \in 1..Len(T) : T[i] = wire[i + 1] /\ i + 1 \in 1..Len(wire)
      /\ \A i \in 1..Len(wire) : i = 1 \/ (i - 1 \in 1..Len(T) /\ T[i - 1] = wire[i])
      /\ 1 \in 1..Len(wire)
  BY <1>1, <1>3, Tailed
<1>6. /\ Flows(wire, client.heard, client.seq)
      /\ Kept(Log, wire, client.heard, client.seq, client.up)
      /\ Covered(Shipped, Log, wire, client.heard, client.seq, client.up)
      /\ Live => Below(Log, wire, client.seq, Bound)
  BY DEF ReplayInv, Book
<1>7. Flows(T, ears, f.seq) /\ (IsDelta(f) => f.id \notin client.heard)
  BY <1>1, <1>3, <1>6, FlowsHeard
<1>8. Kept(Log, T, ears, f.seq, client.up)
  BY <1>1, <1>3, <1>4, <1>6, KeptHeard
<1>9. Covered(Shipped, Log, T, ears, f.seq, client.up)
  BY <1>1, <1>3, <1>4, <1>6, CoveredHeard
<1> HIDE DEF T
<1>10. Live => Below(Log, T, f.seq, Bound)
  BY <1>5, <1>6 DEF Below
<1>11. /\ Log' = Log /\ Shipped' = Shipped /\ Bound' = Bound /\ Live' = Live /\ Sending' = Sending
  BY <1>3 DEF Log, Shipped, Bound, Live, Sending
<1>12. Book'
  <2>1. /\ Flows(wire', client'.heard, client'.seq)
        /\ Kept(Log', wire', client'.heard, client'.seq, client'.up)
        /\ Covered(Shipped', Log', wire', client'.heard, client'.seq, client'.up)
        /\ Live' => Below(Log', wire', client'.seq, Bound')
    BY <1>1, <1>2, <1>7, <1>8, <1>9, <1>10, <1>11
  <2>2. /\ Cur' # 0 /\ vp'[Cur'].ring = <<>> => vp'[Cur'].sent = {}
        /\ Sending' => pump'.frame.id \notin vp'[Cur'].sent /\ ~At({"sending"})'
    BY <1>3, <1>11 DEF ReplayInv, Book, At
  <2> QED
    BY <2>1, <2>2 DEF Book
<1>13. /\ InFlight' \subseteq InFlight /\ InFlight \subseteq ears \cup InFlight'
       /\ client.heard \subseteq ears /\ ears \subseteq client.heard \cup InFlight
  <2>1. InFlight' = {T[j].id : j \in {k \in 1..Len(T) : IsDelta(T[k])}}
    BY <1>1 DEF InFlight
  <2>2. \A id : id \in InFlight' <=> Carries(T, id)
    BY <2>1 DEF Carries
  <2>3. \A id : Carries(T, id) => Carries(wire, id)
    BY <1>5 DEF Carries
  <2>4. \A id : Carries(wire, id) => Carries(T, id) \/ (IsDelta(f) /\ id = f.id)
    BY <1>5 DEF Carries
  <2>5. IsDelta(f) => Carries(wire, f.id)
    BY <1>5 DEF Carries
  <2> QED
    BY <2>2, <2>3, <2>4, <2>5, InFlightIs
<1>14. Moves({})
  <2>1. Live => Bound <= Bound
    BY BookTyped DEF Live
  <2>2. Cur # 0 => /\ vp[Cur].sent \subseteq Shipped
                   /\ \A i \in 1..Len(vp[Cur].ring) : vp[Cur].ring[i].id \in vp[Cur].sent
    BY <1>3 DEF Shipped, ReplayInv, Dated
  <2> QED
    BY <1>2, <1>3, <1>11, <1>13, <2>1, <2>2 DEF Moves
<1>15. ~client'.twice
  BY <1>2, <1>7 DEF ReplayInv
<1> QED
  BY <1>2, <1>3, <1>12, <1>14, <1>15, ReplayOn

(* The network fails, or the client sees its connection closed. *)
LEMMA DropsReplay ==
    ASSUME StreamInv, ReplayInv, Lose \/ SeeClosed PROVE ReplayInv'
<1>1. StreamInv' /\ Cur' = Cur /\ Drops
  BY LosesTyped
<1>2. /\ wire' = <<>> /\ vp' = vp /\ pump' = pump /\ handler' = handler /\ replay' = replay
      /\ client' = [client EXCEPT !.up = FALSE]
  BY <1>1 DEF Drops
<1>3. /\ client'.heard = client.heard /\ client'.seq = client.seq /\ client'.up = FALSE
      /\ client'.back = client.back /\ client'.twice = client.twice
  BY <1>2, StreamParts DEF ClientType
<1>4. /\ wire \in Seq(FrameType) /\ Log \in Seq(RingType) /\ client.seq \in Int
      /\ (Cur # 0 => Cur \in Conns)
  BY BookTyped
<1>5. /\ Kept(Log, wire, client.heard, client.seq, client.up)
      /\ Covered(Shipped, Log, wire, client.heard, client.seq, client.up)
      /\ Live => Below(Log, wire, client.seq, Bound)
  BY DEF ReplayInv, Book
<1>6. /\ Kept(Log, <<>>, client.heard, client.seq, FALSE)
      /\ Covered(Shipped, Log, <<>>, client.heard, client.seq, FALSE)
      /\ Flows(<<>>, client.heard, client.seq)
      /\ Live => Below(Log, <<>>, client.seq, Bound)
  BY <1>4, <1>5, BookLost
<1>7. /\ Log' = Log /\ Shipped' = Shipped /\ Bound' = Bound /\ Live' = Live /\ Sending' = Sending
  BY <1>1, <1>2 DEF Log, Shipped, Bound, Live, Sending
<1>8. Book'
  <2>1. /\ Flows(wire', client'.heard, client'.seq)
        /\ Kept(Log', wire', client'.heard, client'.seq, client'.up)
        /\ Covered(Shipped', Log', wire', client'.heard, client'.seq, client'.up)
        /\ Live' => Below(Log', wire', client'.seq, Bound')
    BY <1>2, <1>3, <1>6, <1>7
  <2>2. /\ Cur' # 0 /\ vp'[Cur'].ring = <<>> => vp'[Cur'].sent = {}
        /\ Sending' => pump'.frame.id \notin vp'[Cur'].sent /\ ~At({"sending"})'
    BY <1>1, <1>2, <1>7 DEF ReplayInv, Book, At
  <2> QED
    BY <2>1, <2>2 DEF Book
<1>9. Moves({})
  <2>1. Live => Bound <= Bound
    BY BookTyped DEF Live
  <2>2. Cur # 0 => /\ vp[Cur].sent \subseteq Shipped
                   /\ \A i \in 1..Len(vp[Cur].ring) : vp[Cur].ring[i].id \in vp[Cur].sent
    BY <1>4 DEF Shipped, ReplayInv, Dated
  <2>3. InFlight' = {}
    <3>1. Len(<<>>) = 0
      OBVIOUS
    <3> QED
      BY <1>2, <3>1 DEF InFlight
  <2> QED
    BY <1>1, <1>2, <1>3, <1>7, <2>1, <2>2, <2>3 DEF Moves
<1>10. ~client'.twice
  BY <1>3 DEF ReplayInv
<1> QED
  BY <1>1, <1>2, <1>3, <1>8, <1>9, <1>10, ReplayOn

(* A new connection starts an empty book; a client that will resume keeps  *)
(* the one before.                                                         *)
LEMMA DialReplay ==
    ASSUME StreamInv, ReplayInv, Dial PROVE ReplayInv'
<1>1. PICK back \in {NoBack, [conn |-> Cur, seq |-> client.seq]} :
        /\ back \in [conn : 0..MaxConns, seq : Int] /\ Cur + 1 \in Conns /\ wire = <<>>
        /\ \A d \in Conns : vp'[d] = IF d = Cur + 1 THEN NewSession
                                     ELSE IF d = back.conn THEN Left(vp[d]) ELSE NoSession
        /\ pump' = Pump("asleep") /\ replay' = NoReplay
        /\ client' = [client EXCEPT !.up = TRUE, !.seq = 0 - 1, !.back = back,
                                    !.heard = IF back.conn = 0 THEN {} ELSE client.heard]
        /\ UNCHANGED <<hub, unsaid, note, wire, spent>>
        /\ Cur' = Cur + 1
  BY DialIs
<1>2. /\ client'.up = TRUE /\ client'.seq = 0 - 1 /\ client'.back = back
      /\ client'.heard = (IF back.conn = 0 THEN {} ELSE client.heard)
      /\ client'.twice = client.twice /\ wire' = <<>> /\ pump'.pc = "asleep"
  BY <1>1, StreamParts, PumpTyped DEF ClientType
<1>3. /\ Cur \in Nat /\ Cur' # 0 /\ vp'[Cur'] = NewSession /\ Conns = 1..MaxConns /\ MaxConns \in Nat
      /\ (Cur # 0 => Cur \in Conns) /\ ~(\E j \in 1..Len(<<>>) : TRUE)
  <2>1. Len(<<>>) = 0
    OBVIOUS
  <2> QED
    BY <1>1, <2>1, StreamParts
<1>4. /\ NewSession.ring = <<>> /\ NewSession.sent = {} /\ NewSession.seq = 0 /\ NewSession.after = 0
      /\ NoSession.ring = <<>> /\ NoSession.sent = {}
  BY EmptyTyped
<1>5. /\ Log' = <<>> /\ Shipped' = {} /\ Bound' = 0 /\ ~Sending' /\ InFlight' = {}
  <2>1. ~Sending'
    BY <1>2 DEF Sending
  <2>2. Log' = <<>> /\ Shipped' = {} /\ Bound' = 0
    BY <1>3, <1>4, <2>1 DEF Log, Shipped, Bound
  <2>3. InFlight' = {}
    BY <1>2, <1>3 DEF InFlight
  <2> QED
    BY <2>1, <2>2, <2>3
<1>6. Book'
  <2>1. client'.seq < 0
    BY <1>2
  <2>2. /\ Kept(<<>>, <<>>, client'.heard, client'.seq, client'.up)
        /\ Covered({}, <<>>, <<>>, client'.heard, client'.seq, client'.up)
        /\ Flows(<<>>, client'.heard, client'.seq)
        /\ Below(<<>>, <<>>, client'.seq, 0)
    BY <2>1, BookEmpty
  <2> QED
    BY <1>2, <1>3, <1>4, <1>5, <2>2 DEF Book
<1>7. \A d \in Conns : \/ d # Cur' /\ vp'[d].ring = vp[d].ring /\ vp'[d].sent = vp[d].sent
                       \/ vp'[d].ring = <<>> /\ vp'[d].sent = {}
  <2> SUFFICES ASSUME NEW d \in Conns, d # Cur'
               PROVE  \/ vp'[d].ring = vp[d].ring /\ vp'[d].sent = vp[d].sent
                      \/ vp'[d].ring = <<>> /\ vp'[d].sent = {}
    BY <1>3, <1>4
  <2>1. vp'[d] = Left(vp[d]) \/ vp'[d] = NoSession
    BY <1>1
  <2> QED
    BY <1>4, <2>1, StreamParts, LeftParts
<1>8. Dated'
  <2>1. \A id \in client'.heard : id[1] <= Cur' /\ id[1] # Cur'
    <3> SUFFICES ASSUME NEW id \in client.heard PROVE id[1] <= Cur + 1 /\ id[1] # Cur + 1
      BY <1>1, <1>2
    <3>1. id[1] <= Cur /\ id[1] \in Nat
      BY StreamParts DEF ReplayInv, Dated, Ids
    <3> QED
      BY <1>3, <3>1
  <2>2. \A c \in Conns : /\ \A id \in vp'[c].sent : id[1] <= c
                         /\ \A i \in 1..Len(vp'[c].ring) : vp'[c].ring[i].id \in vp'[c].sent
    BY <1>3, <1>7 DEF ReplayInv, Dated
  <2> QED
    BY <1>5, <2>1, <2>2 DEF Dated
<1>9. Backed'
  <2> SUFFICES ASSUME back.conn # 0 PROVE Backed'
    BY <1>2 DEF Backed
  <2>1. back.conn = Cur /\ back.seq = client.seq /\ Cur # 0 /\ Cur # Cur'
    BY <1>1, <1>3 DEF NoBack
  <2>2. vp'[Cur].ring = vp[Cur].ring /\ vp'[Cur].sent = vp[Cur].sent
    <3>1. vp'[Cur] = Left(vp[Cur])
      BY <1>1, <1>3, <2>1
    <3> QED
      BY <1>3, <2>1, <3>1, StreamParts, LeftParts
  <2>3. /\ Kept(vp[Cur].ring, wire, client.heard, client.seq, client.up)
        /\ Covered(vp[Cur].sent, vp[Cur].ring, wire, client.heard, client.seq, client.up)
        /\ vp[Cur].ring \in Seq(RingType) /\ wire \in Seq(FrameType) /\ client.seq \in Int
    BY <2>1, BookLeft, BookTyped
  <2>4. /\ Kept(vp[Cur].ring, <<>>, client.heard, client.seq, FALSE)
        /\ Covered(vp[Cur].sent, vp[Cur].ring, <<>>, client.heard, client.seq, FALSE)
    BY <2>3, BookLost
  <2>5. replay'.old = 0 /\ client'.heard = client.heard
    BY <1>1, <1>2 DEF NoReplay
  <2> QED
    BY <1>2, <1>5, <2>1, <2>2, <2>4, <2>5 DEF Backed
<1>10. Replays'
  <2>1. replay'.old = 0 /\ replay'.frames = <<>>
    BY <1>1 DEF NoReplay
  <2> QED
    BY <1>3, <2>1 DEF Replays
<1>11. Resumed'
  BY <1>3, <1>4 DEF Resumed
<1> QED
  BY <1>2, <1>6, <1>8, <1>9, <1>10, <1>11 DEF ReplayInv

(* The books are in order at first.                                        *)
LEMMA InitReplay ==
    ASSUME ViewportInit PROVE ReplayInv
<1>1. /\ Cur = 0 /\ StreamInv /\ ~(\E j \in 1..Len(<<>>) : TRUE)
  <2>1. Len(<<>>) = 0
    OBVIOUS
  <2> QED
    BY <2>1, InitTyped
<1>2. /\ wire = <<>> /\ pump.pc = "dead" /\ client.heard = {} /\ client.twice = FALSE
      /\ client.back.conn = 0 /\ replay.old = 0 /\ replay.frames = <<>>
  BY PumpTyped DEF ViewportInit, NoReplay, NoBack
<1>3. \A c \in Conns : vp[c].ring = <<>> /\ vp[c].sent = {}
  BY EmptyTyped DEF ViewportInit
<1>4. Log = <<>> /\ Shipped = {} /\ InFlight = {} /\ ~Live /\ ~Sending
  BY <1>1, <1>2 DEF Log, Shipped, InFlight, Live, Sending
<1>5. Book
  <2>1. /\ Kept(<<>>, <<>>, client.heard, client.seq, client.up)
        /\ Covered({}, <<>>, <<>>, client.heard, client.seq, client.up)
        /\ Flows(<<>>, client.heard, client.seq)
    BY BookEmpty
  <2> QED
    BY <1>1, <1>2, <1>4, <2>1 DEF Book
<1>6. Dated
  BY <1>1, <1>2, <1>3, <1>4 DEF Dated
<1>7. Backed /\ Replays /\ Resumed
  BY <1>1, <1>2 DEF Backed, Replays, Resumed
<1> QED
  BY <1>2, <1>5, <1>6, <1>7 DEF ReplayInv

(* Every step keeps the books.                                             *)
LEMMA NextReplay ==
    ASSUME StreamInv, ReplayInv, [ViewportNext]_viewportVars PROVE ReplayInv'
<1>1. CASE UNCHANGED viewportVars
  <2>1. StreamInv'
    BY NextTyped
  <2>2. UNCHANGED <<vp, handler, pump, replay, wire, client>> /\ Cur' = Cur
    BY <1>1 DEF viewportVars, Cur
  <2>3. Sending => Cur # 0
    BY StreamKept DEF Sending
  <2> QED
    BY <2>1, <2>2, <2>3, StillReplay DEF Sending
<1>2. CASE World \/ Pumps \/ PumpFails
  BY <1>2, WorldReplay, PumpReplay
<1>3. CASE Handler
  BY <1>3, SnapsIs, SnapsReplay, ReplayFrameReplay, ReplayDoneReplay DEF Handler
<1>4. CASE Dial \/ Resume \/ Finish \/ Expire
  BY <1>4, DialReplay, ResumeReplay, FinishReplay, ExpireReplay
<1>5. CASE Hear \/ Lose \/ SeeClosed
  BY <1>5, HearReplay, DropsReplay
<1> QED
  BY <1>1, <1>2, <1>3, <1>4, <1>5 DEF ViewportNext

(* No frame of a connection that was resumed reaches the client twice, and *)
(* when the replay is over and all is delivered the client has had each    *)
(* frame the old session sent (ViewportManager.resume).                    *)
THEOREM ReplaysAreExact == ViewportSpec => []ReplayExact
<1>1. ViewportInit => StreamInv /\ ReplayInv
  BY InitTyped, InitReplay
<1>2. StreamInv /\ ReplayInv /\ [ViewportNext]_viewportVars => (StreamInv /\ ReplayInv)'
  BY NextTyped, NextReplay
<1>3. StreamInv /\ ReplayInv => ReplayExact
  <2> SUFFICES ASSUME StreamInv, ReplayInv, Cur # 0, client.up, wire = <<>>, vp[Cur].after # 0
               PROVE  vp[vp[Cur].after].sent \subseteq client.heard
    BY DEF ReplayExact, ReplayInv
  <2>1. InFlight = {}
    <3>1. Len(<<>>) = 0
      OBVIOUS
    <3> QED
      BY <3>1 DEF InFlight
  <2> QED
    BY <2>1 DEF ReplayInv, Resumed
<1> QED
  BY <1>1, <1>2, <1>3, PTL DEF ViewportSpec

=============================================================================
