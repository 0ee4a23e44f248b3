------------------------- MODULE SimCommandsProofs --------------------------
(***************************************************************************)
(* Proofs about requests that take several commands to the sim             *)
(* (SimCommands), for any number of requests, prices, budgets and bounds:  *)
(* a repeated command repeats neither the first soul nor an intent, a quip *)
(* has its slot, and a wallet differs from its ledger only by a save that  *)
(* raced.                                                                  *)
(***************************************************************************)
EXTENDS SimCommands, SumTheorems

(* Where a request of a kind can be.                                       *)
Places == [hello |-> {"grant", "done", "failed"},
           save |-> {"grant", "upsert", "done", "failed"},
           quip |-> {"reserve", "generate", "charge", "release", "done", "failed"},
           note |-> {"ingest", "generate", "finalize", "abandon", "done", "failed"},
           act |-> {"idle", "submit", "polling", "done", "failed"}]

(* The places of a request that concern the slot of its soul.              *)
SlotPlaces == {"charge", "release", "finalize", "abandon"}
SoulPlaces == {"reserve", "generate"} \cup SlotPlaces

Begun == {c \in Calls : call[c].at # "idle"}

PastType == [executed : SUBSET (Calls \X Remote), twice : BOOLEAN, raced : SUBSET Souls,
             granted : Nat, quipped : [Souls -> [Days -> Nat]], lost : Nat, outside : Nat,
             crashes : Nat]

CallType == [kind : Kinds, at : Remote \cup Local, tries : 0..Resent,
             soul : Souls \cup {NoSoul}, day : Days,
             seen : [Souls -> Nat \cup {Unread, Unknown}]]
CopyType == [call : Calls, at : Remote, try : 1..Resent]

TypeInv == SimTypeOK /\ past \in PastType /\ IsFiniteSet(Begun) /\ IsFiniteSet(intents)

(* Copies and requests are where their kind can be.                        *)
PlacesInv ==
    /\ \A c \in Calls : call[c].at \in Places[call[c].kind]
    /\ \A m \in net : m.at \in Places[call[m.call].kind] /\ call[m.call].at # "idle"
    /\ \A c \in Calls, s \in Souls :
         /\ call[c].kind # "save" => call[c].seen[s] = Unread
         /\ call[c].seen[s] \in Nat => s \in rows
    /\ \A c \in Calls :
         call[c].at \in SoulPlaces \/ (\E m \in Copies(c) : m.at \in SoulPlaces)
         => call[c].soul \in rows

IntentsInv ==
    /\ past.granted = 0 \/ (past.granted = 1 /\ rows # {})
    /\ \A c \in Calls : call[c].kind = "act" => Events(c) \subseteq {<<c, 1>>}
    /\ \A c \in Calls : call[c].at = "idle" => Events(c) = {}
    /\ \A c \in Calls : call[c].kind = "act" /\ call[c].at \in {"polling", "done"}
                        => <<c, 1>> \in intents
    /\ \A c \in Calls : call[c].kind = "act" /\ Events(c) # {} => <<c, "submit">> \in past.executed

(* The copies of a request that have not run are of one command, the one   *)
(* the request waits for if it waits.                                      *)
FreshCopies(c) == {m \in Copies(c) : <<c, m.at>> \notin past.executed}

FreshInv ==
    \A c \in Calls :
        /\ \A m \in FreshCopies(c) : call[c].at \in {m.at, "failed"}
        /\ \A m, n \in FreshCopies(c) : m.at = n.at

(* Requests that have a slot and may still pay for it or give it back.     *)
HasSlot(c) ==
    \/ call[c].at = "generate"
    \/ call[c].at \in SlotPlaces /\ <<c, call[c].at>> \notin past.executed
    \/ \E m \in FreshCopies(c) : m.at \in SlotPlaces

Slotted(s, d) == {c \in Calls : call[c].soul = s /\ call[c].day = d /\ HasSlot(c)}

SlotsInv ==
    ~past.twice =>
        \A s \in Souls, d \in Days :
            past.quipped[s][d] + Cardinality(Slotted(s, d)) <= slots[s][d]

(* While no other write comes between, what a save has read is what the    *)
(* wallet holds.                                                           *)
ReadInv(s) ==
    /\ s \in rows => wallet[s] = ledger[s]
    /\ \A c \in OpenSaves(s) :
         IF call[c].seen[s] = Unknown
         THEN <<c, "upsert">> \notin past.executed => s \notin rows
         ELSE call[c].seen[s] = wallet[s]

WalletsInv ==
    /\ \A s \in Souls \ rows : ledger[s] = 0
    /\ ~past.twice => \A s \in Souls \ past.raced : ReadInv(s)

SimInv == TypeInv /\ PlacesInv /\ IntentsInv /\ FreshInv /\ SlotsInv /\ WalletsInv

-----------------------------------------------------------------------------
(* The transport: what a step does to the request c and its copies.        *)
LEMMA TypesAre ==
    ASSUME TypeInv
    PROVE  /\ call \in [Calls -> CallType] /\ net \subseteq CopyType
           /\ \A m \in net : m.call \in Calls /\ m.at \in Remote
           /\ \A c \in Calls : call[c] \in CallType
BY DEF TypeInv, SimTypeOK, CallType, CopyType

Same(r, q) == r.kind = q.kind /\ r.soul = q.soul /\ r.day = q.day /\ r.seen = q.seen

Moves(c) ==
    /\ call' \in [Calls -> CallType] /\ net' \subseteq CopyType
    /\ \A b \in Calls \ {c} : call'[b] = call[b]
    /\ \A n \in net' : n \in net \/ (n.call = c /\ n.at = call'[c].at)

(* A record sent anew has its new place and its first try, and is the same
   record otherwise. *)
LEMMA Renewed ==
    ASSUME NEW r \in CallType, NEW at \in Remote, NEW new,
           new = [r EXCEPT !.at = at, !.tries = 1]
    PROVE  new \in CallType /\ new.at = at /\ Same(new, r)
<1>1. PICK mid : mid = [r EXCEPT !.at = at]
  OBVIOUS
<1>2. mid \in CallType /\ mid.at = at /\ Same(mid, r)
  BY <1>1 DEF CallType, Same
<1>3. new = [mid EXCEPT !.tries = 1]
  BY <1>1 DEF CallType
<1>4. QED
  BY <1>2, <1>3 DEF CallType, Same, Resent

(* Asking the server moves one call to where it asks. *)
LEMMA AskDoes ==
    ASSUME TypeInv, NEW c \in Calls, NEW at \in Remote, NEW record \in CallType,
           Ask(c, at, record)
    PROVE  Moves(c) /\ call'[c].at = at /\ Same(call'[c], record)
<1>1. call \in [Calls -> CallType] /\ net \subseteq CopyType
  BY TypesAre
<1>2. PICK new : new = [record EXCEPT !.at = at, !.tries = 1]
  OBVIOUS
<1>3. new \in CallType /\ new.at = at /\ Same(new, record)
  BY ONLY <1>2, Renewed, record \in CallType, at \in Remote
<1>4. call' = [call EXCEPT ![c] = new] /\ net' = net \cup {[call |-> c, at |-> at, try |-> 1]}
  BY <1>2 DEF Ask
<1>5. call' \in [Calls -> CallType] /\ call'[c] = new /\ \A b \in Calls \ {c} : call'[b] = call[b]
  BY <1>1, <1>3, <1>4
<1>6. [call |-> c, at |-> at, try |-> 1] \in CopyType
  BY DEF CopyType, Resent
<1>7. net' \subseteq CopyType
  BY <1>1, <1>4, <1>6
<1>8. \A n \in net' : n \in net \/ (n.call = c /\ n.at = at)
  BY <1>4
<1>9. QED
  BY <1>3, <1>5, <1>7, <1>8 DEF Moves

(* A call that goes on is the same call at its new place. *)
LEMMA GoesIs ==
    ASSUME TypeInv, NEW c \in Calls, NEW at \in Remote \cup Local
    PROVE  Goes(c, at) \in CallType /\ Goes(c, at).at = at /\ Same(Goes(c, at), call[c])
BY TypesAre DEF Goes, CallType, Same

(* A reply takes one copy from the net and moves its call, unless the call
   has gone on. *)
LEMMA RepliedDoes ==
    ASSUME TypeInv, NEW m \in net, NEW next \in CallType, Replied(m, next)
    PROVE  /\ m.call \in Calls /\ Moves(m.call) /\ net' \subseteq net
           /\ \/ call'[m.call] = call[m.call]
              \/ call'[m.call] = next /\ call[m.call].at = m.at
<1>1. /\ call \in [Calls -> CallType] /\ net \subseteq CopyType /\ m.call \in Calls
  BY TypesAre
<1>2. PICK c \in Calls : c = m.call
  BY <1>1
<1>3. /\ net' = net \ {m}
      /\ call' = call \/ (call' = [call EXCEPT ![c] = next] /\ call[c].at = m.at)
  BY <1>2 DEF Replied, Awaited
<1>4. /\ call' \in [Calls -> CallType] /\ net' \subseteq CopyType
      /\ \A b \in Calls \ {c} : call'[b] = call[b]
      /\ call'[c] = call[c] \/ (call'[c] = next /\ call[c].at = m.at)
  BY <1>1, <1>3
<1>5. net' \subseteq net
  BY <1>3
<1>6. Moves(c)
  BY <1>4, <1>5 DEF Moves
<1>7. QED
  BY <1>2, <1>4, <1>5, <1>6

(* A reply that makes its call ask again moves only that call. *)
LEMMA RepliedAskingDoes ==
    ASSUME TypeInv, NEW m \in net, NEW at \in Remote, RepliedAsking(m, at)
    PROVE  /\ m.call \in Calls /\ Moves(m.call) /\ Same(call'[m.call], call[m.call])
           /\ \/ call'[m.call] = call[m.call] /\ net' \subseteq net
              \/ call'[m.call].at = at /\ call[m.call].at = m.at
<1>1. /\ call \in [Calls -> CallType] /\ net \subseteq CopyType /\ m.call \in Calls
  BY TypesAre
<1>2. PICK c \in Calls : c = m.call
  BY <1>1
<1>3. PICK new : new = [call[c] EXCEPT !.at = at, !.tries = 1]
  OBVIOUS
<1>4. PICK copy : copy = [call |-> c, at |-> at, try |-> 1]
  OBVIOUS
<1>5. new \in CallType /\ new.at = at /\ Same(new, call[c])
  <2>1. PICK r \in CallType : r = call[c]
    BY <1>1
  <2>2. new = [r EXCEPT !.at = at, !.tries = 1]
    BY <1>3, <2>1
  <2>3. new \in CallType /\ new.at = at /\ Same(new, r)
    BY ONLY <2>2, Renewed, r \in CallType, at \in Remote
  <2>4. QED
    BY <2>1, <2>3
<1>6. copy \in CopyType /\ copy.call = c /\ copy.at = at
  BY <1>4 DEF CopyType, Resent
<1>7. \/ call' = call /\ net' = net \ {m}
      \/ /\ call' = [call EXCEPT ![c].at = at, ![c].tries = 1] /\ call[c].at = m.at
         /\ net' = (net \ {m}) \cup {copy}
  BY <1>2, <1>4 DEF RepliedAsking, Awaited
<1>8. CASE call' = call /\ net' = net \ {m}
  BY <1>1, <1>2, <1>8 DEF Moves, Same
<1>9. CASE /\ call' = [call EXCEPT ![c].at = at, ![c].tries = 1] /\ call[c].at = m.at
           /\ net' = (net \ {m}) \cup {copy}
  <2>1. call' = [call EXCEPT ![c] = new]
    BY <1>1, <1>3, <1>9
  <2>2. call' \in [Calls -> CallType] /\ call'[c] = new /\ \A b \in Calls \ {c} : call'[b] = call[b]
    BY <1>1, <1>5, <2>1
  <2>3. net' \subseteq CopyType /\ \A n \in net' : n \in net \/ (n.call = c /\ n.at = at)
    BY <1>1, <1>6, <1>9
  <2>4. Moves(c)
    BY <1>5, <2>2, <2>3 DEF Moves
  <2>5. QED
    BY <1>2, <1>5, <1>9, <2>2, <2>4
<1>10. QED
  BY <1>7, <1>8, <1>9

(* A timeout sends the request once more, or gives the call up. *)
LEMMA TimesOutDoes ==
    ASSUME TypeInv, NEW c \in Calls, TimesOut(c)
    PROVE  /\ Moves(c) /\ Same(call'[c], call[c]) /\ call[c].at \in Remote
           /\ call'[c].at = call[c].at \/ (call'[c].at = "failed" /\ net' = net)
<1>1. call \in [Calls -> CallType] /\ net \subseteq CopyType /\ call[c].at \in Remote
  BY TypesAre DEF TimesOut
<1>2. CASE call' = [call EXCEPT ![c].tries = 2]
           /\ net' = net \cup {[call |-> c, at |-> call[c].at, try |-> 2]}
  <2>1. PICK new : new = [call[c] EXCEPT !.tries = 2]
    OBVIOUS
  <2>2. PICK copy : copy = [call |-> c, at |-> call[c].at, try |-> 2]
    OBVIOUS
  <2>3. new \in CallType /\ new.at = call[c].at /\ Same(new, call[c])
    BY <1>1, <2>1 DEF CallType, Same, Resent
  <2>4. copy \in CopyType /\ copy.call = c /\ copy.at = call[c].at
    BY <1>1, <2>2 DEF CopyType, Resent
  <2>5. call' = [call EXCEPT ![c] = new]
    BY <1>1, <1>2, <2>1
  <2>6. call' \in [Calls -> CallType] /\ call'[c] = new /\ \A b \in Calls \ {c} : call'[b] = call[b]
    BY <1>1, <2>3, <2>5
  <2>7. net' \subseteq CopyType /\ \A n \in net' : n \in net \/ (n.call = c /\ n.at = call[c].at)
    BY <1>1, <1>2, <2>2, <2>4
  <2>8. QED
    BY <1>1, <2>3, <2>6, <2>7 DEF Moves
<1>3. CASE call' = [call EXCEPT ![c].at = "failed"] /\ net' = net
  <2>1. PICK new : new = [call[c] EXCEPT !.at = "failed"]
    OBVIOUS
  <2>2. new \in CallType /\ new.at = "failed" /\ Same(new, call[c])
    BY <1>1, <2>1 DEF CallType, Same, Local
  <2>3. call' = [call EXCEPT ![c] = new]
    BY <1>1, <1>3, <2>1
  <2>4. call' \in [Calls -> CallType] /\ call'[c] = new /\ \A b \in Calls \ {c} : call'[b] = call[b]
    BY <1>1, <2>2, <2>3
  <2>5. QED
    BY <1>1, <1>3, <2>2, <2>4 DEF Moves
<1>4. QED
  BY <1>2, <1>3 DEF TimesOut

(* A retry of a failed act finds its events, or submits it again. *)
LEMMA ResendDoes ==
    ASSUME TypeInv, NEW c \in Calls, Resend(c)
    PROVE  /\ Moves(c) /\ Same(call'[c], call[c]) /\ call[c].kind = "act" /\ call[c].at = "failed"
           /\ \/ call'[c].at = "done" /\ Events(c) # {} /\ net' = net
              \/ call'[c].at = "submit"
<1>1. call \in [Calls -> CallType] /\ net \subseteq CopyType
      /\ call[c].kind = "act" /\ call[c].at = "failed"
  BY TypesAre DEF Resend
<1>2. CASE Events(c) # {} /\ call' = [call EXCEPT ![c].at = "done"] /\ UNCHANGED net
  <2>1. PICK new : new = [call[c] EXCEPT !.at = "done"]
    OBVIOUS
  <2>2. new \in CallType /\ new.at = "done" /\ Same(new, call[c])
    BY <1>1, <2>1 DEF CallType, Same, Local
  <2>3. call' = [call EXCEPT ![c] = new]
    BY <1>1, <1>2, <2>1
  <2>4. call' \in [Calls -> CallType] /\ call'[c] = new /\ \A b \in Calls \ {c} : call'[b] = call[b]
    BY <1>1, <2>2, <2>3
  <2>5. QED
    BY <1>1, <1>2, <2>2, <2>4 DEF Moves
<1>3. CASE /\ call' = [call EXCEPT ![c].at = "submit", ![c].tries = Resent]
           /\ net' = net \cup {[call |-> c, at |-> "submit", try |-> Resent]}
  <2>0. call[c] \in CallType /\ "submit" \in Remote /\ Resent \in {1, Resent}
    BY <1>1 DEF Remote
  <2>1. PICK new : new = [call[c] EXCEPT !.at = "submit", !.tries = Resent]
    OBVIOUS
  <2>2. PICK copy : copy = [call |-> c, at |-> "submit", try |-> Resent]
    OBVIOUS
  <2>3. new \in CallType /\ new.at = "submit" /\ Same(new, call[c])
    <3>1. PICK r \in CallType, at \in Remote, n \in {1, Resent} :
                  r = call[c] /\ at = "submit" /\ n = Resent
      BY <2>0
    <3>2. new = [r EXCEPT !.at = at, !.tries = n]
      BY <2>1, <3>1
    <3>3. new \in CallType /\ new.at = at /\ Same(new, r)
      <4>1. PICK mid : mid = [r EXCEPT !.at = at]
        OBVIOUS
      <4>2. mid \in CallType /\ mid.at = at /\ Same(mid, r)
        BY <4>1 DEF CallType, Same
      <4>3. new = [mid EXCEPT !.tries = n]
        BY <3>2, <4>1 DEF CallType
      <4>4. QED
        BY <4>2, <4>3 DEF CallType, Same, Resent
    <3>4. QED
      BY <3>1, <3>3
  <2>4. copy \in CopyType /\ copy.call = c /\ copy.at = "submit"
    BY <2>2 DEF CopyType, Resent, Remote
  <2>5. call' = [call EXCEPT ![c] = new]
    BY <1>1, <1>3, <2>1
  <2>6. call' \in [Calls -> CallType] /\ call'[c] = new /\ \A b \in Calls \ {c} : call'[b] = call[b]
    BY <1>1, <2>3, <2>5
  <2>7. net' \subseteq CopyType /\ \A n \in net' : n \in net \/ (n.call = c /\ n.at = "submit")
    BY <1>1, <1>3, <2>2, <2>4
  <2>8. QED
    BY <1>1, <2>3, <2>6, <2>7 DEF Moves
<1>4. QED
  BY <1>2, <1>3 DEF Resend

(* A poll that finds the outcome ends its call. *)
LEMMA PolledDoes ==
    ASSUME TypeInv, NEW c \in Calls, Polled(c)
    PROVE  /\ Moves(c) /\ Same(call'[c], call[c]) /\ call[c].at = "polling"
           /\ call'[c].at = "done" /\ net' = net
<1>1. call \in [Calls -> CallType] /\ net \subseteq CopyType /\ call[c].at = "polling" /\ net' = net
  BY TypesAre DEF Polled
<1>2. PICK new : new = [call[c] EXCEPT !.at = "done"]
  OBVIOUS
<1>3. new \in CallType /\ new.at = "done" /\ Same(new, call[c])
  BY <1>1, <1>2 DEF CallType, Same, Local
<1>4. call' = [call EXCEPT ![c] = new]
  BY <1>1, <1>2 DEF Polled
<1>5. call' \in [Calls -> CallType] /\ call'[c] = new /\ \A b \in Calls \ {c} : call'[b] = call[b]
  BY <1>1, <1>3, <1>4
<1>6. QED
  BY <1>1, <1>3, <1>5 DEF Moves

-----------------------------------------------------------------------------
(* What keeps requests and copies in their places.                         *)
Turn(c) ==
    /\ Moves(c)
    /\ call'[c].at \in Places[call'[c].kind] \ {"idle"}
    /\ call[c].at # "idle" => call'[c].kind = call[c].kind
    /\ \A s \in Souls : /\ call'[c].kind # "save" => call'[c].seen[s] = Unread
                        /\ call'[c].seen[s] \in Nat => s \in rows'
    /\ rows \subseteq rows'
    /\ call'[c].at \in SoulPlaces => call'[c].soul \in rows'
    /\ call'[c].soul = call[c].soul \/ call'[c].soul \in rows'

(* A turn of a call leaves each call at a place of its kind. *)
LEMMA TurnKeepsPlaces ==
    ASSUME TypeInv, PlacesInv, NEW c \in Calls, Turn(c)
    PROVE  PlacesInv'
<1>1. /\ call \in [Calls -> CallType] /\ call' \in [Calls -> CallType]
      /\ net \subseteq CopyType /\ net' \subseteq CopyType
  BY TypesAre DEF Turn, Moves
<1>2. /\ \A b \in Calls \ {c} : call'[b] = call[b]
      /\ \A n \in net' : n \in net \/ (n.call = c /\ n.at = call'[c].at)
  BY DEF Turn, Moves
<1>3. \A b \in Calls : call'[b].at \in Places[call'[b].kind]
  BY <1>2 DEF Turn, PlacesInv
<1>4. ASSUME NEW n \in net'
      PROVE  n.at \in Places[call'[n.call].kind] /\ call'[n.call].at # "idle"
  <2>1. n.call \in Calls
    BY <1>1 DEF CopyType
  <2>2. CASE n \in net
    <3>1. n.at \in Places[call[n.call].kind] /\ call[n.call].at # "idle"
      BY <2>2 DEF PlacesInv
    <3>2. QED
      BY <1>2, <2>1, <3>1 DEF Turn
  <2>3. QED
    BY <1>2, <2>1, <2>2 DEF Turn
<1>5. ASSUME NEW b \in Calls, NEW s \in Souls
      PROVE  /\ call'[b].kind # "save" => call'[b].seen[s] = Unread
             /\ call'[b].seen[s] \in Nat => s \in rows'
  BY <1>2 DEF Turn, PlacesInv
<1>6. ASSUME NEW b \in Calls,
             call'[b].at \in SoulPlaces \/ (\E n \in Copies(b)' : n.at \in SoulPlaces)
      PROVE  call'[b].soul \in rows'
  <2>1. CASE b = c /\ call'[c].at \notin SoulPlaces
    <3>1. PICK n \in net' : n.call = c /\ n.at \in SoulPlaces
      BY <1>6, <2>1 DEF Copies
    <3>2. n \in Copies(c)
      BY <1>2, <2>1, <3>1 DEF Copies
    <3>3. call[c].soul \in rows
      BY <3>1, <3>2 DEF PlacesInv
    <3>4. QED
      BY <2>1, <3>3 DEF Turn
  <2>2. CASE b # c
    <3>1. call'[b] = call[b] /\ Copies(b)' \subseteq Copies(b)
      BY <1>2, <2>2 DEF Copies
    <3>2. call[b].soul \in rows
      BY <1>6, <3>1 DEF PlacesInv
    <3>3. QED
      BY <3>1, <3>2 DEF Turn
  <2>3. QED
    BY <2>1, <2>2 DEF Turn
<1>7. QED
  BY <1>3, <1>4, <1>5, <1>6 DEF PlacesInv

(* What keeps the copies that have not run of one command.                 *)
FreshTurn(c) ==
    /\ Moves(c)
    /\ past.executed \subseteq past'.executed
    /\ \/ \A n \in FreshCopies(c)' : n.at = call'[c].at
       \/ call'[c].at \in {call[c].at, "failed"} /\ FreshCopies(c)' \subseteq FreshCopies(c)

(* A move of one call makes no copy of another one fresh. *)
LEMMA OthersFresh ==
    ASSUME NEW c \in Calls, Moves(c), past.executed \subseteq past'.executed,
           NEW b \in Calls \ {c}
    PROVE  /\ FreshCopies(b)' \subseteq FreshCopies(b)
           /\ call'[b] = call[b] /\ Copies(b)' \subseteq Copies(b)
BY DEF Moves, FreshCopies, Copies

(* A turn that leaves its own copies right keeps the invariant of the fresh
   copies. *)
LEMMA FreshTurnKeeps ==
    ASSUME FreshInv, NEW c \in Calls, FreshTurn(c)
    PROVE  FreshInv'
<1>1. ASSUME NEW b \in Calls
      PROVE  /\ \A m \in FreshCopies(b)' : call'[b].at \in {m.at, "failed"}
             /\ \A m, n \in FreshCopies(b)' : m.at = n.at
  <2>1. CASE b # c
    BY <2>1, OthersFresh DEF FreshTurn, FreshInv
  <2>2. CASE b = c
    <3>1. CASE \A n \in FreshCopies(c)' : n.at = call'[c].at
      BY <2>2, <3>1
    <3>2. CASE call'[c].at \in {call[c].at, "failed"} /\ FreshCopies(c)' \subseteq FreshCopies(c)
      BY <2>2, <3>2 DEF FreshInv
    <3>3. QED
      BY <3>1, <3>2 DEF FreshTurn
  <2>3. QED
    BY <2>1, <2>2
<1>2. QED
  BY <1>1 DEF FreshInv

(* What keeps a nonce to one intent, and the first soul one.               *)
GrantTurn ==
    \/ past'.granted = past.granted /\ rows \subseteq rows'
    \/ past'.granted = past.granted + 1 /\ rows = {} /\ rows' # {}

IntentTurn(c) ==
    /\ Moves(c)
    /\ call'[c].at # "idle"
    /\ intents \subseteq intents' /\ past.executed \subseteq past'.executed
    /\ \A i \in intents' : i \in intents \/ i[1] = c
    /\ call'[c].kind = "act" =>
         /\ Events(c)' \subseteq {<<c, 1>>}
         /\ call'[c].at \in {"polling", "done"} => <<c, 1>> \in intents'
         /\ Events(c)' # {} => <<c, "submit">> \in past'.executed
    /\ GrantTurn

(* A turn that leaves its own intents right keeps the invariant of the
   intents. *)
LEMMA IntentTurnKeeps ==
    ASSUME TypeInv, IntentsInv, NEW c \in Calls, IntentTurn(c)
    PROVE  IntentsInv'
<1>1. past'.granted = 0 \/ (past'.granted = 1 /\ rows' # {})
  BY DEF IntentTurn, GrantTurn, IntentsInv
<1>2. ASSUME NEW b \in Calls \ {c}
      PROVE  call'[b] = call[b] /\ Events(b)' = Events(b)
  BY DEF IntentTurn, Moves, Events
<1>3. QED
  BY <1>1, <1>2 DEF IntentTurn, IntentsInv

-----------------------------------------------------------------------------
(* Slots: what a step may do to the slot of s on d.                        *)
SlotKept(c, s, d) ==
    /\ slots'[s][d] = slots[s][d] /\ past'.quipped[s][d] = past.quipped[s][d]
    /\ c \in Slotted(s, d)' => c \in Slotted(s, d)

SlotTaken(s, d) ==
    slots'[s][d] = slots[s][d] + 1 /\ past'.quipped[s][d] = past.quipped[s][d]

(* The request that had the slot has it no more.                           *)
SlotLeft(c, s, d) == c \in Slotted(s, d) /\ c \notin Slotted(s, d)'

SlotPaid(c, s, d) ==
    /\ slots'[s][d] = slots[s][d] /\ past'.quipped[s][d] = past.quipped[s][d] + 1
    /\ SlotLeft(c, s, d)

SlotFreed(c, s, d) ==
    /\ slots'[s][d] = IF slots[s][d] > 0 THEN slots[s][d] - 1 ELSE 0
    /\ past'.quipped[s][d] = past.quipped[s][d]
    /\ SlotLeft(c, s, d)

SlotTurn(c) ==
    /\ Moves(c)
    /\ past.executed \subseteq past'.executed
    /\ ~past'.twice => ~past.twice /\ \A s \in Souls, d \in Days :
         SlotKept(c, s, d) \/ SlotTaken(s, d) \/ SlotPaid(c, s, d) \/ SlotFreed(c, s, d)

(* The calls that hold a slot of a soul on a day are finitely many. *)
LEMMA SlottedFinite ==
    ASSUME TypeInv, PlacesInv, NEW s, NEW d
    PROVE  IsFiniteSet(Slotted(s, d)) /\ Cardinality(Slotted(s, d)) \in Nat
<1>1. Slotted(s, d) \subseteq Begun
  BY DEF Slotted, HasSlot, FreshCopies, Copies, PlacesInv, Begun, SlotPlaces
<1>2. IsFiniteSet(Slotted(s, d))
  BY <1>1, FS_Subset DEF TypeInv
<1>3. QED
  BY <1>2, FS_CardinalityType

(* A move of one call gives no other call a slot. *)
LEMMA OthersSlotted ==
    ASSUME NEW c \in Calls, Moves(c), past.executed \subseteq past'.executed, NEW s, NEW d
    PROVE  Slotted(s, d)' \subseteq Slotted(s, d) \cup {c}
<1>1. ASSUME NEW b \in Calls \ {c}, b \in Slotted(s, d)'
      PROVE  b \in Slotted(s, d)
  <2>1. call'[b] = call[b] /\ FreshCopies(b)' \subseteq FreshCopies(b)
    BY OthersFresh
  <2>2. QED
    BY <1>1, <2>1 DEF Slotted, HasSlot
<1>2. QED
  BY <1>1 DEF Slotted

(* A turn that counts its own slot right keeps the invariant of the slots. *)
LEMMA SlotTurnKeeps ==
    ASSUME TypeInv, PlacesInv, SlotsInv, NEW c \in Calls, SlotTurn(c)
    PROVE  SlotsInv'
<1> SUFFICES ASSUME ~past'.twice, NEW s \in Souls, NEW d \in Days
             PROVE  past'.quipped[s][d] + Cardinality(Slotted(s, d)') <= slots'[s][d]
  BY DEF SlotsInv
<1>1. PICK S : S = Slotted(s, d)
  OBVIOUS
<1>2. PICK T : T = Slotted(s, d)'
  OBVIOUS
<1>3. IsFiniteSet(S) /\ Cardinality(S) \in Nat /\ T \subseteq S \cup {c}
  BY <1>1, <1>2, SlottedFinite, OthersSlotted DEF SlotTurn
<1>4. PICK sl \in Nat, qu \in Nat : sl = slots[s][d] /\ qu = past.quipped[s][d]
  BY DEF TypeInv, SimTypeOK, PastType
<1>5. qu + Cardinality(S) <= sl
  BY <1>1, <1>4 DEF SlotsInv, SlotTurn
<1>6. IsFiniteSet(T) /\ Cardinality(T) \in Nat /\ Cardinality(T) <= Cardinality(S) + 1
  <2>1. /\ IsFiniteSet(S \cup {c})
        /\ Cardinality(S \cup {c}) = IF c \in S THEN Cardinality(S) ELSE Cardinality(S) + 1
    BY <1>3, FS_AddElement
  <2>2. IsFiniteSet(T) /\ Cardinality(T) <= Cardinality(S \cup {c})
    BY <1>3, <2>1, FS_Subset
  <2>3. Cardinality(T) \in Nat
    BY <2>2, FS_CardinalityType
  <2>4. QED
    BY <1>3, <2>1, <2>2, <2>3
<1>7. T \subseteq S => Cardinality(T) <= Cardinality(S)
  BY <1>3, FS_Subset
<1>8. ASSUME c \notin T, c \in S PROVE Cardinality(T) <= Cardinality(S) - 1
  <2>1. IsFiniteSet(S \ {c}) /\ Cardinality(S \ {c}) = Cardinality(S) - 1 /\ T \subseteq S \ {c}
    BY <1>3, <1>8, FS_RemoveElement
  <2>2. QED
    BY <2>1, FS_Subset
<1>9. CASE SlotKept(c, s, d)
  BY <1>1, <1>2, <1>3, <1>4, <1>5, <1>6, <1>7, <1>9 DEF SlotKept
<1>10. CASE SlotTaken(s, d)
  BY <1>2, <1>3, <1>4, <1>5, <1>6, <1>10 DEF SlotTaken
<1>11. CASE SlotPaid(c, s, d)
  BY <1>1, <1>2, <1>3, <1>4, <1>5, <1>6, <1>8, <1>11 DEF SlotPaid, SlotLeft
<1>12. CASE SlotFreed(c, s, d)
  BY <1>1, <1>2, <1>3, <1>4, <1>5, <1>6, <1>8, <1>12 DEF SlotFreed, SlotLeft
<1>13. QED
  BY <1>9, <1>10, <1>11, <1>12 DEF SlotTurn

-----------------------------------------------------------------------------
(* Wallets: a step opens no save, or opens one with what it reads.         *)
Reads(c, s) ==
    /\ c \in Calls
    /\ UNCHANGED <<rows, wallet, ledger>>
    /\ call'[c].seen[s] = IF s \in rows THEN wallet[s] ELSE Unknown

OpenTurn(c) ==
    /\ Moves(c)
    /\ past.executed \subseteq past'.executed /\ past.raced \subseteq past'.raced
    /\ ~past'.twice => ~past.twice
    /\ \A s \in Souls : \/ c \notin OpenSaves(s)'
                        \/ call'[c].seen = call[c].seen /\ c \in OpenSaves(s)
                        \/ Reads(c, s)

(* What a step may do to the wallet of s.                                  *)
WalletKept(s) ==
    /\ wallet'[s] = wallet[s] /\ ledger'[s] = ledger[s] /\ (s \in rows' <=> s \in rows)

WalletWritten(s) ==
    /\ s \in rows'
    /\ s \notin past'.raced => OpenSaves(s)' = {} /\ (wallet[s] = ledger[s] => wallet'[s] = ledger'[s])
    /\ s \in rows \/ wallet'[s] = ledger'[s]

(* A move of one call opens no save of another. *)
LEMMA OthersOpen ==
    ASSUME NEW c \in Calls, Moves(c), NEW s, NEW b \in Calls \ {c}, b \in OpenSaves(s)'
    PROVE  b \in OpenSaves(s) /\ call'[b] = call[b]
BY DEF Moves, OpenSaves, Copies

OpenStep ==
    /\ past.executed \subseteq past'.executed /\ past.raced \subseteq past'.raced
    /\ ~past'.twice => ~past.twice
    /\ \A s \in Souls : \A b \in OpenSaves(s)' :
         (b \in OpenSaves(s) /\ call'[b].seen = call[b].seen) \/ Reads(b, s)

(* A step that keeps each wallet, or writes it with a ledger row, keeps the
   invariant of the wallets. *)
LEMMA WalletsStepKeeps ==
    ASSUME TypeInv, WalletsInv, OpenStep,
           \A s \in Souls : WalletKept(s) \/ WalletWritten(s)
    PROVE  WalletsInv'
<1>1. ASSUME NEW s \in Souls \ rows'
      PROVE  ledger'[s] = 0
  BY <1>1 DEF WalletsInv, WalletKept, WalletWritten
<1>2. ASSUME ~past'.twice, NEW s \in Souls \ past'.raced
      PROVE  ReadInv(s)'
  <2>1. ReadInv(s)
    BY <1>2 DEF WalletsInv, OpenStep
  <2>2. CASE WalletKept(s)
    <3>1. s \in rows' => wallet'[s] = ledger'[s]
      BY <2>1, <2>2 DEF ReadInv, WalletKept
    <3>2. ASSUME NEW b \in OpenSaves(s)'
          PROVE  IF call'[b].seen[s] = Unknown
                 THEN <<b, "upsert">> \notin past'.executed => s \notin rows'
                 ELSE call'[b].seen[s] = wallet'[s]
      <4>1. CASE b \in OpenSaves(s) /\ call'[b].seen = call[b].seen
        BY <2>1, <2>2, <4>1 DEF ReadInv, WalletKept, OpenStep
      <4>2. CASE Reads(b, s)
        <5>1. wallet[s] \in Nat
          BY DEF TypeInv, SimTypeOK
        <5>2. QED
          BY <2>2, <4>2, <5>1 DEF Reads, WalletKept, Unknown
      <4>3. QED
        BY <3>2, <4>1, <4>2 DEF OpenStep
    <3>3. QED
      BY <3>1, <3>2 DEF ReadInv
  <2>3. CASE WalletWritten(s)
    BY <1>2, <2>1, <2>3 DEF ReadInv, WalletWritten
  <2>4. QED
    BY <2>2, <2>3
<1>3. QED
  BY <1>1, <1>2 DEF WalletsInv

(* So does a turn that does it. *)
LEMMA WalletsTurnKeeps ==
    ASSUME TypeInv, WalletsInv, NEW c \in Calls, OpenTurn(c),
           \A s \in Souls : WalletKept(s) \/ WalletWritten(s)
    PROVE  WalletsInv'
<1>1. ASSUME NEW s \in Souls, NEW b \in OpenSaves(s)'
      PROVE  (b \in OpenSaves(s) /\ call'[b].seen = call[b].seen) \/ Reads(b, s)
  <2>1. b \in Calls
    BY DEF OpenSaves
  <2>2. QED
    BY <2>1, OthersOpen DEF OpenTurn
<1>2. OpenStep
  BY <1>1 DEF OpenStep, OpenTurn
<1>3. QED
  BY <1>2, WalletsStepKeeps

-----------------------------------------------------------------------------
(* The copies of a request that starts, goes on or is answered.            *)
LEMMA NoFresh ==
    ASSUME TypeInv, PlacesInv, FreshInv, NEW c \in Calls, call[c].at \notin Remote \cup {"failed"}
    PROVE  FreshCopies(c) = {} /\ (call[c].at = "idle" => Copies(c) = {})
<1>1. call[c].at = "idle" => Copies(c) = {}
  BY DEF PlacesInv, Copies
<1>2. ASSUME NEW m \in FreshCopies(c)
      PROVE  FALSE
  <2>1. m.at \in Remote
    BY TypesAre DEF FreshCopies, Copies
  <2>2. call[c].at \in {m.at, "failed"}
    BY DEF FreshInv
  <2>3. QED
    BY <2>1, <2>2
<1>3. QED
  BY <1>1, <1>2

(* A request that asks for the next thing has only the new copy to run.    *)
LEMMA AskFresh ==
    ASSUME TypeInv, PlacesInv, FreshInv, NEW c \in Calls, Moves(c), past'.executed = past.executed,
           call[c].at \notin Remote \cup {"failed"}
    PROVE  \A n \in FreshCopies(c)' : n.at = call'[c].at
<1>1. FreshCopies(c) = {}
  BY NoFresh
<1>2. QED
  BY <1>1 DEF Moves, FreshCopies, Copies

(* What a copy that runs leaves to run.                                    *)
Ran(m) ==
    /\ m \in net /\ Moves(m.call)
    /\ past'.executed = past.executed \cup {<<m.call, m.at>>}
    /\ past'.twice = (past.twice \/ <<m.call, m.at>> \in past.executed)

Answered(m) == call[m.call].at = m.at

Unanswered(m) == call'[m.call].at = call[m.call].at /\ net' \subseteq net

(* A command that answered leaves only copies of where its call asks next. *)
LEMMA AnsweredFresh ==
    ASSUME TypeInv, FreshInv, NEW m \in net, Ran(m), Answered(m)
    PROVE  \A n \in FreshCopies(m.call)' : n.at = call'[m.call].at /\ n \notin net
<1>1. PICK c \in Calls : c = m.call
  BY TypesAre
<1>2. ASSUME NEW n \in FreshCopies(c)', n \in net
      PROVE  FALSE
  <2>1. n \in FreshCopies(c) /\ n.at # m.at
    BY <1>1, <1>2 DEF Ran, FreshCopies, Copies
  <2>2. call[c].at \in {n.at, "failed"}
    BY <2>1 DEF FreshInv
  <2>3. m.at # "failed"
    BY TypesAre DEF Remote
  <2>4. QED
    BY <1>1, <2>1, <2>2, <2>3 DEF Answered
<1>3. QED
  BY <1>1, <1>2 DEF Ran, Moves, FreshCopies, Copies

(* A command whose answer came to nothing makes no copy fresh. *)
LEMMA UnansweredFresh ==
    ASSUME TypeInv, FreshInv, NEW m \in net, Ran(m), Unanswered(m)
    PROVE  /\ FreshCopies(m.call)' \subseteq FreshCopies(m.call)
           /\ HasSlot(m.call)' => <<m.call, m.at>> \in past.executed
<1>1. PICK c \in Calls : c = m.call
  BY TypesAre
<1>2. FreshCopies(c)' \subseteq FreshCopies(c)
  BY <1>1 DEF Ran, Unanswered, FreshCopies, Copies
<1>3. ASSUME HasSlot(c)', <<c, m.at>> \notin past.executed
      PROVE  FALSE
  <2>1. m \in FreshCopies(c)
    BY <1>1, <1>3 DEF FreshCopies, Copies
  <2>2. \A n \in FreshCopies(c) : n.at = m.at
    BY <2>1 DEF FreshInv
  <2>3. FreshCopies(c)' = {}
    BY <1>1, <1>2, <2>2 DEF Ran, FreshCopies
  <2>4. call[c].at \in {m.at, "failed"} /\ m.at \in Remote
    BY <2>1, TypesAre DEF FreshInv
  <2>5. QED
    BY <1>1, <1>3, <2>3, <2>4 DEF HasSlot, Ran, Unanswered, SlotPlaces, Remote
<1>4. QED
  BY <1>1, <1>2, <1>3

(* A copy runs, and its request waited for it or did not notice.           *)
Answers(m) ==
    /\ Ran(m)
    /\ call'[m.call].kind = call[m.call].kind /\ call'[m.call].seen = call[m.call].seen
    /\ \/ Unanswered(m) /\ call'[m.call] = call[m.call]
       \/ /\ Answered(m)
          /\ call'[m.call].at \in Places[call[m.call].kind] \ {"idle"}
          /\ call'[m.call].soul = call[m.call].soul \/ call'[m.call].soul \in rows'
          /\ call'[m.call].at \in SoulPlaces => call'[m.call].soul \in rows'

(* A command run by the server is a turn of its call. *)
LEMMA AnswersTurns ==
    ASSUME TypeInv, PlacesInv, FreshInv, NEW m \in net, Answers(m), rows \subseteq rows'
    PROVE  Turn(m.call) /\ FreshTurn(m.call)
<1>1. PICK c \in Calls : c = m.call
  BY TypesAre
<1>2. Moves(c) /\ past.executed \subseteq past'.executed
  BY <1>1 DEF Answers, Ran
<1>3. FreshTurn(c)
  <2>1. CASE Unanswered(m) /\ call'[c] = call[c]
    BY <1>1, <1>2, <2>1, UnansweredFresh DEF Answers, FreshTurn
  <2>2. CASE Answered(m)
    BY <1>1, <1>2, <2>2, AnsweredFresh DEF Answers, FreshTurn
  <2>3. QED
    BY <1>1, <2>1, <2>2 DEF Answers
<1>4. ASSUME NEW s \in Souls
      PROVE  /\ call'[c].kind # "save" => call'[c].seen[s] = Unread
             /\ call'[c].seen[s] \in Nat => s \in rows'
  BY <1>1 DEF Answers, PlacesInv
<1>5. Turn(c)
  <2>1. call[c].at # "idle" /\ call[c].at \in Places[call[c].kind]
    BY <1>1 DEF PlacesInv
  <2>2. CASE Unanswered(m) /\ call'[c] = call[c]
    BY <1>1, <1>2, <1>4, <2>1, <2>2 DEF Turn, Answers, PlacesInv
  <2>3. CASE Answered(m) /\ ~(Unanswered(m) /\ call'[c] = call[c])
    BY <1>1, <1>2, <1>4, <2>1, <2>3 DEF Turn, Answers
  <2>4. QED
    BY <1>1, <2>2, <2>3 DEF Answers
<1>6. QED
  BY <1>1, <1>3, <1>5

(* A command run by the server opens no save. *)
LEMMA AnswersOpens ==
    ASSUME TypeInv, NEW m \in net, Answers(m), past.raced \subseteq past'.raced
    PROVE  OpenTurn(m.call)
<1>1. PICK c \in Calls : c = m.call
  BY TypesAre
<1>2. m \in Copies(c)
  BY <1>1 DEF Copies
<1>3. \A s \in Souls : c \in OpenSaves(s)' => call'[c].seen = call[c].seen /\ c \in OpenSaves(s)
  BY <1>1, <1>2 DEF OpenSaves, Answers
<1>4. QED
  BY <1>1, <1>3 DEF OpenTurn, Answers, Ran

(* A command run by the server leaves the open saves, or fewer. *)
LEMMA AnswersOpenNone ==
    ASSUME TypeInv, NEW m \in net, Answers(m), NEW s
    PROVE  OpenSaves(s)' \subseteq OpenSaves(s)
<1>1. PICK c \in Calls : c = m.call
  BY TypesAre
<1>2. ASSUME NEW b \in OpenSaves(s)'
      PROVE  b \in OpenSaves(s)
  <2>1. b \in Calls
    BY DEF OpenSaves
  <2>2. CASE b = c
    <3>1. m \in Copies(c) /\ call'[c].seen = call[c].seen
      BY <1>1 DEF Copies, Answers
    <3>2. QED
      BY <1>2, <2>2, <3>1 DEF OpenSaves
  <2>3. CASE b # c
    BY <1>1, <2>1, <2>3, OthersOpen DEF Answers, Ran
  <2>4. QED
    BY <2>2, <2>3
<1>3. QED
  BY <1>2

(* While no command ran twice, this one runs for the first time, and holds a
   slot only if it was answered. *)
LEMMA AnswersSlots ==
    ASSUME TypeInv, PlacesInv, FreshInv, NEW m \in net, Answers(m), ~past'.twice
    PROVE  /\ ~past.twice /\ <<m.call, m.at>> \notin past.executed
           /\ m.at \in SlotPlaces => HasSlot(m.call)
           /\ HasSlot(m.call)' => /\ Answered(m)
                                  /\ call'[m.call].at \in SlotPlaces \cup {"generate"}
<1>1. PICK c \in Calls : c = m.call
  BY TypesAre
<1>2. ~past.twice /\ <<c, m.at>> \notin past.executed
  BY <1>1 DEF Answers, Ran
<1>3. m.at \in SlotPlaces => HasSlot(c)
  BY <1>1, <1>2 DEF HasSlot, FreshCopies, Copies
<1>4. CASE Unanswered(m)
  BY <1>1, <1>2, <1>3, <1>4, UnansweredFresh DEF Answers
<1>5. CASE Answered(m)
  <2>1. \A n \in FreshCopies(c)' : n.at = call'[c].at
    BY <1>1, <1>5, AnsweredFresh DEF Answers
  <2>2. QED
    BY <1>1, <1>2, <1>3, <1>5, <2>1 DEF HasSlot
<1>6. QED
  BY <1>4, <1>5 DEF Answers

(* A command other than a submit leaves the invariant of the intents. *)
LEMMA AnswersIntents ==
    ASSUME TypeInv, PlacesInv, NEW m \in net, Answers(m), m.at # "submit",
           intents \subseteq intents', \A i \in intents' : i \in intents \/ i[1] = m.call,
           GrantTurn
    PROVE  IntentTurn(m.call)
<1>1. PICK c \in Calls : c = m.call
  BY TypesAre
<1>2. m.at \in Remote /\ m.at \in Places[call[c].kind] /\ call[c].at # "idle" /\ call[c].kind \in Kinds
  BY <1>1, TypesAre DEF PlacesInv, CallType
<1>3. call[c].kind # "act"
  BY <1>2 DEF Places, Remote
<1>4. Moves(c) /\ past.executed \subseteq past'.executed /\ call'[c].at # "idle"
  BY <1>1, <1>2 DEF Answers, Ran
<1>5. QED
  BY <1>1, <1>3, <1>4 DEF IntentTurn, Answers

(* A turn that writes values of their types keeps the type invariant. *)
LEMMA TurnTypes ==
    ASSUME TypeInv, NEW c \in Calls, Moves(c),
           rows' \subseteq Souls /\ IF rows' = {} THEN first' = NoSoul ELSE first' \in rows',
           wallet' \in [Souls -> Nat] /\ ledger' \in [Souls -> Int],
           slots' \in [Souls -> [Days -> Nat]], intents' \subseteq Calls \X Nat,
           IsFiniteSet(intents'), today' \in Days, up' \in BOOLEAN, past' \in PastType
    PROVE  TypeInv'
<1>1. call' \in [Calls -> CallType] /\ net' \subseteq CopyType
  BY DEF Moves
<1>2. Begun' \subseteq Begun \cup {c}
  BY DEF Begun, Moves
<1>3. IsFiniteSet(Begun')
  BY <1>2, FS_AddElement, FS_Subset DEF TypeInv
<1>4. QED
  BY <1>1, <1>3 DEF TypeInv, SimTypeOK, CallType, CopyType

(* A step is good for all of the invariant if it is good for each part.    *)
Good(c) ==
    /\ Turn(c) /\ FreshTurn(c) /\ IntentTurn(c) /\ SlotTurn(c)
    /\ TypeInv' /\ WalletsInv'

(* A turn that is right for each part keeps the whole invariant. *)
LEMMA GoodKeeps ==
    ASSUME SimInv, NEW c \in Calls, Good(c)
    PROVE  SimInv'
BY TurnKeepsPlaces, FreshTurnKeeps, IntentTurnKeeps, SlotTurnKeeps DEF SimInv, Good

-----------------------------------------------------------------------------
(* Steps of the API process: they write no table.                          *)
Tables == <<table, wallet, ledger, slots, intents, today, up>>

PastKept ==
    /\ past' \in PastType
    /\ past'.executed = past.executed /\ past'.twice = past.twice /\ past'.raced = past.raced
    /\ past'.granted = past.granted /\ past'.quipped = past.quipped

(* A turn that leaves the server's tables keeps the invariant. *)
LEMMA ClientKeeps ==
    ASSUME SimInv, NEW c \in Calls, Turn(c), UNCHANGED Tables, PastKept,
           FreshTurn(c), OpenTurn(c),
           \A s \in Souls, d \in Days : c \in Slotted(s, d)' => c \in Slotted(s, d),
           call'[c].kind = "act" =>
             /\ call[c].kind = "act"
             /\ call'[c].at \in {"polling", "done"} => Events(c) # {}
    PROVE  SimInv'
<1>1. Moves(c) /\ call'[c].at # "idle"
  BY DEF Turn
<1>2. TypeInv'
  BY <1>1, TurnTypes DEF SimInv, TypeInv, SimTypeOK, Tables, table, PastKept
<1>3. IntentTurn(c)
  <2>1. Events(c)' = Events(c)
    BY DEF Tables, Events
  <2>2. QED
    BY <1>1, <2>1 DEF IntentTurn, GrantTurn, Tables, table, PastKept, SimInv, IntentsInv, Events
<1>4. SlotTurn(c)
  BY <1>1 DEF SlotTurn, SlotKept, Tables, PastKept
<1>5. WalletsInv'
  <2>1. \A s \in Souls : WalletKept(s)
    BY DEF WalletKept, Tables, table
  <2>2. QED
    BY <2>1, WalletsTurnKeeps DEF SimInv
<1>6. QED
  BY <1>2, <1>3, <1>4, <1>5, GoodKeeps DEF Good

(* A call that starts keeps the invariant. *)
LEMMA StartKeeps ==
    ASSUME SimInv, NEW c \in Calls, call[c].at = "idle", NEW at \in Remote, NEW record \in CallType,
           Ask(c, at, record), UNCHANGED Tables, UNCHANGED past,
           at \in Places[record.kind], at \notin SlotPlaces, at \in SoulPlaces => record.soul \in rows,
           record.soul = call[c].soul \/ record.soul \in rows,
           \A s \in Souls :
             record.seen[s] = Unread \/ (record.kind = "save"
                                         /\ record.seen[s] = IF s \in rows THEN wallet[s] ELSE Unknown)
    PROVE  SimInv'
<1>1. Moves(c) /\ call'[c].at = at /\ Same(call'[c], record)
  BY AskDoes DEF SimInv
<1>2. TypeInv /\ PlacesInv /\ FreshInv
  BY DEF SimInv
<1>3. at \notin Local
  BY DEF Remote, Local
<1>4. \A n \in FreshCopies(c)' : n.at = at
  BY <1>1, <1>2, AskFresh DEF Remote
<1>5. FreshTurn(c)
  BY <1>1, <1>4 DEF FreshTurn
<1>6. Turn(c)
  <2>1. ASSUME NEW s \in Souls
        PROVE  /\ record.kind # "save" => record.seen[s] = Unread
               /\ record.seen[s] \in Nat => s \in rows
    BY DEF Unread, Unknown
  <2>2. QED
    BY <1>1, <1>3, <2>1 DEF Turn, Same, Local, Tables, table
<1>7. OpenTurn(c)
  <2>1. ASSUME NEW s \in Souls, c \in OpenSaves(s)'
        PROVE  Reads(c, s)
    BY <1>1, <2>1 DEF OpenSaves, Reads, Same, Tables, table
  <2>2. QED
    BY <1>1, <2>1 DEF OpenTurn
<1>8. ~HasSlot(c)'
  BY <1>1, <1>3, <1>4 DEF HasSlot, Local
<1>9. call'[c].kind = "act" => call[c].kind = "act" /\ call'[c].at \notin {"polling", "done"}
  <2>1. call[c].kind = "act"
    <3>1. call[c].at \in Places[call[c].kind] /\ call[c].kind \in Kinds
      BY <1>2, TypesAre DEF PlacesInv, CallType
    <3>2. QED
      BY <3>1 DEF Kinds, Places
  <2>2. QED
    BY <1>1, <1>3, <2>1 DEF Local
<1>10. QED
  BY <1>5, <1>6, <1>7, <1>8, <1>9, ClientKeeps DEF Slotted, PastKept, SimInv, TypeInv

(* An idle call has read nothing. *)
LEMMA StartsAsAct ==
    ASSUME SimInv, NEW c \in Calls, call[c].at = "idle"
    PROVE  call[c] \in CallType /\ call[c].kind = "act" /\ \A s \in Souls : call[c].seen[s] = Unread
<1>1. call[c].at \in Places[call[c].kind] /\ call[c].kind \in Kinds /\ call[c] \in CallType
  BY TypesAre DEF SimInv, PlacesInv, CallType
<1>2. call[c].kind = "act"
  BY <1>1 DEF Kinds, Places
<1>3. QED
  BY <1>1, <1>2 DEF SimInv, PlacesInv

(* hello, note and act start without a look at the tables.                 *)
LEMMA BlindStartKeeps ==
    ASSUME SimInv, NEW c \in Calls, call[c].at = "idle", NEW kind, NEW at,
           <<kind, at>> \in {<<"hello", "grant">>, <<"note", "ingest">>, <<"act", "submit">>},
           Ask(c, at, [call[c] EXCEPT !.kind = kind]), UNCHANGED Tables, UNCHANGED past
    PROVE  SimInv'
<1>1. PICK record : record = [call[c] EXCEPT !.kind = kind]
  OBVIOUS
<1>2. kind \in Kinds /\ kind # "save" /\ at \in Remote /\ at \in Places[kind] /\ at \notin SoulPlaces
  BY DEF Remote, Places, SoulPlaces, SlotPlaces, Kinds
<1>3. /\ record \in CallType /\ record.kind = kind /\ record.soul = call[c].soul
      /\ record.seen = call[c].seen
  BY <1>1, <1>2, StartsAsAct DEF CallType
<1>4. \A s \in Souls : record.seen[s] = Unread
  BY <1>3, StartsAsAct
<1>5. Ask(c, at, record)
  BY <1>1
<1>6. QED
  BY <1>2, <1>3, <1>4, <1>5, StartKeeps DEF SoulPlaces

(* Starting a quip keeps the invariant. *)
LEMMA QuipKeeps ==
    ASSUME SimInv, NEW c \in Calls, NEW s \in Souls, Quip(c, s)
    PROVE  SimInv'
<1>1. PICK record : record = [call[c] EXCEPT !.kind = "quip", !.soul = s, !.day = today]
  OBVIOUS
<1>2. call[c].at = "idle" /\ today \in Days
  BY DEF Quip, SimInv, TypeInv, SimTypeOK
<1>3. record \in CallType /\ record.kind = "quip" /\ record.soul = s /\ record.seen = call[c].seen
  BY <1>1, <1>2, StartsAsAct DEF CallType, Kinds
<1>4. \A z \in Souls : record.seen[z] = Unread
  BY <1>2, <1>3, StartsAsAct
<1>5. Ask(c, "reserve", record) /\ UNCHANGED Tables /\ UNCHANGED past /\ s \in rows
  BY <1>1 DEF Quip, Tables
<1>6. "reserve" \in Remote /\ "reserve" \in Places["quip"] /\ "reserve" \notin SlotPlaces
  BY DEF Remote, Places, SlotPlaces
<1>7. QED
  BY <1>2, <1>3, <1>4, <1>5, <1>6, StartKeeps

(* A save, with what it read of the soul, keeps the invariant. *)
LEMMA SaveKeeps ==
    ASSUME SimInv, NEW c \in Calls, Save(c)
    PROVE  SimInv'
<1>1. call[c].at = "idle" /\ UNCHANGED Tables /\ UNCHANGED past
  BY DEF Save, Tables
<1>2. PICK accepted \in SUBSET Souls, seen \in [Souls -> Nat \cup {Unread, Unknown}],
           at \in {"grant", "upsert"} :
        /\ seen = [s \in Souls |-> IF s \notin accepted THEN Unread
                                   ELSE IF s \in rows THEN wallet[s] ELSE Unknown]
        /\ Ask(c, at, [call[c] EXCEPT !.kind = "save", !.seen = seen])
  <2>1. PICK sent \in SUBSET Souls :
          LET accepted == {s \in sent : s \in rows \/ (s = Own /\ rows = {})}
              seen == [s \in Souls |-> IF s \notin accepted THEN Unread
                                       ELSE IF s \in rows THEN wallet[s] ELSE Unknown]
          IN  Ask(c, IF rows = {} /\ accepted = {} THEN "grant" ELSE "upsert",
                  [call[c] EXCEPT !.kind = "save", !.seen = seen])
    BY DEF Save
  <2>2. PICK accepted : accepted = {s \in sent : s \in rows \/ (s = Own /\ rows = {})}
    OBVIOUS
  <2>3. PICK seen : seen = [s \in Souls |-> IF s \notin accepted THEN Unread
                                            ELSE IF s \in rows THEN wallet[s] ELSE Unknown]
    OBVIOUS
  <2>4. Ask(c, IF rows = {} /\ accepted = {} THEN "grant" ELSE "upsert",
            [call[c] EXCEPT !.kind = "save", !.seen = seen])
    BY <2>1, <2>2, <2>3
  <2>5. PICK at : at = IF rows = {} /\ accepted = {} THEN "grant" ELSE "upsert"
    OBVIOUS
  <2>6. at \in {"grant", "upsert"} /\ accepted \in SUBSET Souls
    BY <2>2, <2>5
  <2>7. Ask(c, at, [call[c] EXCEPT !.kind = "save", !.seen = seen])
    BY <2>4, <2>5
  <2>8. seen \in [Souls -> Nat \cup {Unread, Unknown}]
    BY <2>3 DEF SimInv, TypeInv, SimTypeOK
  <2>9. QED
    BY <2>3, <2>6, <2>7, <2>8
<1>3. PICK record : record = [call[c] EXCEPT !.kind = "save", !.seen = seen]
  OBVIOUS
<1>4. record \in CallType /\ record.kind = "save" /\ record.soul = call[c].soul /\ record.seen = seen
  BY <1>1, <1>3, StartsAsAct DEF CallType, Kinds
<1>5. at \in Remote /\ at \in Places["save"] /\ at \notin SoulPlaces
  BY DEF Remote, Places, SlotPlaces, SoulPlaces
<1>6. \A s \in Souls :
        record.seen[s] = Unread \/ record.seen[s] = IF s \in rows THEN wallet[s] ELSE Unknown
  BY <1>2, <1>4
<1>7. Ask(c, at, record)
  BY <1>2, <1>3
<1>8. QED
  BY <1>1, <1>4, <1>5, <1>6, <1>7, StartKeeps DEF SoulPlaces

(* The request goes on, or gives up.                                       *)
LEMMA GenerateKeeps ==
    ASSUME SimInv, NEW c \in Calls, Generate(c)
    PROVE  SimInv'
<1>1. /\ TypeInv /\ PlacesInv /\ FreshInv /\ call[c].at = "generate" /\ call[c] \in CallType
      /\ UNCHANGED Tables /\ UNCHANGED past
  BY TypesAre DEF SimInv, Generate, Tables
<1>2. PICK at \in IF call[c].kind = "quip" THEN {"charge", "release"} ELSE {"finalize", "abandon"} :
        Ask(c, at, call[c])
  BY DEF Generate
<1>3. call[c].kind \in {"quip", "note"}
  <2>1. "generate" \in Places[call[c].kind] /\ call[c].kind \in Kinds
    BY <1>1 DEF PlacesInv, CallType
  <2>2. QED
    BY <2>1 DEF Places, Kinds
<1>4. at \in Remote /\ at \in Places[call[c].kind] /\ at \in SoulPlaces
  BY <1>3 DEF Remote, Places, SoulPlaces, SlotPlaces
<1>5. Moves(c) /\ call'[c].at = at /\ Same(call'[c], call[c])
  BY <1>1, <1>2, <1>4, AskDoes
<1>6. call[c].soul \in rows /\ \A s \in Souls : call[c].seen[s] = Unread
  BY <1>1, <1>3 DEF PlacesInv, SoulPlaces
<1>7. Turn(c)
  BY <1>1, <1>4, <1>5, <1>6 DEF Turn, Same, Tables, table, Remote, Unread
<1>8. FreshTurn(c)
  <2>1. \A n \in FreshCopies(c)' : n.at = call'[c].at
    BY <1>1, <1>5, AskFresh DEF Remote
  <2>2. QED
    BY <1>1, <1>5, <2>1 DEF FreshTurn
<1>9. OpenTurn(c)
  BY <1>1, <1>5, <1>6 DEF OpenTurn, OpenSaves, Same
<1>10. \A s \in Souls, d \in Days : c \in Slotted(s, d)' => c \in Slotted(s, d)
  BY <1>1, <1>5 DEF Slotted, HasSlot, Same
<1>11. QED
  BY <1>1, <1>3, <1>5, <1>7, <1>8, <1>9, <1>10, ClientKeeps DEF Same, PastKept, TypeInv

(* A timeout keeps the invariant. *)
LEMMA TimesOutKeeps ==
    ASSUME SimInv, NEW c \in Calls, TimesOut(c)
    PROVE  SimInv'
<1>1. /\ TypeInv /\ PlacesInv /\ FreshInv
      /\ Moves(c) /\ Same(call'[c], call[c]) /\ call[c].at \in Remote
      /\ call'[c].at = call[c].at \/ (call'[c].at = "failed" /\ net' = net)
  BY TimesOutDoes DEF SimInv
<1>2. UNCHANGED Tables
  BY DEF TimesOut, Tables
<1>3. PastKept
  BY <1>1 DEF TimesOut, PastKept, TypeInv, PastType
<1>4. call[c].at \in Places[call[c].kind] /\ call[c].kind \in Kinds /\ call[c].at \notin Local
  BY <1>1, TypesAre DEF PlacesInv, CallType, Remote, Local
<1>5. "failed" \in Places[call[c].kind]
  BY <1>4, <1>1 DEF Places, Kinds, Remote
<1>6. Turn(c)
  <2>1. call'[c].at \in Places[call'[c].kind] \ {"idle"}
    BY <1>1, <1>4, <1>5 DEF Same, Local
  <2>2. call'[c].at \in SoulPlaces => call'[c].soul \in rows'
    BY <1>1, <1>2 DEF Same, PlacesInv, SoulPlaces, SlotPlaces, Tables, table
  <2>3. \A s \in Souls : /\ call'[c].kind # "save" => call'[c].seen[s] = Unread
                         /\ call'[c].seen[s] \in Nat => s \in rows'
    BY <1>1, <1>2 DEF Same, PlacesInv, Tables, table
  <2>4. QED
    BY <1>1, <1>2, <2>1, <2>2, <2>3 DEF Turn, Same, Tables, table
<1>7. CASE call'[c].at = call[c].at
  <2>1. \A n \in FreshCopies(c)' : n.at = call'[c].at
    <3>1. ASSUME NEW n \in FreshCopies(c)'
          PROVE  n.at = call'[c].at
      <4>1. CASE n \in net
        <5>1. n \in FreshCopies(c)
          BY <1>3, <4>1 DEF FreshCopies, Copies, PastKept
        <5>2. call[c].at \in {n.at, "failed"}
          BY <1>1, <5>1 DEF FreshInv
        <5>3. QED
          BY <1>4, <1>7, <5>2 DEF Local
      <4>2. QED
        BY <1>1, <4>1 DEF Moves, FreshCopies, Copies
    <3>2. QED
      BY <3>1
  <2>2. FreshTurn(c)
    BY <1>1, <1>3, <2>1 DEF FreshTurn, PastKept
  <2>3. OpenTurn(c)
    <3>1. \A s \in Souls : c \in OpenSaves(s)' => call'[c].seen = call[c].seen /\ c \in OpenSaves(s)
      <4>1. ASSUME NEW s \in Souls, c \in OpenSaves(s)'
            PROVE  c \in OpenSaves(s)
        <5>1. call[c].seen[s] # Unread
          BY <1>1, <4>1 DEF OpenSaves, Same
        <5>2. call[c].kind = "save"
          BY <1>1, <5>1 DEF PlacesInv
        <5>3. call[c].at \in {"grant", "upsert"}
          BY <1>4, <5>2 DEF Places, Local
        <5>4. QED
          BY <5>1, <5>3 DEF OpenSaves
      <4>2. QED
        BY <1>1, <4>1 DEF Same
    <3>2. QED
      BY <1>1, <1>3, <3>1 DEF OpenTurn, PastKept
  <2>4. HasSlot(c)' => HasSlot(c)
    BY <1>1, <1>3, <1>7, <2>1 DEF HasSlot, PastKept, FreshCopies
  <2>5. QED
    BY <1>1, <1>2, <1>3, <1>4, <1>6, <1>7, <2>2, <2>3, <2>4, ClientKeeps DEF Slotted, Same, Local
<1>8. CASE call'[c].at = "failed" /\ net' = net
  <2>1. FreshCopies(c)' = FreshCopies(c)
    BY <1>3, <1>8 DEF FreshCopies, Copies, PastKept
  <2>2. FreshTurn(c)
    BY <1>1, <1>3, <1>8, <2>1 DEF FreshTurn, PastKept
  <2>3. OpenTurn(c)
    BY <1>1, <1>3, <1>8 DEF OpenTurn, PastKept, OpenSaves, Copies, Same
  <2>4. HasSlot(c)' => HasSlot(c)
    BY <1>8, <2>1 DEF HasSlot, SlotPlaces
  <2>5. QED
    BY <1>1, <1>2, <1>3, <1>6, <1>8, <2>2, <2>3, <2>4, ClientKeeps DEF Slotted, Same
<1>9. QED
  BY <1>1, <1>7, <1>8

(* A poll keeps the invariant. *)
LEMMA PolledKeeps ==
    ASSUME SimInv, NEW c \in Calls, Polled(c)
    PROVE  SimInv'
<1>1. /\ TypeInv /\ PlacesInv /\ FreshInv /\ IntentsInv
      /\ Moves(c) /\ Same(call'[c], call[c]) /\ call[c].at = "polling"
      /\ call'[c].at = "done" /\ net' = net
      /\ UNCHANGED Tables /\ UNCHANGED past
  BY PolledDoes DEF SimInv, Polled, Tables
<1>2. call[c].kind = "act" /\ call[c] \in CallType
  <2>1. "polling" \in Places[call[c].kind] /\ call[c].kind \in Kinds /\ call[c] \in CallType
    BY <1>1, TypesAre DEF PlacesInv, CallType
  <2>2. QED
    BY <2>1 DEF Places, Kinds
<1>3. FreshCopies(c)' = {}
  <2>1. FreshCopies(c) = {}
    BY <1>1, NoFresh DEF Remote
  <2>2. QED
    BY <1>1, <2>1 DEF FreshCopies, Copies
<1>4. FreshTurn(c)
  BY <1>1, <1>3 DEF FreshTurn
<1>5. Turn(c)
  BY <1>1, <1>2 DEF Turn, Same, PlacesInv, Tables, table, SoulPlaces, SlotPlaces, Places
<1>6. OpenTurn(c) /\ ~HasSlot(c)'
  BY <1>1, <1>2, <1>3 DEF OpenTurn, OpenSaves, PlacesInv, Same, HasSlot, SlotPlaces
<1>7. Events(c) # {}
  <2>1. <<c, 1>> \in intents
    BY <1>1, <1>2 DEF IntentsInv
  <2>2. <<c, 1>> \in Events(c)
    BY <2>1 DEF Events
  <2>3. QED
    BY <2>2
<1>8. QED
  BY <1>1, <1>2, <1>4, <1>5, <1>6, <1>7, ClientKeeps DEF Slotted, PastKept, TypeInv

(* A retry of a failed act keeps the invariant. *)
LEMMA ResendKeeps ==
    ASSUME SimInv, NEW c \in Calls, Resend(c)
    PROVE  SimInv'
<1>1. /\ TypeInv /\ PlacesInv /\ FreshInv /\ IntentsInv
      /\ Moves(c) /\ Same(call'[c], call[c]) /\ call[c].kind = "act" /\ call[c].at = "failed"
      /\ \/ call'[c].at = "done" /\ Events(c) # {} /\ net' = net
         \/ call'[c].at = "submit"
      /\ UNCHANGED Tables /\ UNCHANGED past
  BY ResendDoes DEF SimInv, Resend, Tables
<1>2. \A n \in Copies(c)' : n.at = "submit"
  <2>1. ASSUME NEW n \in Copies(c)'
        PROVE  n.at = "submit"
    <3>1. CASE n \in net
      <4>1. n.at \in Places["act"] /\ n.at \in Remote
        BY <1>1, <3>1, TypesAre DEF Copies, PlacesInv
      <4>2. QED
        BY <4>1 DEF Places, Remote
    <3>2. QED
      BY <1>1, <3>1 DEF Moves, Copies
  <2>2. QED
    BY <2>1
<1>3. FreshTurn(c)
  <2>1. CASE call'[c].at = "done" /\ Events(c) # {} /\ net' = net
    <3>1. <<c, "submit">> \in past.executed
      BY <1>1, <2>1 DEF IntentsInv
    <3>2. FreshCopies(c)' = {}
      BY <1>1, <1>2, <3>1 DEF FreshCopies
    <3>3. QED
      BY <1>1, <3>2 DEF FreshTurn
  <2>2. CASE call'[c].at = "submit"
    BY <1>1, <1>2, <2>2 DEF FreshTurn, FreshCopies
  <2>3. QED
    BY <1>1, <2>1, <2>2
<1>4. Turn(c)
  BY <1>1 DEF Turn, Same, PlacesInv, Tables, table, SoulPlaces, SlotPlaces, Places
<1>5. OpenTurn(c) /\ ~HasSlot(c)'
  BY <1>1, <1>2 DEF OpenTurn, OpenSaves, PlacesInv, Same, HasSlot, FreshCopies, SlotPlaces
<1>6. QED
  BY <1>1, <1>3, <1>4, <1>5, ClientKeeps DEF Slotted, PastKept, TypeInv

-----------------------------------------------------------------------------
(* Commands.  What a reply does to its request.                            *)
RunPast(m) ==
    /\ past' \in PastType
    /\ past'.executed = past.executed \cup {<<m.call, m.at>>}
    /\ past'.twice = (past.twice \/ <<m.call, m.at>> \in past.executed)
    /\ past.raced \subseteq past'.raced

(* What the reply may make of the request.                                 *)
Becomes(m, next) ==
    /\ next \in CallType
    /\ next.kind = call[m.call].kind /\ next.seen = call[m.call].seen
    /\ next.at \in Places[next.kind] \ {"idle"}
    /\ next.soul = call[m.call].soul \/ next.soul \in rows'
    /\ next.at \in SoulPlaces => next.soul \in rows'

(* A reply is an answer, taken or come to nothing. *)
LEMMA RepliedAnswers ==
    ASSUME SimInv, NEW m \in net, RunPast(m), NEW next, Replied(m, next), Becomes(m, next)
    PROVE  /\ Answers(m)
           /\ \/ Unanswered(m) /\ call'[m.call] = call[m.call]
              \/ Answered(m) /\ call'[m.call] = next
<1>1. PICK c \in Calls : c = m.call
  BY TypesAre DEF SimInv
<1>2. next \in CallType
  BY DEF Becomes
<1>3. /\ Moves(c) /\ net' \subseteq net
      /\ \/ call'[c] = call[c]
         \/ call'[c] = next /\ call[c].at = m.at
  BY <1>1, <1>2, RepliedDoes DEF SimInv
<1>4. QED
  BY <1>1, <1>3 DEF Answers, Ran, RunPast, Unanswered, Answered, Becomes

(* A reply with which the call goes on is an answer. *)
LEMMA GoesAnswers ==
    ASSUME SimInv, NEW m \in net, RunPast(m), NEW at \in Local \ {"idle"},
           Replied(m, Goes(m.call, at)), rows \subseteq rows',
           at \in Places[call[m.call].kind], at \in SoulPlaces => call[m.call].soul \in rows
    PROVE  /\ Answers(m)
           /\ call'[m.call].soul = call[m.call].soul /\ call'[m.call].day = call[m.call].day
           /\ Unanswered(m) \/ (Answered(m) /\ call'[m.call].at = at)
<1>1. PICK c \in Calls : c = m.call
  BY TypesAre DEF SimInv
<1>2. PICK next : next = Goes(c, at)
  OBVIOUS
<1>3. next \in CallType /\ next.at = at /\ Same(next, call[c])
  BY <1>2, GoesIs DEF SimInv
<1>4. Replied(m, next)
  BY <1>1, <1>2
<1>5. Becomes(m, next)
  BY <1>1, <1>3 DEF Becomes, Same
<1>6. QED
  BY <1>1, <1>3, <1>4, <1>5, RepliedAnswers DEF Same

(* A reply with which the call asks again is an answer. *)
LEMMA AskingAnswers ==
    ASSUME SimInv, NEW m \in net, RunPast(m), NEW at \in Remote,
           RepliedAsking(m, at), rows \subseteq rows',
           at \in Places[call[m.call].kind], at \in SoulPlaces => call[m.call].soul \in rows
    PROVE  /\ Answers(m)
           /\ call'[m.call].soul = call[m.call].soul /\ call'[m.call].day = call[m.call].day
           /\ Unanswered(m) \/ (Answered(m) /\ call'[m.call].at = at)
<1>1. PICK c \in Calls : c = m.call
  BY TypesAre DEF SimInv
<1>2. /\ Moves(c) /\ Same(call'[c], call[c])
      /\ \/ call'[c] = call[c] /\ net' \subseteq net
         \/ call'[c].at = at /\ call[c].at = m.at
  BY <1>1, RepliedAskingDoes DEF SimInv
<1>3. at # "idle"
  BY DEF Remote
<1>4. QED
  BY <1>1, <1>2, <1>3 DEF Answers, Ran, RunPast, Unanswered, Answered, Same

(* A command that answers and writes only its own rows keeps the invariant. *)
LEMMA RunKeeps ==
    ASSUME SimInv, NEW m \in net, Answers(m), RunPast(m), m.at # "submit",
           intents \subseteq intents', \A i \in intents' : i \in intents \/ i[1] = m.call,
           past'.granted = past.granted, UNCHANGED <<table, today, up>>,
           wallet' \in [Souls -> Nat], ledger' \in [Souls -> Int],
           slots' \in [Souls -> [Days -> Nat]], intents' \subseteq Calls \X Nat, IsFiniteSet(intents'),
           \A s \in Souls : WalletKept(s) \/ WalletWritten(s),
           ~past'.twice => \A s \in Souls, d \in Days :
             SlotKept(m.call, s, d) \/ SlotTaken(s, d) \/ SlotPaid(m.call, s, d)
             \/ SlotFreed(m.call, s, d)
    PROVE  SimInv'
<1>1. PICK c \in Calls : c = m.call
  BY TypesAre DEF SimInv
<1>2. TypeInv /\ PlacesInv /\ FreshInv /\ WalletsInv
  BY DEF SimInv
<1>3. rows \subseteq rows' /\ GrantTurn
  BY DEF table, GrantTurn
<1>4. Turn(c) /\ FreshTurn(c) /\ IntentTurn(c) /\ OpenTurn(c)
  BY <1>1, <1>2, <1>3, AnswersTurns, AnswersIntents, AnswersOpens DEF RunPast
<1>5. Moves(c)
  BY <1>4 DEF Turn
<1>6. SlotTurn(c)
  BY <1>1, <1>5 DEF SlotTurn, RunPast
<1>7. TypeInv'
  BY <1>2, <1>5, TurnTypes DEF TypeInv, SimTypeOK, table, RunPast
<1>8. WalletsInv'
  BY <1>2, <1>4, WalletsTurnKeeps
<1>9. QED
  BY <1>4, <1>6, <1>7, <1>8, GoodKeeps DEF Good

(* A command executed is recorded as executed; grants, quips and races are
   not touched. *)
LEMMA ExecutedRuns ==
    ASSUME SimInv, NEW m \in net, Executed(m)
    PROVE  /\ RunPast(m) /\ past'.granted = past.granted /\ past'.quipped = past.quipped
           /\ past'.raced = past.raced
<1>1. past \in PastType /\ <<m.call, m.at>> \in Calls \X Remote
  BY TypesAre DEF SimInv, TypeInv
<1>2. QED
  BY <1>1 DEF Executed, RunPast, PastType

(* A command of a quip: whose it is, and where its slot is.                *)
LEMMA CopyIs ==
    ASSUME SimInv, NEW m \in net
    PROVE  /\ m.call \in Calls /\ call[m.call] \in CallType /\ m.at \in Remote
           /\ call[m.call].kind \in Kinds /\ m.at \in Places[call[m.call].kind]
           /\ call[m.call].day \in Days
           /\ m.at \in SoulPlaces => call[m.call].soul \in rows /\ call[m.call].soul \in Souls
<1>1. /\ m.call \in Calls /\ call[m.call] \in CallType /\ m.at \in Remote
      /\ m.at \in Places[call[m.call].kind]
  BY TypesAre DEF SimInv, PlacesInv
<1>2. m.at \in SoulPlaces => call[m.call].soul \in rows
  <2>1. m \in Copies(m.call)
    BY DEF Copies
  <2>2. QED
    BY <1>1, <2>1 DEF SimInv, PlacesInv
<1>3. rows \subseteq Souls
  BY DEF SimInv, TypeInv, SimTypeOK
<1>4. QED
  BY <1>1, <1>2, <1>3 DEF CallType

(* A step that leaves wallets and ledger keeps every wallet. *)
LEMMA AllWalletsKept ==
    ASSUME UNCHANGED <<table, wallet, ledger>>
    PROVE  \A s \in Souls : WalletKept(s)
BY DEF WalletKept, table

(* The request has no slot after the answer.                               *)
Ends(m) == Unanswered(m) \/ call'[m.call].at \notin SlotPlaces \cup {"generate"}

(* A command that ends its call leaves it no slot. *)
LEMMA EndsSlots ==
    ASSUME SimInv, NEW m \in net, Answers(m), ~past'.twice, Ends(m)
    PROVE  /\ \A s, d : m.call \notin Slotted(s, d)'
           /\ m.at \in SlotPlaces => m.call \in Slotted(call[m.call].soul, call[m.call].day)
<1>1. PICK c \in Calls : c = m.call
  BY CopyIs
<1>2. m.at \in SlotPlaces => HasSlot(c)
  BY <1>1, AnswersSlots DEF SimInv
<1>3. ~HasSlot(c)'
  <2>1. CASE Unanswered(m)
    <3>1. <<c, m.at>> \notin past.executed
      BY <1>1, AnswersSlots DEF SimInv
    <3>2. QED
      BY <1>1, <2>1, <3>1, UnansweredFresh DEF SimInv, Answers
  <2>2. CASE call'[c].at \notin SlotPlaces \cup {"generate"}
    BY <1>1, <2>2, AnswersSlots DEF SimInv
  <2>3. QED
    BY <1>1, <2>1, <2>2 DEF Ends
<1>4. QED
  BY <1>1, <1>2, <1>3 DEF Slotted

(* A command that writes no slot and no wallet.                            *)
LEMMA QuietKeeps ==
    ASSUME SimInv, NEW m \in net, Answers(m), RunPast(m), Ends(m), m.at # "submit",
           past'.granted = past.granted, past'.quipped = past.quipped,
           UNCHANGED <<table, wallet, ledger, slots, today, up>>,
           intents \subseteq intents', \A i \in intents' : i \in intents \/ i[1] = m.call,
           intents' \subseteq Calls \X Nat, IsFiniteSet(intents')
    PROVE  SimInv'
<1>1. ~past'.twice => \A s \in Souls, d \in Days : SlotKept(m.call, s, d)
  BY EndsSlots DEF SlotKept
<1>2. /\ wallet' \in [Souls -> Nat] /\ ledger' \in [Souls -> Int]
      /\ slots' \in [Souls -> [Days -> Nat]]
  BY DEF SimInv, TypeInv, SimTypeOK
<1>3. \A s \in Souls : WalletKept(s)
  BY AllWalletsKept
<1>4. QED
  BY <1>1, <1>2, <1>3, RunKeeps

(* Reserving a slot of the day's budget keeps the invariant. *)
LEMMA ReserveKeeps ==
    ASSUME SimInv, NEW m \in net, Reserve(m)
    PROVE  SimInv'
<1>1. PICK c \in Calls, s \in Souls, d \in Days :
        c = m.call /\ s = call[c].soul /\ d = call[c].day /\ s \in rows
  BY CopyIs DEF Reserve, SoulPlaces
<1>2. call[c].kind = "quip"
  BY <1>1, CopyIs DEF Reserve, Places, Kinds
<1>3. /\ RunPast(m) /\ past'.granted = past.granted /\ past'.quipped = past.quipped
      /\ UNCHANGED <<table, wallet, ledger, intents, today, up>> /\ m.at = "reserve"
  BY ExecutedRuns DEF Reserve
<1>4. TypeInv /\ PlacesInv /\ FreshInv /\ slots \in [Souls -> [Days -> Nat]]
  BY DEF SimInv, TypeInv, SimTypeOK
<1>5. CASE Take(s, d) /\ Replied(m, Goes(c, "generate"))
  <2>1. /\ Answers(m) /\ call'[c].soul = s /\ call'[c].day = d
    <3>1. "generate" \in Local \ {"idle"} /\ "generate" \in Places["quip"]
      BY DEF Local, Places
    <3>2. QED
      BY <1>1, <1>2, <1>3, <1>5, <3>1, GoesAnswers DEF table
  <2>2. slots' = [slots EXCEPT ![s][d] = @ + 1]
    BY <1>5 DEF Take
  <2>3. slots' \in [Souls -> [Days -> Nat]] /\ slots'[s][d] = slots[s][d] + 1
        /\ \A z \in Souls, e \in Days : z # s \/ e # d => slots'[z][e] = slots[z][e]
    BY <1>4, <2>2
  <2>4. SlotTaken(s, d)
    BY <1>3, <2>3 DEF SlotTaken
  <2>5. \A z \in Souls, e \in Days : z # s \/ e # d => SlotKept(c, z, e)
    BY <1>1, <1>3, <2>1, <2>3 DEF SlotKept, Slotted
  <2>6. QED
    BY <1>1, <1>3, <1>4, <2>1, <2>3, <2>4, <2>5, AllWalletsKept, RunKeeps DEF SimInv, TypeInv, SimTypeOK
<1>6. CASE UNCHANGED slots /\ Replied(m, Goes(c, "failed"))
  <2>1. Answers(m) /\ (Unanswered(m) \/ call'[c].at = "failed")
    <3>1. "failed" \in Local \ {"idle"} /\ "failed" \in Places["quip"] /\ "failed" \notin SoulPlaces
      BY DEF Local, Places, SoulPlaces, SlotPlaces
    <3>2. QED
      BY <1>1, <1>2, <1>3, <1>6, <3>1, GoesAnswers DEF table
  <2>2. Ends(m)
    BY <1>1, <2>1 DEF Ends, SlotPlaces
  <2>3. intents' = intents /\ intents \subseteq Calls \X Nat /\ IsFiniteSet(intents)
    BY <1>3, <1>4 DEF TypeInv, SimTypeOK
  <2>4. UNCHANGED <<table, wallet, ledger, slots, today, up>>
    BY <1>3, <1>6
  <2>5. QED
    BY <1>1, <1>3, <2>1, <2>2, <2>3, <2>4, QuietKeeps
<1>7. QED
  BY <1>1, <1>5, <1>6 DEF Reserve

(* A slot is given back.                                                   *)
LEMMA FreedKeeps ==
    ASSUME SimInv, NEW m \in net, m.at \in SlotPlaces, Executed(m),
           Freed(call[m.call].soul, call[m.call].day),
           NEW at \in {"done", "failed"}, Replied(m, Goes(m.call, at)),
           UNCHANGED <<table, wallet, ledger, intents, today, up>>
    PROVE  SimInv'
<1>1. PICK c \in Calls, s \in Souls, d \in Days :
        c = m.call /\ s = call[c].soul /\ d = call[c].day
  BY CopyIs DEF SoulPlaces
<1>2. /\ RunPast(m) /\ past'.granted = past.granted /\ past'.quipped = past.quipped
  BY ExecutedRuns
<1>3. slots \in [Souls -> [Days -> Nat]] /\ intents \subseteq Calls \X Nat /\ IsFiniteSet(intents)
      /\ wallet \in [Souls -> Nat] /\ ledger \in [Souls -> Int]
  BY DEF SimInv, TypeInv, SimTypeOK
<1>4. Answers(m) /\ Ends(m)
  <2>1. at \in Local \ {"idle"} /\ at \in Places[call[c].kind] /\ at \notin SoulPlaces
    BY <1>1, CopyIs DEF Local, Places, SoulPlaces, SlotPlaces, Kinds
  <2>2. QED
    BY <1>1, <1>2, <2>1, GoesAnswers DEF table, Ends, SoulPlaces
<1>5. slots' = [slots EXCEPT ![s][d] = IF @ > 0 THEN @ - 1 ELSE 0]
  BY <1>1 DEF Freed
<1>6. /\ slots' \in [Souls -> [Days -> Nat]]
      /\ slots'[s][d] = IF slots[s][d] > 0 THEN slots[s][d] - 1 ELSE 0
      /\ \A z \in Souls, e \in Days : z # s \/ e # d => slots'[z][e] = slots[z][e]
  <2>1. PICK n \in Nat : n = IF slots[s][d] > 0 THEN slots[s][d] - 1 ELSE 0
    BY <1>3
  <2>2. slots' = [slots EXCEPT ![s][d] = n]
    BY <1>5, <2>1
  <2>3. QED
    BY <1>3, <2>1, <2>2
<1>7. ASSUME ~past'.twice, NEW z \in Souls, NEW e \in Days
      PROVE  SlotKept(c, z, e) \/ SlotFreed(c, z, e)
  BY <1>1, <1>2, <1>4, <1>6, <1>7, EndsSlots DEF SlotKept, SlotFreed, SlotLeft
<1>8. m.at # "submit"
  BY DEF SlotPlaces
<1>9. QED
  BY <1>1, <1>2, <1>3, <1>4, <1>6, <1>7, <1>8, AllWalletsKept, RunKeeps

(* Releasing the slot keeps the invariant. *)
LEMMA ReleaseKeeps ==
    ASSUME SimInv, NEW m \in net, Release(m)
    PROVE  SimInv'
BY FreedKeeps DEF Release, SlotPlaces

(* A quip is charged.                                                      *)
LEMMA PaidKeeps ==
    ASSUME SimInv, NEW m \in net, m.at \in SlotPlaces, Paid(m)
    PROVE  SimInv'
<1>1. PICK c \in Calls, s \in Souls, d \in Days :
        c = m.call /\ s = call[c].soul /\ d = call[c].day /\ s \in rows
  BY CopyIs DEF SoulPlaces
<1>2. /\ slots \in [Souls -> [Days -> Nat]] /\ intents \subseteq Calls \X Nat /\ IsFiniteSet(intents)
      /\ wallet \in [Souls -> Nat] /\ ledger \in [Souls -> Int] /\ past \in PastType
      /\ Price \in Nat
  BY SimCommandsConstants DEF SimInv, TypeInv, SimTypeOK
<1>3. /\ wallet[s] >= Price /\ Replied(m, Goes(c, "done"))
      /\ wallet' = [wallet EXCEPT ![s] = @ - Price]
      /\ ledger' = [ledger EXCEPT ![s] = @ - Price]
      /\ UNCHANGED <<table, slots, intents, today, up>>
  BY <1>1 DEF Paid, PayQuip, Payable
<1>4. PICK quipped : quipped = [past.quipped EXCEPT ![s][d] = @ + 1]
  OBVIOUS
<1>5. PICK executed, twice, raced :
        /\ executed = past.executed \cup {<<c, m.at>>}
        /\ twice = (past.twice \/ <<c, m.at>> \in past.executed)
        /\ raced = past.raced \cup Racing({s})
  OBVIOUS
<1>6. past' = [past EXCEPT !.executed = executed, !.twice = twice, !.quipped = quipped,
                           !.raced = raced]
  BY <1>1, <1>2, <1>4, <1>5 DEF Paid, PastType
<1>7. /\ quipped \in [Souls -> [Days -> Nat]] /\ quipped[s][d] = past.quipped[s][d] + 1
      /\ \A z \in Souls, e \in Days : z # s \/ e # d => quipped[z][e] = past.quipped[z][e]
  BY <1>2, <1>4 DEF PastType
<1>8. executed \in SUBSET (Calls \X Remote) /\ twice \in BOOLEAN /\ raced \in SUBSET Souls
  BY <1>1, <1>2, <1>5, CopyIs DEF PastType, Racing
<1>9. /\ past' \in PastType /\ past'.executed = executed /\ past'.twice = twice
      /\ past'.quipped = quipped /\ past'.raced = raced /\ past'.granted = past.granted
  BY <1>2, <1>6, <1>7, <1>8 DEF PastType
<1>10. RunPast(m)
  BY <1>1, <1>5, <1>9 DEF RunPast
<1>11. Answers(m) /\ Ends(m)
  <2>1. /\ "done" \in Local \ {"idle"} /\ "done" \in Places[call[c].kind]
        /\ "done" \notin SoulPlaces
    BY <1>1, CopyIs DEF Local, Places, SoulPlaces, SlotPlaces, Kinds
  <2>2. QED
    BY <1>1, <1>3, <1>10, <2>1, GoesAnswers DEF table, Ends, SoulPlaces
<1>12. ASSUME ~past'.twice, NEW z \in Souls, NEW e \in Days
       PROVE  SlotKept(c, z, e) \/ SlotPaid(c, z, e)
  BY <1>1, <1>3, <1>7, <1>9, <1>11, <1>12, EndsSlots DEF SlotKept, SlotPaid, SlotLeft
<1>13. /\ wallet' \in [Souls -> Nat] /\ ledger' \in [Souls -> Int]
       /\ wallet'[s] = wallet[s] - Price /\ ledger'[s] = ledger[s] - Price
       /\ \A z \in Souls \ {s} : wallet'[z] = wallet[z] /\ ledger'[z] = ledger[z]
  BY <1>2, <1>3
<1>14. ASSUME NEW z \in Souls
       PROVE  WalletKept(z) \/ WalletWritten(z)
  <2>1. CASE z # s
    BY <1>3, <1>13, <2>1 DEF WalletKept, table
  <2>2. CASE z = s
    <3>1. s \notin past'.raced => OpenSaves(s) = {}
      BY <1>5, <1>9 DEF Racing
    <3>2. OpenSaves(s)' \subseteq OpenSaves(s)
      BY <1>11, AnswersOpenNone DEF SimInv
    <3>3. QED
      BY <1>1, <1>3, <1>13, <2>2, <3>1, <3>2 DEF WalletWritten, table
  <2>3. QED
    BY <2>1, <2>2
<1>15. m.at # "submit"
  BY DEF SlotPlaces
<1>16. QED
  BY <1>1, <1>2, <1>3, <1>9, <1>10, <1>11, <1>12, <1>13, <1>14, <1>15, RunKeeps

(* Charging a soul keeps the invariant. *)
LEMMA ChargeKeeps ==
    ASSUME SimInv, NEW m \in net, Charge(m)
    PROVE  SimInv'
<1>1. m.at = "charge" /\ m.at \in SlotPlaces
  BY DEF Charge, SlotPlaces
<1>2. CASE Paid(m)
  BY <1>1, <1>2, PaidKeeps
<1>3. CASE Executed(m) /\ RepliedAsking(m, "release")
           /\ UNCHANGED <<table, wallet, ledger, slots, intents, today, up>>
  <2>1. PICK c \in Calls : c = m.call /\ call[c].kind = "quip" /\ call[c].soul \in rows
    BY <1>1, CopyIs DEF Places, Kinds, SoulPlaces
  <2>2. RunPast(m) /\ past'.granted = past.granted /\ past'.quipped = past.quipped
    BY <1>3, ExecutedRuns
  <2>3. /\ Answers(m) /\ call'[c].soul = call[c].soul /\ call'[c].day = call[c].day
    <3>1. "release" \in Remote /\ "release" \in Places["quip"]
      BY DEF Remote, Places
    <3>2. QED
      BY <1>3, <2>1, <2>2, <3>1, AskingAnswers DEF table
  <2>4. /\ slots \in [Souls -> [Days -> Nat]] /\ intents \subseteq Calls \X Nat /\ IsFiniteSet(intents)
        /\ wallet \in [Souls -> Nat] /\ ledger \in [Souls -> Int]
    BY DEF SimInv, TypeInv, SimTypeOK
  <2>5. ~past'.twice => HasSlot(c)
    BY <1>1, <2>1, <2>3, AnswersSlots DEF SimInv
  <2>6. \A z \in Souls, e \in Days : ~past'.twice => SlotKept(c, z, e)
    BY <1>3, <2>2, <2>3, <2>5 DEF SlotKept, Slotted
  <2>7. QED
    BY <1>1, <1>3, <2>1, <2>2, <2>3, <2>4, <2>6, AllWalletsKept, RunKeeps
<1>4. QED
  BY <1>2, <1>3 DEF Charge

(* Finalizing a quip keeps the invariant. *)
LEMMA FinalizeKeeps ==
    ASSUME SimInv, NEW m \in net, Finalize(m)
    PROVE  SimInv'
<1>1. m.at \in SlotPlaces
  BY DEF Finalize, SlotPlaces
<1>2. QED
  BY <1>1, PaidKeeps, FreedKeeps DEF Finalize

(* An event is taken in.                                                   *)
LEMMA IngestKeeps ==
    ASSUME SimInv, NEW m \in net, Ingest(m)
    PROVE  SimInv'
<1>1. PICK c \in Calls : c = m.call /\ call[c].kind = "note" /\ call[c] \in CallType
  BY CopyIs DEF Ingest, Places, Kinds
<1>2. /\ RunPast(m) /\ past'.granted = past.granted /\ past'.quipped = past.quipped
      /\ UNCHANGED <<table, wallet, ledger, today, up>> /\ m.at = "ingest"
  BY ExecutedRuns DEF Ingest
<1>3. /\ slots \in [Souls -> [Days -> Nat]] /\ intents \subseteq Calls \X Nat /\ IsFiniteSet(intents) /\ today \in Days
      /\ rows \subseteq Souls /\ (rows # {} => first \in rows)
      /\ wallet \in [Souls -> Nat] /\ ledger \in [Souls -> Int]
  BY DEF SimInv, TypeInv, SimTypeOK
<1>4. /\ intents \subseteq intents' /\ intents' \subseteq Calls \X Nat /\ IsFiniteSet(intents')
      /\ \A i \in intents' : i \in intents \/ i[1] = c
  <2>1. PICK event : event = <<c, Cardinality(Events(c)) + 1>>
    OBVIOUS
  <2>2. intents' = intents \/ intents' = intents \cup {event}
    BY <1>1, <2>1 DEF Ingest
  <2>3. IsFiniteSet(Events(c))
    BY <1>3, FS_Subset DEF Events
  <2>4. event \in Calls \X Nat /\ event[1] = c
    BY <2>1, <2>3, FS_CardinalityType
  <2>5. IsFiniteSet(intents')
    <3>1. IsFiniteSet(intents \cup {event})
      BY <1>3, FS_AddElement
    <3>2. QED
      BY <1>3, <2>2, <3>1
  <2>6. QED
    BY <1>3, <2>2, <2>4, <2>5
<1>5. ASSUME NEW at \in {"done", "failed"}, Replied(m, Goes(c, at)), UNCHANGED slots
      PROVE  SimInv'
  <2>1. Answers(m) /\ Ends(m)
    <3>1. at \in Local \ {"idle"} /\ at \in Places["note"] /\ at \notin SoulPlaces
      BY DEF Local, Places, SoulPlaces, SlotPlaces
    <3>2. QED
      BY <1>1, <1>2, <1>5, <3>1, GoesAnswers DEF table, Ends, SoulPlaces
  <2>2. UNCHANGED <<table, wallet, ledger, slots, today, up>>
    BY <1>2, <1>5
  <2>3. QED
    BY <1>1, <1>2, <1>4, <2>1, <2>2, QuietKeeps
<1>6. ASSUME rows # {}, Take(first, today),
             Replied(m, [[call[c] EXCEPT !.soul = first, !.day = today] EXCEPT !.at = "generate"])
      PROVE  SimInv'
  <2>1. PICK s \in Souls, d \in Days : s = first /\ d = today /\ s \in rows
    BY <1>3, <1>6
  <2>2. PICK kept : kept = [call[c] EXCEPT !.soul = s, !.day = d]
    OBVIOUS
  <2>3. kept \in CallType /\ kept.soul = s /\ kept.day = d /\ kept.kind = "note"
        /\ kept.seen = call[c].seen
    BY <1>1, <2>2 DEF CallType
  <2>4. PICK next : next = [kept EXCEPT !.at = "generate"]
    OBVIOUS
  <2>5. next \in CallType /\ next.soul = s /\ next.day = d /\ next.kind = "note"
        /\ next.seen = call[c].seen /\ next.at = "generate"
    BY <2>3, <2>4 DEF CallType, Local
  <2>6. Replied(m, next)
    BY <1>6, <2>1, <2>2, <2>4
  <2>7. Becomes(m, next)
    BY <1>1, <1>2, <2>1, <2>5 DEF Becomes, Places, table
  <2>8. Answers(m) /\ (Unanswered(m) \/ call'[c] = next)
    BY <1>1, <1>2, <2>6, <2>7, RepliedAnswers
  <2>9. slots' = [slots EXCEPT ![s][d] = @ + 1]
    BY <1>6, <2>1 DEF Take
  <2>10. slots' \in [Souls -> [Days -> Nat]] /\ slots'[s][d] = slots[s][d] + 1
         /\ \A z \in Souls, e \in Days : z # s \/ e # d => slots'[z][e] = slots[z][e]
    BY <1>3, <2>9
  <2>11. SlotTaken(s, d)
    BY <1>2, <2>10 DEF SlotTaken
  <2>12. ASSUME ~past'.twice, NEW z \in Souls, NEW e \in Days, z # s \/ e # d
         PROVE  SlotKept(c, z, e)
    <3>1. c \notin Slotted(z, e)'
      <4>1. CASE Unanswered(m)
        BY <1>1, <2>8, <2>12, <4>1, EndsSlots DEF Ends
      <4>2. CASE call'[c] = next
        BY <2>5, <2>12, <4>2 DEF Slotted
      <4>3. QED
        BY <2>8, <4>1, <4>2
    <3>2. QED
      BY <1>2, <2>10, <2>12, <3>1 DEF SlotKept
  <2>13. QED
    BY <1>1, <1>2, <1>3, <1>4, <2>8, <2>10, <2>11, <2>12, AllWalletsKept, RunKeeps
<1>7. QED
  BY <1>1, <1>5, <1>6 DEF Ingest

(* A command that leaves no slot with the request and takes none.          *)
LEMMA EndsKeeps ==
    ASSUME SimInv, NEW m \in net, Answers(m), RunPast(m), Ends(m), IntentTurn(m.call),
           past'.quipped = past.quipped, slots' = slots, rows \subseteq rows',
           TypeInv', WalletsInv'
    PROVE  SimInv'
<1>1. PICK c \in Calls : c = m.call
  BY CopyIs
<1>2. Turn(c) /\ FreshTurn(c)
  BY <1>1, AnswersTurns DEF SimInv
<1>3. ~past'.twice => \A s \in Souls, d \in Days : SlotKept(c, s, d)
  BY <1>1, EndsSlots DEF SlotKept
<1>4. SlotTurn(c)
  BY <1>2, <1>3 DEF SlotTurn, RunPast, Turn
<1>5. QED
  BY <1>1, <1>2, <1>4, GoodKeeps DEF Good

(* Submitting an intent, new or known, keeps the invariant. *)
LEMMA SubmitKeeps ==
    ASSUME SimInv, NEW m \in net, Submit(m)
    PROVE  SimInv'
<1>1. PICK c \in Calls : c = m.call /\ call[c].kind = "act"
  BY CopyIs DEF Submit, Places, Kinds
<1>2. /\ RunPast(m) /\ past'.granted = past.granted /\ past'.quipped = past.quipped
      /\ UNCHANGED <<table, wallet, ledger, slots, today, up>> /\ m.at = "submit"
  BY ExecutedRuns DEF Submit
<1>3. intents' = intents \cup {<<c, 1>>} /\ Replied(m, Goes(c, "polling"))
  BY <1>1 DEF Submit, Numbered
<1>4. Answers(m) /\ Ends(m)
  <2>1. /\ "polling" \in Local \ {"idle"} /\ "polling" \in Places["act"]
        /\ "polling" \notin SoulPlaces
    BY DEF Local, Places, SoulPlaces, SlotPlaces
  <2>2. QED
    BY <1>1, <1>2, <1>3, <2>1, GoesAnswers DEF table, Ends, SoulPlaces
<1>5. /\ TypeInv /\ PlacesInv /\ FreshInv /\ IntentsInv /\ WalletsInv
  BY DEF SimInv
<1>6. Moves(c) /\ rows' = rows
  BY <1>1, <1>2, <1>4 DEF Answers, Ran, table
<1>7. intents' \subseteq Calls \X Nat /\ IsFiniteSet(intents')
  <2>1. PICK event \in Calls \X Nat : event = <<c, 1>>
    OBVIOUS
  <2>2. intents \subseteq Calls \X Nat /\ IsFiniteSet(intents) /\ intents' = intents \cup {event}
    BY <1>3, <1>5, <2>1 DEF TypeInv, SimTypeOK
  <2>3. QED
    BY <2>2, FS_AddElement
<1>8. TypeInv'
  BY <1>2, <1>5, <1>6, <1>7, TurnTypes DEF TypeInv, SimTypeOK, table, RunPast
<1>9. IntentTurn(c)
  <2>1. Events(c) \subseteq {<<c, 1>>}
    BY <1>1, <1>5 DEF IntentsInv
  <2>2. Events(c)' \subseteq {<<c, 1>>}
    BY <1>3, <2>1 DEF Events
  <2>3. call'[c].at # "idle"
    BY <1>1, <1>4, <1>5 DEF Answers, PlacesInv
  <2>4. \A i \in intents' : i \in intents \/ i[1] = c
    BY <1>3
  <2>5. <<c, "submit">> \in past'.executed /\ past.executed \subseteq past'.executed
    BY <1>1, <1>2 DEF RunPast
  <2>6. QED
    BY <1>2, <1>3, <1>6, <2>2, <2>3, <2>4, <2>5 DEF IntentTurn, GrantTurn
<1>10. WalletsInv'
  BY <1>1, <1>2, <1>4, <1>5, AllWalletsKept, AnswersOpens, WalletsTurnKeeps DEF RunPast
<1>11. QED
  BY <1>1, <1>2, <1>4, <1>6, <1>8, <1>9, <1>10, EndsKeeps

(* grant_free_soul.                                                        *)
LEMMA GrantKeeps ==
    ASSUME SimInv, NEW m \in net, Grant(m)
    PROVE  SimInv'
<1>1. PICK c \in Calls : c = m.call /\ call[c].kind \in {"hello", "save"}
  BY CopyIs DEF Grant, Places, Kinds
<1>2. /\ TypeInv /\ PlacesInv /\ FreshInv /\ IntentsInv /\ WalletsInv /\ past \in PastType
  BY DEF SimInv, TypeInv
<1>3. m.at = "grant" /\ UNCHANGED <<slots, intents, today, up>>
  BY DEF Grant
<1>4. PICK executed, twice, raced, granted :
        /\ executed = past.executed \cup {<<c, m.at>>}
        /\ twice = (past.twice \/ <<c, m.at>> \in past.executed)
        /\ raced = past.raced \cup Racing(IF MayGrant THEN {Free} ELSE {})
        /\ granted = IF MayGrant THEN past.granted + 1 ELSE past.granted
  OBVIOUS
<1>5. past' = [past EXCEPT !.executed = executed, !.twice = twice, !.granted = granted,
                           !.raced = raced]
  BY <1>1, <1>2, <1>4 DEF Grant, PastType
<1>6. /\ executed \in SUBSET (Calls \X Remote) /\ twice \in BOOLEAN /\ raced \in SUBSET Souls
      /\ granted \in Nat
  BY <1>1, <1>2, <1>4, CopyIs DEF PastType, Racing, Souls
<1>7. /\ past' \in PastType /\ past'.executed = executed /\ past'.twice = twice
      /\ past'.quipped = past.quipped /\ past'.raced = raced /\ past'.granted = granted
  BY <1>2, <1>5, <1>6 DEF PastType
<1>8. RunPast(m)
  BY <1>1, <1>4, <1>7 DEF RunPast
<1>9. /\ MayGrant => /\ rows = {} /\ rows' = {Free} /\ first' = Free
                     /\ wallet' = [wallet EXCEPT ![Free] = Starter]
                     /\ ledger' = [ledger EXCEPT ![Free] = @ + Starter]
      /\ ~MayGrant => UNCHANGED <<table, wallet, ledger>>
  BY DEF Grant, MayGrant, Minted
<1>10. rows \subseteq rows' /\ GrantTurn
  BY <1>4, <1>7, <1>9 DEF GrantTurn, table
<1>11. Answers(m) /\ Ends(m)
  <2>1. CASE call[c].kind = "save"
    <3>1. "upsert" \in Remote /\ "upsert" \in Places["save"] /\ "upsert" \notin SoulPlaces
      BY DEF Remote, Places, SoulPlaces, SlotPlaces
    <3>2. RepliedAsking(m, "upsert")
      BY <1>1, <2>1 DEF Grant
    <3>3. QED
      BY <1>1, <1>8, <1>10, <2>1, <3>1, <3>2, AskingAnswers DEF Ends, SoulPlaces
  <2>2. CASE call[c].kind = "hello"
    <3>1. "done" \in Local \ {"idle"} /\ "done" \in Places["hello"] /\ "done" \notin SoulPlaces
      BY DEF Local, Places, SoulPlaces, SlotPlaces
    <3>2. Replied(m, Goes(c, "done"))
      BY <1>1, <2>2 DEF Grant
    <3>3. QED
      BY <1>1, <1>8, <1>10, <2>2, <3>1, <3>2, GoesAnswers DEF Ends, SoulPlaces
  <2>3. QED
    BY <1>1, <2>1, <2>2
<1>12. Moves(c)
  BY <1>1, <1>11 DEF Answers, Ran
<1>13. IntentTurn(c)
  BY <1>1, <1>2, <1>3, <1>10, <1>11, AnswersIntents
<1>14. wallet \in [Souls -> Nat] /\ ledger \in [Souls -> Int] /\ Starter \in Nat /\ Free \in Souls
  BY <1>2, SimCommandsConstants DEF TypeInv, SimTypeOK, Souls
<1>15. wallet' \in [Souls -> Nat] /\ ledger' \in [Souls -> Int]
  BY <1>9, <1>14
<1>16. TypeInv'
  BY <1>2, <1>3, <1>7, <1>9, <1>12, <1>14, <1>15, TurnTypes DEF TypeInv, SimTypeOK, table
<1>17. ASSUME NEW s \in Souls
       PROVE  WalletKept(s) \/ WalletWritten(s)
  <2>1. CASE MayGrant /\ s = Free
    <3>1. ledger[Free] = 0
      BY <1>2, <1>9, <1>14, <2>1 DEF WalletsInv
    <3>2. wallet'[Free] = Starter /\ ledger'[Free] = Starter
      BY <1>9, <1>14, <2>1, <3>1
    <3>3. Free \notin past'.raced => OpenSaves(Free) = {}
      BY <1>4, <1>7, <2>1 DEF Racing
    <3>4. OpenSaves(Free)' \subseteq OpenSaves(Free)
      BY <1>2, <1>11, AnswersOpenNone
    <3>5. QED
      BY <1>9, <2>1, <3>2, <3>3, <3>4 DEF WalletWritten
  <2>2. CASE MayGrant /\ s # Free
    BY <1>9, <1>14, <2>2 DEF WalletKept
  <2>3. CASE ~MayGrant
    BY <1>9, <2>3 DEF WalletKept, table
  <2>4. QED
    BY <2>1, <2>2, <2>3
<1>18. WalletsInv'
  BY <1>1, <1>2, <1>8, <1>11, <1>17, AnswersOpens, WalletsTurnKeeps DEF RunPast
<1>19. QED
  BY <1>1, <1>3, <1>7, <1>8, <1>10, <1>11, <1>13, <1>16, <1>18, EndsKeeps

(* souls_upsert.                                                           *)
LEMMA FirstAfterIs ==
    ASSUME SimInv, NEW saved \in SUBSET Souls
    PROVE  IF rows \cup saved = {} THEN FirstAfter(saved) = NoSoul
           ELSE FirstAfter(saved) \in rows \cup saved
<1>1. \A s \in saved : s = Own \/ s = Free
  BY DEF Souls
<1>2. QED
  BY <1>1 DEF FirstAfter

(* Saving a soul keeps the invariant. *)
LEMMA UpsertKeeps ==
    ASSUME SimInv, NEW m \in net, Upsert(m)
    PROVE  SimInv'
<1>0. m.at = "upsert"
  BY DEF Upsert
<1>1. PICK c \in Calls : c = m.call /\ call[c].kind = "save" /\ call[c] \in CallType
  BY <1>0, CopyIs DEF Places, Kinds
<1>2. /\ TypeInv /\ PlacesInv /\ FreshInv /\ IntentsInv /\ WalletsInv /\ past \in PastType
  BY DEF SimInv, TypeInv
<1>3. m.at = "upsert" /\ UNCHANGED <<slots, intents, today, up>> /\ Replied(m, Goes(c, "done"))
  BY <1>1 DEF Upsert
<1>4. PICK seen \in [Souls -> Nat \cup {Unread, Unknown}] : seen = call[c].seen
  BY <1>1 DEF CallType
<1>5. PICK saved \in SUBSET Souls : saved = {s \in Souls : seen[s] # Unread}
  OBVIOUS
<1>6. PICK born \in SUBSET saved : born = {s \in saved : seen[s] = Unknown}
  OBVIOUS
<1>7. PICK others \in SUBSET saved : others = {s \in saved : OpenSaves(s) \ {c} # {}}
  OBVIOUS
<1>8. /\ rows' = rows \cup saved /\ first' = FirstAfter(saved)
      /\ wallet' = [s \in Souls |-> IF s \in born THEN Starter
                                    ELSE IF s \in saved THEN seen[s] ELSE wallet[s]]
      /\ ledger' = [s \in Souls |-> IF s \in born THEN ledger[s] + Starter ELSE ledger[s]]
      /\ past' = [past EXCEPT
                    !.executed = @ \cup {<<m.call, m.at>>},
                    !.twice = @ \/ <<m.call, m.at>> \in past.executed,
                    !.raced = @ \cup others]
  BY <1>1, <1>4, <1>5, <1>6, <1>7 DEF Upsert
<1>9. RunPast(m) /\ past'.granted = past.granted /\ past'.quipped = past.quipped
      /\ past'.raced = past.raced \cup others
  <2>1. <<m.call, m.at>> \in Calls \X Remote
    BY CopyIs
  <2>2. QED
    BY <1>2, <1>8, <2>1 DEF RunPast, PastType
<1>10. Answers(m) /\ Ends(m)
  <2>1. "done" \in Local \ {"idle"} /\ "done" \in Places["save"] /\ "done" \notin SoulPlaces
    BY DEF Local, Places, SoulPlaces, SlotPlaces
  <2>2. QED
    BY <1>1, <1>3, <1>8, <1>9, <2>1, GoesAnswers DEF Ends, SoulPlaces
<1>11. Moves(c) /\ GrantTurn
  BY <1>1, <1>8, <1>9, <1>10 DEF Answers, Ran, GrantTurn
<1>12. IntentTurn(c)
  BY <1>1, <1>2, <1>3, <1>10, <1>11, AnswersIntents
<1>13. wallet \in [Souls -> Nat] /\ ledger \in [Souls -> Int] /\ Starter \in Nat
  BY <1>2, SimCommandsConstants DEF TypeInv, SimTypeOK
<1>14. \A s \in saved \ born : seen[s] \in Nat
  BY <1>4, <1>5, <1>6
<1>15. wallet' \in [Souls -> Nat] /\ ledger' \in [Souls -> Int]
  BY <1>8, <1>13, <1>14
<1>16. TypeInv'
  <2>1. IF rows' = {} THEN first' = NoSoul ELSE first' \in rows'
    BY <1>8, FirstAfterIs
  <2>2. QED
    BY <1>2, <1>3, <1>8, <1>9, <1>11, <1>15, <2>1, TurnTypes DEF TypeInv, SimTypeOK, RunPast
<1>17. ASSUME NEW s \in Souls \ rows'
       PROVE  ledger'[s] = 0
  BY <1>2, <1>6, <1>8, <1>17 DEF WalletsInv
<1>18. ASSUME ~past'.twice, NEW s \in Souls \ past'.raced
       PROVE  ReadInv(s)'
  <2>1. ReadInv(s) /\ <<c, "upsert">> \notin past.executed
    BY <1>1, <1>2, <1>3, <1>9, <1>18 DEF WalletsInv, RunPast
  <2>2. OpenSaves(s)' \subseteq OpenSaves(s)
    BY <1>2, <1>10, AnswersOpenNone
  <2>3. \A b \in OpenSaves(s)' : call'[b].seen = call[b].seen
    BY <1>1, <1>10 DEF Answers, Ran, Moves, OpenSaves
  <2>4. CASE s \notin saved
    <3>1. wallet'[s] = wallet[s] /\ ledger'[s] = ledger[s] /\ (s \in rows' <=> s \in rows)
      BY <1>6, <1>8, <2>4
    <3>2. past.executed \subseteq past'.executed
      BY <1>9 DEF RunPast
    <3>3. QED
      BY <2>1, <2>2, <2>3, <3>1, <3>2 DEF ReadInv
  <2>5. CASE s \in saved
    <3>1. OpenSaves(s) \subseteq {c}
      BY <1>7, <1>9, <1>18, <2>5
    <3>2. c \in OpenSaves(s)
      <4>1. m \in Copies(c)
        BY <1>1 DEF Copies
      <4>2. QED
        BY <1>4, <1>5, <2>5, <4>1 DEF OpenSaves
    <3>3. <<c, "upsert">> \in past'.executed
      BY <1>1, <1>3, <1>9 DEF RunPast
    <3>4. CASE s \in born
      <4>1. s \notin rows
        BY <1>4, <1>6, <2>1, <3>2, <3>4 DEF ReadInv
      <4>2. ledger[s] = 0
        BY <1>2, <4>1 DEF WalletsInv
      <4>3. wallet'[s] = Starter /\ ledger'[s] = Starter
        BY <1>8, <1>13, <3>4, <4>2
      <4>4. \A b \in OpenSaves(s)' : b = c /\ call'[b].seen[s] = Unknown
        BY <1>4, <1>6, <2>2, <2>3, <3>1, <3>4
      <4>5. QED
        BY <3>3, <4>3, <4>4 DEF ReadInv
    <3>5. CASE s \notin born
      <4>1. seen[s] \in Nat /\ seen[s] = wallet[s] /\ s \in rows
        BY <1>1, <1>2, <1>4, <1>14, <2>1, <2>5, <3>2, <3>5 DEF ReadInv, PlacesInv, Unknown
      <4>2. wallet'[s] = wallet[s] /\ ledger'[s] = ledger[s] /\ wallet[s] = ledger[s]
        BY <1>8, <2>1, <2>5, <3>5, <4>1 DEF ReadInv
      <4>3. \A b \in OpenSaves(s)' : b = c /\ call'[b].seen[s] = wallet'[s]
        BY <1>4, <2>2, <2>3, <3>1, <4>1, <4>2
      <4>4. QED
        BY <3>3, <4>2, <4>3 DEF ReadInv
    <3>6. QED
      BY <3>4, <3>5
  <2>6. QED
    BY <2>4, <2>5
<1>19. WalletsInv'
  BY <1>17, <1>18 DEF WalletsInv
<1>20. QED
  BY <1>1, <1>3, <1>8, <1>9, <1>10, <1>12, <1>16, <1>19, EndsKeeps

-----------------------------------------------------------------------------
(* Steps of nobody's request.                                              *)
LEMMA AsideKeeps ==
    ASSUME SimInv, UNCHANGED <<table, slots, intents, call>>, net' \subseteq net,
           past' \in PastType, past'.executed = past.executed, past'.twice = past.twice,
           past.raced \subseteq past'.raced, past'.granted = past.granted,
           past'.quipped = past.quipped, today' \in Days, up' \in BOOLEAN,
           wallet' \in [Souls -> Nat], ledger' \in [Souls -> Int],
           \A s \in Souls : WalletKept(s) \/ WalletWritten(s)
    PROVE  SimInv'
<1>1. TypeInv /\ PlacesInv /\ IntentsInv /\ FreshInv /\ SlotsInv /\ WalletsInv
  BY DEF SimInv
<1>2. \A c : Copies(c)' \subseteq Copies(c) /\ FreshCopies(c)' \subseteq FreshCopies(c)
  BY DEF Copies, FreshCopies
<1>3. TypeInv'
  BY <1>1 DEF TypeInv, SimTypeOK, Begun, table
<1>4. PlacesInv'
  BY <1>1, <1>2 DEF PlacesInv, table
<1>5. IntentsInv'
  BY <1>1 DEF IntentsInv, Events, table
<1>6. FreshInv'
  BY <1>1, <1>2 DEF FreshInv
<1>7. SlotsInv'
  <2>1. ASSUME ~past.twice, NEW s \in Souls, NEW d \in Days
        PROVE  past'.quipped[s][d] + Cardinality(Slotted(s, d)') <= slots'[s][d]
    <3>1. PICK S : S = Slotted(s, d)
      OBVIOUS
    <3>2. PICK T : T = Slotted(s, d)'
      OBVIOUS
    <3>3. T \subseteq S
      BY <1>2, <3>1, <3>2 DEF Slotted, HasSlot
    <3>4. /\ Cardinality(S) \in Nat /\ Cardinality(T) \in Nat
          /\ Cardinality(T) <= Cardinality(S)
      BY <1>1, <3>1, <3>3, SlottedFinite, FS_Subset, FS_CardinalityType
    <3>5. PICK sl \in Nat, qu \in Nat : sl = slots[s][d] /\ qu = past.quipped[s][d]
      BY <1>1 DEF TypeInv, SimTypeOK, PastType
    <3>6. qu + Cardinality(S) <= sl
      BY <1>1, <2>1, <3>1, <3>5 DEF SlotsInv
    <3>7. QED
      BY <3>2, <3>4, <3>5, <3>6
  <2>2. QED
    BY <2>1 DEF SlotsInv
<1>8. WalletsInv'
  <2>1. OpenStep
    BY <1>2 DEF OpenStep, OpenSaves
  <2>2. QED
    BY <1>1, <2>1, WalletsStepKeeps
<1>9. QED
  BY <1>3, <1>4, <1>5, <1>6, <1>7, <1>8 DEF SimInv

(* A payment outside the commands, posted with its row, keeps the invariant. *)
LEMMA OutsideKeeps ==
    ASSUME SimInv, NEW s \in Souls, NEW amount \in {-1, 1}, Outside(s, amount)
    PROVE  SimInv'
<1>1. /\ past \in PastType /\ wallet \in [Souls -> Nat] /\ ledger \in [Souls -> Int]
      /\ today \in Days /\ up \in BOOLEAN
  BY DEF SimInv, TypeInv, SimTypeOK
<1>2. /\ s \in rows /\ wallet[s] + amount >= 0
      /\ wallet' = [wallet EXCEPT ![s] = @ + amount]
      /\ ledger' = [ledger EXCEPT ![s] = @ + amount]
      /\ past' = [past EXCEPT !.outside = @ + 1, !.raced = @ \cup Racing({s})]
      /\ UNCHANGED <<table, slots, intents, today, call, net, up>>
  BY DEF Outside
<1>3. /\ past' \in PastType /\ past'.executed = past.executed /\ past'.twice = past.twice
      /\ past'.raced = past.raced \cup Racing({s}) /\ past'.granted = past.granted
      /\ past'.quipped = past.quipped
  <2>1. PICK n, raced : n = past.outside + 1 /\ raced = past.raced \cup Racing({s})
    OBVIOUS
  <2>2. n \in Nat /\ raced \in SUBSET Souls
    BY <1>1, <2>1 DEF PastType, Racing
  <2>3. past' = [past EXCEPT !.outside = n, !.raced = raced]
    BY <1>1, <1>2, <2>1 DEF PastType
  <2>4. QED
    BY <1>1, <2>2, <2>1, <2>3 DEF PastType
<1>4. /\ wallet' \in [Souls -> Nat] /\ ledger' \in [Souls -> Int]
      /\ wallet'[s] = wallet[s] + amount /\ ledger'[s] = ledger[s] + amount
      /\ \A z \in Souls \ {s} : wallet'[z] = wallet[z] /\ ledger'[z] = ledger[z]
  BY <1>1, <1>2
<1>5. ASSUME NEW z \in Souls
      PROVE  WalletKept(z) \/ WalletWritten(z)
  <2>1. CASE z # s
    BY <1>2, <1>4, <2>1 DEF WalletKept, table
  <2>2. CASE z = s
    <3>1. s \notin past'.raced => OpenSaves(s) = {}
      BY <1>3 DEF Racing
    <3>2. OpenSaves(s)' = OpenSaves(s)
      BY <1>2 DEF OpenSaves, Copies
    <3>3. QED
      BY <1>2, <1>4, <2>2, <3>1, <3>2 DEF WalletWritten, table
  <2>3. QED
    BY <2>1, <2>2
<1>6. QED
  BY <1>1, <1>2, <1>3, <1>4, <1>5, AsideKeeps

(* Midnight, a crash and a boot keep the invariant. *)
LEMMA OthersKeep ==
    ASSUME SimInv, Midnight \/ Crash \/ Boot
    PROVE  SimInv'
<1>1. /\ past \in PastType /\ wallet \in [Souls -> Nat] /\ ledger \in [Souls -> Int]
      /\ today \in Days /\ up \in BOOLEAN /\ LastDay \in Nat
  BY SimCommandsConstants DEF SimInv, TypeInv, SimTypeOK
<1>2. CASE Midnight
  <2>1. today' \in Days
    BY <1>1, <1>2 DEF Midnight, Days
  <2>2. QED
    BY <1>1, <1>2, <2>1, AllWalletsKept, AsideKeeps DEF Midnight
<1>3. CASE Crash
  <2>1. /\ past' \in PastType /\ past'.executed = past.executed /\ past'.twice = past.twice
        /\ past'.raced = past.raced /\ past'.granted = past.granted
        /\ past'.quipped = past.quipped
    BY <1>1, <1>3 DEF Crash, PastType
  <2>2. QED
    BY <1>1, <1>3, <2>1, AllWalletsKept, AsideKeeps DEF Crash
<1>4. CASE Boot
  BY <1>1, <1>4, AllWalletsKept, AsideKeeps DEF Boot
<1>5. QED
  BY <1>2, <1>3, <1>4

(* The commands start in the invariant. *)
LEMMA SimInitInv ==
    ASSUME SimInit
    PROVE  SimInv
<1>1. Starter \in Nat /\ Price \in Nat /\ LastDay \in Nat
  BY SimCommandsConstants
<1>2. \A c \in Calls : call[c].at = "idle" /\ call[c].kind = "act"
                       /\ \A s \in Souls : call[c].seen[s] = Unread
  BY DEF SimInit
<1>3. Begun = {} /\ IsFiniteSet(Begun) /\ IsFiniteSet(intents)
  BY <1>2, FS_EmptySet DEF Begun, SimInit
<1>4. past \in PastType /\ past.executed = {} /\ past.granted = 0
      /\ \A s \in Souls, d \in Days : past.quipped[s][d] = 0
  BY DEF SimInit, PastType
<1>5. SimTypeOK
  <2>1. wallet \in [Souls -> Nat]
    BY <1>1 DEF SimInit
  <2>2. 0 \in Days
    BY <1>1 DEF Days
  <2>3. call \in [Calls -> CallType]
    BY <2>2 DEF SimInit, CallType, Kinds, Local, Resent, Unread
  <2>4. rows \subseteq Souls /\ IF rows = {} THEN first = NoSoul ELSE first \in rows
    BY DEF SimInit, Souls
  <2>5. slots \in [Souls -> [Days -> Nat]] /\ intents = {} /\ today \in Days /\ net = {}
        /\ up \in BOOLEAN /\ ledger = wallet
    BY <2>2 DEF SimInit
  <2>6. QED
    BY <2>1, <2>3, <2>4, <2>5 DEF SimTypeOK, CallType
<1>6. PlacesInv
  BY <1>2 DEF SimInit, PlacesInv, Places, Copies, SoulPlaces, SlotPlaces, Unread
<1>7. IntentsInv
  BY <1>2, <1>4 DEF SimInit, IntentsInv, Events
<1>8. FreshInv
  BY DEF SimInit, FreshInv, FreshCopies, Copies
<1>9. SlotsInv
  <2>1. \A s, d : Slotted(s, d) = {}
    BY <1>2 DEF SimInit, Slotted, HasSlot, FreshCopies, Copies, SlotPlaces
  <2>2. \A s \in Souls, d \in Days : slots[s][d] = 0
    BY DEF SimInit
  <2>3. QED
    <3>1. \A s \in Souls, d \in Days : Cardinality(Slotted(s, d)) = 0
      BY <2>1, FS_EmptySet
    <3>2. \A s \in Souls, d \in Days : past.quipped[s][d] = 0
      BY <1>4 DEF SimInit
    <3>3. QED
      BY <2>2, <3>1, <3>2 DEF SlotsInv
<1>10. WalletsInv
  <2>1. \A s \in Souls : OpenSaves(s) = {} /\ wallet[s] = ledger[s]
    BY <1>2 DEF SimInit, OpenSaves
  <2>2. \A s \in Souls \ rows : ledger[s] = 0
    BY DEF SimInit
  <2>3. QED
    BY <2>1, <2>2 DEF WalletsInv, ReadInv
<1>11. QED
  BY <1>3, <1>4, <1>5, <1>6, <1>7, <1>8, <1>9, <1>10 DEF SimInv, TypeInv

(* Every step keeps the invariant. *)
LEMMA SimNextKeeps ==
    ASSUME SimInv, [SimNext]_simVars
    PROVE  SimInv'
<1>1. CASE UNCHANGED simVars
  <2>1. \A s \in Souls : WalletKept(s)
    BY <1>1 DEF simVars, WalletKept, table
  <2>2. QED
    BY <1>1, <2>1, AsideKeeps DEF simVars, SimInv, TypeInv, SimTypeOK
<1>2. CASE \E c \in Calls : \/ Hello(c) \/ Save(c) \/ Note(c) \/ Act(c) \/ Resend(c)
                            \/ Polled(c) \/ Generate(c) \/ TimesOut(c)
                            \/ \E s \in Souls : Quip(c, s)
  <2>1. ASSUME NEW c \in Calls, Hello(c) \/ Note(c) \/ Act(c)
        PROVE  SimInv'
    BY <2>1, BlindStartKeeps DEF Hello, Note, Act, Tables
  <2>2. QED
    BY <1>2, <2>1, SaveKeeps, ResendKeeps, PolledKeeps, GenerateKeeps, TimesOutKeeps, QuipKeeps
<1>3. CASE \E m \in net : \/ Grant(m) \/ Upsert(m) \/ Reserve(m) \/ Charge(m) \/ Release(m)
                          \/ Ingest(m) \/ Finalize(m) \/ Submit(m)
  BY <1>3, GrantKeeps, UpsertKeeps, ReserveKeeps, ChargeKeeps, ReleaseKeeps, IngestKeeps,
     FinalizeKeeps, SubmitKeeps
<1>4. CASE \E s \in Souls, amount \in {-1, 1} : Outside(s, amount)
  BY <1>4, OutsideKeeps
<1>5. QED
  BY <1>1, <1>2, <1>3, <1>4, OthersKeep DEF SimNext

(* Every reachable state of the commands satisfies the inductive invariant. *)
THEOREM SimInvariant == SimSpec => []SimInv
<1>1. SimInit => SimInv
  BY SimInitInv
<1>2. SimInv /\ [SimNext]_simVars => SimInv'
  BY SimNextKeeps
<1>3. QED
  BY <1>1, <1>2, PTL DEF SimSpec

(* The tables, requests and copies are what the model says they are.       *)
THEOREM CommandsTyped == SimSpec => []SimTypeOK
<1>1. SimInv => SimTypeOK
  BY DEF SimInv, TypeInv
<1>2. QED
  BY <1>1, SimInvariant, PTL

(* A budget covers the quips that were charged and the requests that hold  *)
(* a slot, unless a command ran twice: reservation, generation, charge and *)
(* release in quips.py and sim_commands.py, with midnight, timeouts and a  *)
(* crash of the sim at any point between them.                             *)
THEOREM BudgetsCover == SimSpec => []SlotsCovered
<1>1. SimInv => SlotsCovered
  <2> SUFFICES ASSUME SimInv, ~past.twice, NEW s \in Souls, NEW d \in Days
               PROVE  past.quipped[s][d] + Cardinality(Holding(s, d)) <= slots[s][d]
    BY DEF SlotsCovered
  <2>1. PICK S : S = Slotted(s, d)
    OBVIOUS
  <2>2. PICK T : T = Holding(s, d)
    OBVIOUS
  <2>3. T \subseteq S
    BY <2>1, <2>2 DEF Holding, Slotted, HasSlot, SlotPlaces
  <2>4. /\ Cardinality(S) \in Nat /\ Cardinality(T) \in Nat
        /\ Cardinality(T) <= Cardinality(S)
    BY <2>1, <2>3, SlottedFinite, FS_Subset, FS_CardinalityType DEF SimInv
  <2>5. PICK sl \in Nat, qu \in Nat : sl = slots[s][d] /\ qu = past.quipped[s][d]
    BY DEF SimInv, TypeInv, SimTypeOK, PastType
  <2>6. qu + Cardinality(S) <= sl
    BY <2>1, <2>5 DEF SimInv, SlotsInv
  <2>7. QED
    BY <2>2, <2>4, <2>5, <2>6
<1>2. QED
  BY <1>1, SimInvariant, PTL

(* A wallet is what its ledger rows say unless it was written between the  *)
(* read and the write of a save (souls.py, update_souls) or a command ran  *)
(* twice: nothing else in these requests can part the two.                 *)
THEOREM WalletsFollowLedgers == SimSpec => []WalletsExplained
<1>1. SimInv => WalletsExplained
  BY DEF SimInv, TypeInv, SimTypeOK, WalletsInv, ReadInv, WalletsExplained
<1>2. QED
  BY <1>1, SimInvariant, PTL

(* However often transport and client repeat a request, there is one first *)
(* soul and one intent under a nonce, and a client that is told its intent *)
(* was accepted has one (sim_gateway.py, grant_free_soul and               *)
(* intent_submit in sim_commands.py).                                      *)
THEOREM RepeatsAreHarmless == SimSpec => []RetriesDoNotRepeat
<1>1. SimInv => RetriesDoNotRepeat
  <2> SUFFICES ASSUME SimInv
               PROVE  RetriesDoNotRepeat
    OBVIOUS
  <2>1. IntentsInv
    BY DEF SimInv
  <2>2. past.granted <= 1
    BY <2>1 DEF IntentsInv
  <2>3. ASSUME NEW c \in Calls, call[c].kind = "act"
        PROVE  /\ Cardinality(Events(c)) <= 1
               /\ call[c].at \in {"polling", "done"} => Events(c) # {}
    <3>1. PICK one : one = {<<c, 1>>}
      OBVIOUS
    <3>2. Events(c) \subseteq one
      BY <2>1, <2>3, <3>1 DEF IntentsInv
    <3>3. IsFiniteSet(one) /\ Cardinality(one) = 1
      BY <3>1, FS_Singleton
    <3>4. Cardinality(Events(c)) <= 1
      BY <3>2, <3>3, FS_Subset
    <3>5. ASSUME call[c].at \in {"polling", "done"}
          PROVE  Events(c) # {}
      <4>1. PICK i : i = <<c, 1>>
        OBVIOUS
      <4>2. i \in intents /\ i[1] = c
        BY <2>1, <2>3, <3>5, <4>1 DEF IntentsInv
      <4>3. QED
        BY <4>2 DEF Events
    <3>6. QED
      BY <3>4, <3>5
  <2>4. QED
    BY <2>2, <2>3 DEF RetriesDoNotRepeat
<1>2. QED
  BY <1>1, SimInvariant, PTL
============
