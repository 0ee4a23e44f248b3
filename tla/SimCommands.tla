----------------------------- MODULE SimCommands -----------------------------
(***************************************************************************)
(* The API process and the sim process (server/sim_ipc.py,                 *)
(* server/sim_gateway.py, server/sim_commands.py): requests of one tamer   *)
(* that take several commands to the sim, between which other requests,    *)
(* midnight and other writers of the wallets come.                         *)
(*                                                                         *)
(*   hello  the websocket greeting: grant_free_soul                        *)
(*   save   POST /souls: read the rows, perhaps grant_free_soul, then      *)
(*          souls_upsert                                                   *)
(*   quip   POST /souls/{id}/quip: quip_reserve, generation, quip_charge   *)
(*          or quip_release                                                *)
(*   note   POST /bridge/events: bridge_ingest, generation,                *)
(*          bridge_commentary_finalize                                     *)
(*   act    an intent under a nonce of the client: intent_submit, then     *)
(*          polling for its outcome                                        *)
(*                                                                         *)
(* SimClient repeats a request once on a transport failure or a timeout,   *)
(* and the sim executes every copy it has received, whenever it comes to   *)
(* hold the step lock: after the reply to the other one, or after the      *)
(* client has given up.                                                    *)
(***************************************************************************)
EXTENDS Integers, FiniteSets

CONSTANTS
    Calls,       \* requests
    Own,         \* soul the client knows of
    Free,        \* soul the sim mints
    NoSoul,
    Starter,     \* STARTER_GRANT, STARTING_ESSENCE
    Price,       \* QUIP_PRICE_ESSENCE
    PerDay,      \* QUIPS_PER_SOUL_PER_DAY
    LastDay,     \* bound: days
    MaxLost,     \* bound: replies lost or late
    MaxOutside,  \* bound: wallet writes by others
    MaxCrashes

Souls == {Own, Free}
Days == 0..LastDay

ASSUME SimCommandsConstants ==
    /\ Own # Free /\ NoSoul \notin Souls
    /\ {Starter, Price, PerDay, LastDay, MaxLost, MaxOutside, MaxCrashes} \subseteq Nat

VARIABLES
    rows,    \* souls of the tamer that have a row
    first,   \* the one with the smallest rowid
    wallet,  \* soul -> souls.essence
    ledger,  \* soul -> sum of its ledger rows
    slots,   \* soul -> day -> quip_budgets.count
    intents, \* rows of the queue: set of <<call, number>>
    today,
    call,    \* call -> [kind, at, tries, soul, day, seen]
    net,     \* copies of requests the sim has still to execute: [call, at, try]
    up,
    past     \* history: [executed, twice, raced, granted, quipped, lost,
             \*           outside, crashes]

table == <<rows, first>>
simVars == <<table, wallet, ledger, slots, intents, today, call, net, up, past>>

Kinds == {"hello", "save", "quip", "note", "act"}
Remote == {"grant", "upsert", "reserve", "charge", "release", "ingest",
           "finalize", "abandon", "submit"}
Local == {"idle", "read", "generate", "polling", "done", "failed"}

(* The number of the copy that a client sends anew; the ones of SimClient  *)
(* are 1 and 2.                                                            *)
Resent == 3

(* Not read; what the API process read of a soul without a row.            *)
Unread == -2
Unknown == -1

(* The tamer is new or has had the soul for a while.                       *)
SimInit ==
    /\ rows \in {{}, {Own}}
    /\ first = IF rows = {} THEN NoSoul ELSE Own
    /\ wallet = [s \in Souls |-> IF s \in rows THEN 2 * Price ELSE 0]
    /\ ledger = wallet
    /\ slots = [s \in Souls |-> [d \in Days |-> 0]]
    /\ intents = {}
    /\ today = 0
    /\ call = [c \in Calls |-> [kind |-> "act", at |-> "idle", tries |-> 0,
                                soul |-> NoSoul, day |-> 0,
                                seen |-> [s \in Souls |-> Unread]]]
    /\ net = {}
    /\ up = TRUE
    /\ past = [executed |-> {}, twice |-> FALSE, raced |-> {}, granted |-> 0,
               quipped |-> [s \in Souls |-> [d \in Days |-> 0]], lost |-> 0,
               outside |-> 0, crashes |-> 0]

-----------------------------------------------------------------------------
(* The transport.                                                          *)
Copies(c) == {m \in net : m.call = c}

(* SimClient.call: the first copy of a request.                            *)
Ask(c, at, record) ==
    /\ call' = [call EXCEPT ![c] = [record EXCEPT !.at = at, !.tries = 1]]
    /\ net' = net \cup {[call |-> c, at |-> at, try |-> 1]}

(* The reply does not arrive in time, or the connection breaks: the second *)
(* copy, after which the sim counts as unreachable.                        *)
TimesOut(c) ==
    /\ call[c].at \in Remote
    /\ past.lost < MaxLost \/ ~up
    /\ past' = [past EXCEPT !.lost = IF up THEN @ + 1 ELSE @]
    /\ IF call[c].tries = 1 /\ up
       THEN /\ call' = [call EXCEPT ![c].tries = 2]
            /\ net' = net \cup {[call |-> c, at |-> call[c].at, try |-> 2]}
       ELSE /\ call' = [call EXCEPT ![c].at = "failed"]
            /\ UNCHANGED net
    /\ UNCHANGED <<table, wallet, ledger, slots, intents, today, up>>

(* The sim executes a copy; its reply leads the request to its next place  *)
(* if the request still waits for this copy and the reply is not lost.     *)
Executed(m) ==
    /\ up /\ m \in net
    /\ past' = [past EXCEPT !.executed = @ \cup {<<m.call, m.at>>},
                            !.twice = @ \/ <<m.call, m.at>> \in past.executed]

Awaited(m) == call[m.call].at = m.at /\ call[m.call].tries = m.try

Replied(m, next) ==
    IF Awaited(m)
    THEN \/ call' = [call EXCEPT ![m.call] = next] /\ net' = net \ {m}
         \/ past.lost < MaxLost /\ UNCHANGED call /\ net' = net \ {m}
    ELSE UNCHANGED call /\ net' = net \ {m}

(* The reply makes the API process ask for the next thing.                 *)
RepliedAsking(m, at) ==
    IF Awaited(m)
    THEN \/ /\ call' = [call EXCEPT ![m.call].at = at, ![m.call].tries = 1]
            /\ net' = (net \ {m}) \cup {[call |-> m.call, at |-> at, try |-> 1]}
         \/ past.lost < MaxLost /\ UNCHANGED call /\ net' = net \ {m}
    ELSE UNCHANGED call /\ net' = net \ {m}

Goes(c, at) == [call[c] EXCEPT !.at = at]

-----------------------------------------------------------------------------
(* Wallets.  A save is open from its read until its last copy has run.     *)
OpenSaves(s) ==
    {c \in Calls : call[c].seen[s] # Unread
                   /\ (call[c].at \in {"grant", "upsert"} \/ Copies(c) # {})}

Racing(writes) == {s \in writes : OpenSaves(s) # {}}

(* Mutant: a quip is charged without a ledger row.                         *)
PayQuipUnrecorded(s) ==
    /\ wallet' = [wallet EXCEPT ![s] = @ - Price]
    /\ UNCHANGED ledger

(* charge_for_quip                                                         *)
PayQuip(s) ==
    /\ wallet' = [wallet EXCEPT ![s] = @ - Price]
    /\ ledger' = [ledger EXCEPT ![s] = @ - Price]

(* fund_soul in the API process; a hold or a debit in the sim.             *)
Outside(s, amount) ==
    /\ s \in rows
    /\ amount < 0 => up
    /\ wallet[s] + amount >= 0
    /\ past.outside < MaxOutside
    /\ wallet' = [wallet EXCEPT ![s] = @ + amount]
    /\ ledger' = [ledger EXCEPT ![s] = @ + amount]
    /\ past' = [past EXCEPT !.outside = @ + 1, !.raced = @ \cup Racing({s})]
    /\ UNCHANGED <<table, slots, intents, today, call, net, up>>

-----------------------------------------------------------------------------
(* hello, and the grant of the first soul.                                 *)
Hello(c) ==
    /\ call[c].at = "idle"
    /\ Ask(c, "grant", [call[c] EXCEPT !.kind = "hello"])
    /\ UNCHANGED <<table, wallet, ledger, slots, intents, today, up, past>>

Minted(s) ==
    /\ wallet' = [wallet EXCEPT ![s] = Starter]
    /\ ledger' = [ledger EXCEPT ![s] = @ + Starter]

MayGrant == rows = {}

(* grant_free_soul, from the greeting or from a save, which then upserts.  *)
Grant(m) ==
    /\ m.at = "grant"
    /\ up /\ m \in net
    /\ LET raced == Racing(IF MayGrant THEN {Free} ELSE {}) IN
       past' = [past EXCEPT
                  !.executed = @ \cup {<<m.call, m.at>>},
                  !.twice = @ \/ <<m.call, m.at>> \in past.executed,
                  !.granted = IF MayGrant THEN @ + 1 ELSE @,
                  !.raced = @ \cup raced]
    /\ IF MayGrant
       THEN rows' = {Free} /\ first' = Free /\ Minted(Free)
       ELSE UNCHANGED <<table, wallet, ledger>>
    /\ IF call[m.call].kind = "save" THEN RepliedAsking(m, "upsert")
       ELSE Replied(m, Goes(m.call, "done"))
    /\ UNCHANGED <<slots, intents, today, up>>

(* update_souls: what the tables hold is read in the API process.  A soul  *)
(* without a row is accepted only from a tamer who has none.               *)
Save(c) ==
    /\ call[c].at = "idle"
    /\ \E sent \in SUBSET Souls :
         LET accepted == {s \in sent : s \in rows \/ (s = Own /\ rows = {})}
             seen == [s \in Souls |-> IF s \notin accepted THEN Unread
                                      ELSE IF s \in rows THEN wallet[s] ELSE Unknown]
         IN  Ask(c, IF rows = {} /\ accepted = {} THEN "grant" ELSE "upsert",
                 [call[c] EXCEPT !.kind = "save", !.seen = seen])
    /\ UNCHANGED <<table, wallet, ledger, slots, intents, today, up, past>>

(* The rows that stay keep their order; the saved ones come after them,    *)
(* and one row can stay behind the first.                                  *)
FirstAfter(saved) ==
    LET left == rows \ saved IN
    IF first \in left THEN first
    ELSE IF left # {} THEN CHOOSE s \in left : TRUE
    ELSE IF Own \in saved THEN Own
    ELSE IF Free \in saved THEN Free ELSE NoSoul

(* souls_upsert: delete and insert, with the essence the API process read; *)
(* a newborn gets the starter grant and its ledger row.                    *)
Upsert(m) ==
    LET seen == call[m.call].seen
        saved == {s \in Souls : seen[s] # Unread}
        born == {s \in saved : seen[s] = Unknown}
    IN
    /\ m.at = "upsert"
    /\ up /\ m \in net
    /\ rows' = rows \cup saved /\ first' = FirstAfter(saved)
    /\ wallet' = [s \in Souls |-> IF s \in born THEN Starter
                                  ELSE IF s \in saved THEN seen[s] ELSE wallet[s]]
    /\ ledger' = [s \in Souls |-> IF s \in born THEN ledger[s] + Starter
                                  ELSE ledger[s]]
    /\ Replied(m, Goes(m.call, "done"))
    /\ LET others == {s \in saved : OpenSaves(s) \ {m.call} # {}} IN
       past' = [past EXCEPT
                  !.executed = @ \cup {<<m.call, m.at>>},
                  !.twice = @ \/ <<m.call, m.at>> \in past.executed,
                  !.raced = @ \cup others]
    /\ UNCHANGED <<slots, intents, today, up>>

-----------------------------------------------------------------------------
(* Quips and commentary.                                                   *)
Quip(c, s) ==
    /\ call[c].at = "idle"
    /\ s \in rows
    /\ Ask(c, "reserve", [call[c] EXCEPT !.kind = "quip", !.soul = s, !.day = today])
    /\ UNCHANGED <<table, wallet, ledger, slots, intents, today, up, past>>

(* The budget that is looked at is that of the present day.                *)
Reservable(s) == slots[s][today] < PerDay /\ wallet[s] >= Price

Take(s, d) == slots' = [slots EXCEPT ![s][d] = @ + 1]

Reserve(m) ==
    LET c == m.call IN
    /\ m.at = "reserve"
    /\ Executed(m)
    /\ IF Reservable(call[c].soul)
       THEN /\ Take(call[c].soul, call[c].day)
            /\ Replied(m, Goes(c, "generate"))
       ELSE UNCHANGED slots /\ Replied(m, Goes(c, "failed"))
    /\ UNCHANGED <<table, wallet, ledger, intents, today, up>>

(* The provider answers, with a template in the worst case, or it fails.   *)
Generate(c) ==
    /\ call[c].at = "generate"
    /\ \E at \in IF call[c].kind = "quip" THEN {"charge", "release"}
                 ELSE {"finalize", "abandon"} :
         Ask(c, at, call[c])
    /\ UNCHANGED <<table, wallet, ledger, slots, intents, today, up, past>>

(* Mutant: the slot is given back although the quip was charged.           *)
FreedAlways(s, d) == slots' = [slots EXCEPT ![s][d] = IF @ > 1 THEN @ - 2 ELSE 0]

(* release_quip                                                            *)
Freed(s, d) == slots' = [slots EXCEPT ![s][d] = IF @ > 0 THEN @ - 1 ELSE 0]

Payable(m) == wallet[call[m.call].soul] >= Price

(* quip_charge, and the charge of bridge_commentary_finalize: the wallet   *)
(* may have been emptied since the reservation.                            *)
Paid(m) ==
    LET c == m.call
        s == call[c].soul
    IN
    /\ up /\ m \in net
    /\ Payable(m)
    /\ PayQuip(s)
    /\ past' = [past EXCEPT
                  !.executed = @ \cup {<<c, m.at>>},
                  !.twice = @ \/ <<c, m.at>> \in past.executed,
                  !.quipped[s][call[c].day] = @ + 1,
                  !.raced = @ \cup Racing({s})]
    /\ Replied(m, Goes(c, "done"))
    /\ UNCHANGED <<table, slots, intents, today, up>>

Charge(m) ==
    /\ m.at = "charge"
    /\ \/ Paid(m)
       \/ /\ ~Payable(m)
          /\ Executed(m)
          /\ RepliedAsking(m, "release")
          /\ UNCHANGED <<table, wallet, ledger, slots, intents, today, up>>

Release(m) ==
    /\ m.at = "release"
    /\ Executed(m)
    /\ Freed(call[m.call].soul, call[m.call].day)
    /\ Replied(m, Goes(m.call, "failed"))
    /\ UNCHANGED <<table, wallet, ledger, intents, today, up>>

(* bridge_ingest: every execution names the event anew, so a repeated one  *)
(* is a second event; a pivotal one reserves a slot of the day it is       *)
(* executed on for the tamer's first soul.                                 *)
Note(c) ==
    /\ call[c].at = "idle"
    /\ Ask(c, "ingest", [call[c] EXCEPT !.kind = "note"])
    /\ UNCHANGED <<table, wallet, ledger, slots, intents, today, up, past>>

Events(c) == {i \in intents : i[1] = c}

Ingest(m) ==
    LET c == m.call
        kept == [call[c] EXCEPT !.soul = first, !.day = today]
    IN
    /\ m.at = "ingest"
    /\ Executed(m)
    /\ IF rows = {}
       THEN UNCHANGED <<intents, slots>> /\ Replied(m, Goes(c, "failed"))
       ELSE /\ intents' = intents \cup {<<c, Cardinality(Events(c)) + 1>>}
            /\ \/ /\ Reservable(first)
                  /\ Take(first, today)
                  /\ Replied(m, [kept EXCEPT !.at = "generate"])
               \/ /\ UNCHANGED slots
                  /\ Replied(m, Goes(c, "done"))
    /\ UNCHANGED <<table, wallet, ledger, today, up>>

Finalize(m) ==
    /\ m.at \in {"finalize", "abandon"}
    /\ \/ m.at = "finalize" /\ Paid(m)
       \/ /\ m.at = "abandon" \/ ~Payable(m)
          /\ Executed(m)
          /\ Freed(call[m.call].soul, call[m.call].day)
          /\ Replied(m, Goes(m.call, "done"))
          /\ UNCHANGED <<table, wallet, ledger, intents, today, up>>

-----------------------------------------------------------------------------
(* Intents.  The websocket handler checks signature, nonce, payload and    *)
(* custody, and submits; the REST handlers come to the same command.       *)
Act(c) ==
    /\ call[c].at = "idle"
    /\ Ask(c, "submit", [call[c] EXCEPT !.kind = "act"])
    /\ UNCHANGED <<table, wallet, ledger, slots, intents, today, up, past>>

(* Told that the sim is unavailable, the client sends the same nonce once  *)
(* more (bound: that copy is not repeated by SimClient).  A nonce that     *)
(* validate_and_store_nonce remembers, for 300 s, and that has a row is    *)
(* answered from the row; any other one is submitted.                      *)
Resend(c) ==
    /\ call[c].kind = "act" /\ call[c].at = "failed"
    /\ call[c].tries < Resent
    /\ \/ /\ Events(c) # {}
          /\ call' = [call EXCEPT ![c].at = "done"]
          /\ UNCHANGED net
       \/ /\ call' = [call EXCEPT ![c].at = "submit", ![c].tries = Resent]
          /\ net' = net \cup {[call |-> c, at |-> "submit", try |-> Resent]}
    /\ UNCHANGED <<table, wallet, ledger, slots, intents, today, up, past>>

(* Mutant: the nonce is drawn by the sim.                                  *)
NumberedAnew(c) == <<c, Cardinality(Events(c)) + 1>>

(* The nonce is the client's, (session_id, nonce) is unique.               *)
Numbered(c) == <<c, 1>>

Submit(m) ==
    /\ m.at = "submit"
    /\ Executed(m)
    /\ intents' = intents \cup {Numbered(m.call)}
    /\ Replied(m, Goes(m.call, "polling"))
    /\ UNCHANGED <<table, wallet, ledger, slots, today, up>>

(* await_settled: the tick has settled the intent, or the request reports  *)
(* it pending when its time is over.                                       *)
Polled(c) ==
    /\ call[c].at = "polling"
    /\ call' = [call EXCEPT ![c].at = "done"]
    /\ UNCHANGED <<table, wallet, ledger, slots, intents, today, net, up, past>>

-----------------------------------------------------------------------------
Midnight ==
    /\ today < LastDay
    /\ today' = today + 1
    /\ UNCHANGED <<table, wallet, ledger, slots, intents, call, net, up, past>>

(* The sim dies with the requests it holds.                                *)
Crash ==
    /\ up
    /\ past.crashes < MaxCrashes
    /\ past' = [past EXCEPT !.crashes = @ + 1]
    /\ up' = FALSE
    /\ net' = {}
    /\ UNCHANGED <<table, wallet, ledger, slots, intents, today, call>>

Boot ==
    /\ ~up
    /\ up' = TRUE
    /\ UNCHANGED <<table, wallet, ledger, slots, intents, today, call, net, past>>

SimNext ==
    \/ \E c \in Calls :
         \/ Hello(c) \/ Save(c) \/ Note(c) \/ Act(c) \/ Resend(c) \/ Polled(c) \/ Generate(c)
         \/ TimesOut(c)
         \/ \E s \in Souls : Quip(c, s)
    \/ \E m \in net :
         \/ Grant(m) \/ Upsert(m) \/ Reserve(m) \/ Charge(m) \/ Release(m)
         \/ Ingest(m) \/ Finalize(m) \/ Submit(m)
    \/ \E s \in Souls, amount \in {-1, 1} : Outside(s, amount)
    \/ Midnight \/ Crash \/ Boot

SimSpec == SimInit /\ [][SimNext]_simVars

-----------------------------------------------------------------------------
SimTypeOK ==
    /\ rows \subseteq Souls /\ IF rows = {} THEN first = NoSoul ELSE first \in rows
    /\ wallet \in [Souls -> Nat] /\ ledger \in [Souls -> Int]
    /\ slots \in [Souls -> [Days -> Nat]]
    /\ intents \subseteq Calls \X Nat
    /\ today \in Days
    /\ call \in [Calls -> [kind : Kinds, at : Remote \cup Local, tries : 0..Resent,
                          soul : Souls \cup {NoSoul}, day : Days,
                          seen : [Souls -> Nat \cup {Unread, Unknown}]]]
    /\ net \subseteq [call : Calls, at : Remote, try : 1..Resent]
    /\ up \in BOOLEAN

(* Requests that hold a slot of the budget and have not paid for or given  *)
(* it back yet.                                                            *)
Holding(s, d) ==
    {c \in Calls : /\ call[c].soul = s /\ call[c].day = d
                   /\ call[c].at \in {"generate", "charge", "release", "finalize",
                                      "abandon"}
                   /\ <<c, call[c].at>> \notin past.executed}

(* Every quip that was charged and every request under way has a slot of   *)
(* its own in the budget of its day, whatever is lost, late or crashes     *)
(* between reservation, generation and charge, midnight included; only a   *)
(* command that is executed twice can free the slot of another.            *)
SlotsCovered ==
    ~past.twice =>
        \A s \in Souls, d \in Days :
            past.quipped[s][d] + Cardinality(Holding(s, d)) <= slots[s][d]

(* A wallet differs from its ledger only if it was written between the     *)
(* read and the write of a save (POST /souls), or a command was executed   *)
(* twice.                                                                  *)
WalletsExplained ==
    ~past.twice => \A s \in rows \ past.raced : wallet[s] = ledger[s]

(* A repeated request mints no second first soul and submits no second     *)
(* intent under the same nonce (sim_commands.py: at most once;             *)
(* sim_gateway.py: idempotent), and a client that is told its intent was   *)
(* accepted has one, however often transport and client repeated it.       *)
RetriesDoNotRepeat ==
    /\ past.granted <= 1
    /\ \A c \in Calls :
         call[c].kind = "act" =>
            /\ Cardinality(Events(c)) <= 1
            /\ call[c].at \in {"polling", "done"} => Events(c) # {}

(* market.py:24: the ledger is the truth and the wallets are caches of it, *)
(* also while the tamer saves.                                             *)
SavesKeepWallets == \A s \in rows : wallet[s] = ledger[s]
=============================================================================
