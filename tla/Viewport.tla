------------------------------ MODULE Viewport ------------------------------
(***************************************************************************)
(* What a custodian's client sees of the world: the viewport stream of the *)
(* API process (server/viewport.py), the connection handler that feeds it  *)
(* (server/routers/websockets.py, server/managers.py) and the consumer on  *)
(* the desktop (client/system/network/viewport_client.py).                 *)
(*                                                                         *)
(* One owner, whose connections are numbered in the order they are made.   *)
(* The world changes on its own; the pump of the live connection reads it, *)
(* waits for the tick id, diffs it against what the session counts as      *)
(* told, and flushes.  A send returns while fewer than Window frames are   *)
(* in flight and waits otherwise.  Positions are on a line.                *)
(***************************************************************************)
EXTENDS Inhabitants, Integers, Sequences, FiniteSets, SequencesExt

CONSTANTS
    Domains,      \* the entity streams the instance carries
    LastPlace,    \* positions are 0..LastPlace
    MoveEpsilon,  \* MOVE_EPSILON_PX
    SnapJump,     \* SNAP_JUMP_PX
    HighWater,    \* HIGH_WATER_OPS
    MaxSlow,      \* MAX_SLOW_FLUSHES
    RingSize,     \* RING_BUFFER_SIZE
    Window,       \* frames a connection takes before a send waits
    MaxConns,     \* bound: connections
    MaxChanges,   \* bound: changes of the world
    MaxLosses     \* bound: failures of the network or of a pump

Streams == {"state", "dormancy", "biology", "identity"}
Conns == 1..MaxConns
Places == 0..LastPlace

ASSUME ViewportConstants ==
    /\ IsFiniteSet(Souls) /\ Domains \subseteq Streams
    /\ {LastPlace, MoveEpsilon, SnapJump, MaxChanges, MaxLosses} \subseteq Nat
    /\ {HighWater, MaxSlow, RingSize, MaxConns} \subseteq Nat \ {0} /\ Window \in Nat

VARIABLES
    hub,      \* the tables: [at, look, away, purse]
    unsaid,   \* souls whose purse the sim changed after the last trade
    note,     \* the bubble posted: "none", "api" or "sim", by its process
    vp,       \* ViewportManager.sessions of the API process
    handler,  \* where websocket_presence is, per connection
    pump,     \* _viewport_pump of the newest connection: [pc, seen, frame]
    replay,   \* the resume under way: [old, frames]; old = 0 for none
    wire,     \* frames in flight to the client
    client,   \* the consumer and what the client knows of its connections
    spent     \* [changes, losses], against the bounds

viewportVars ==
    <<hub, unsaid, note, vp, handler, pump, replay, wire, client, spent>>

Cur == Cardinality({c \in Conns : handler[c] # "none"})
At(stages) == Cur # 0 /\ handler[Cur] \in stages
Serving == {"greet", "serving", "replaying", "sending", "resync"}
NoBack == [conn |-> 0, seq |-> 0]
NoReplay == [old |-> 0, frames |-> <<>>]
Without(f, S) == [x \in DOMAIN f \ S |-> f[x]]
With(f, x, v) == [y \in DOMAIN f \cup {x} |-> IF y = x THEN v ELSE f[y]]
Over(f, g) == [x \in DOMAIN f \cup DOMAIN g |-> IF x \in DOMAIN f THEN f[x] ELSE g[x]]
Has(f, x, v) == x \in DOMAIN f /\ f[x] = v
None == <<>>   \* the function of empty domain

(* The members of q that are in T, in their order.                         *)
Among(q, T) ==
    LET picked[n \in 0..Len(q)] ==
          IF n = 0 THEN <<>>
          ELSE IF q[n] \in T THEN Append(picked[n - 1], q[n]) ELSE picked[n - 1]
    IN picked[Len(q)]

-----------------------------------------------------------------------------
(* What the API process reads.                                             *)

ReadPositions == hub.at
ReadSoulStates == [s \in Souls |-> hub.look[s]["state"]]
ReadDormancy == [s \in Souls |-> hub.look[s]["dormancy"]]
ReadBiology == [s \in Souls |-> hub.look[s]["biology"]]
ReadIdentities == [s \in Souls |-> hub.look[s]["identity"]]
ReadWallets == hub.purse
ReadAbroad == hub.away

ReadLooks ==
    [d \in Domains |-> CASE d = "state" -> ReadSoulStates
                         [] d = "dormancy" -> ReadDormancy
                         [] d = "biology" -> ReadBiology
                         [] d = "identity" -> ReadIdentities]

(* The pump withholds the souls that are abroad.                           *)
View == [at     |-> Without(ReadPositions, ReadAbroad),
         look   |-> [d \in Domains |-> Without(ReadLooks[d], ReadAbroad)],
         abroad |-> ReadAbroad]

-----------------------------------------------------------------------------
(* The ops of a frame, and the diffs that make them.                       *)

Op(kind, s, d, v) == [op |-> kind, soul |-> s, domain |-> d, value |-> v, snap |-> FALSE]
MoveOp(s, p, far) == [Op("upsert", s, "move", p) EXCEPT !.snap = far]
RemoveOp(s) == Op("remove", s, "", 0)
EconomyOp(s, e) == Op("upsert", s, "economy", e)
StateOp(s, v) == Op("upsert", s, "state", v)
DormancyOp(s, v) == Op("upsert", s, "dormancy", v)
BiologyOp(s, v) == Op("upsert", s, "biology", v)
IdentityOp(s, v) == Op("upsert", s, "identity", v)
BubbleOp(s) == Op("bubble", s, "", Cur)   \* the value: the connection it is posted to
AbroadOp(s) == Op("abroad", s, "", 0)
AbroadEndOp(s) == Op("abroad_end", s, "", 0)

Each(S, op(_)) == LET q == SetToSeq(S) IN [i \in DOMAIN q |-> op(q[i])]
Span(p, q) == IF p > q THEN p - q ELSE q - p

(* diff_positions: the moves, as a function of the soul, and the removes.  *)
DiffPositions(at, told) ==
    LET fresh == DOMAIN at \ DOMAIN told
        moved == {s \in DOMAIN at \cap DOMAIN told : Span(at[s], told[s]) > MoveEpsilon}
    IN [moves   |-> [s \in fresh \cup moved |->
                        MoveOp(s, at[s], s \in fresh \/ Span(at[s], told[s]) > SnapJump)],
        removes |-> Each(DOMAIN told \ DOMAIN at, RemoveOp)]

Changed(d, look, told) ==
    IF d \in Domains
    THEN {s \in DOMAIN look[d] : ~Has(told[d], s, look[d][s])}
    ELSE {}

DiffStates(look, told) ==
    Each(Changed("state", look, told), LAMBDA s : StateOp(s, look["state"][s]))
DiffDormancy(look, told) ==
    Each(Changed("dormancy", look, told), LAMBDA s : DormancyOp(s, look["dormancy"][s]))
DiffBiology(look, told) ==
    Each(Changed("biology", look, told), LAMBDA s : BiologyOp(s, look["biology"][s]))
DiffIdentities(look, told) ==
    Each(Changed("identity", look, told), LAMBDA s : IdentityOp(s, look["identity"][s]))

(* diff_abroad: a changed summary, and the souls that came back.  It       *)
(* commits what it emits.  The heartbeat that repeats a summary every      *)
(* ABROAD_CADENCE_S is left out: it tells a client nothing new.            *)
DiffAbroad(abroad, told) ==
    Each(abroad \ told, AbroadOp) \o Each(told \ abroad, AbroadEndOp)

-----------------------------------------------------------------------------
(* ViewportSession.                                                        *)

NewSession ==
    [seq |-> 0, ring |-> <<>>, live |-> TRUE, kept |-> TRUE, slow |-> 0,
     at |-> None, look |-> [d \in Domains |-> None], abroad |-> {},
     moves |-> None, queue |-> <<>>,
     sent |-> {}, crossed |-> FALSE, after |-> 0, veiled |-> {}]

NoSession == [NewSession EXCEPT !.live = FALSE, !.kept = FALSE]

(* enqueue: a move replaces the one that waits, and stays a snap.          *)
Coalesced(waiting, moves) ==
    [s \in DOMAIN waiting \cup DOMAIN moves |->
        IF s \notin DOMAIN moves THEN waiting[s]
        ELSE [moves[s] EXCEPT !.snap = @ \/ (s \in DOMAIN waiting /\ waiting[s].snap)]]
Enqueued(v, ops) == [v EXCEPT !.queue = @ \o ops]

PendingCount(v) == Cardinality(DOMAIN v.moves) + Len(v.queue)
QueueFull(v) == PendingCount(v) > HighWater
TakePending(v) == v.queue \o Each(DOMAIN v.moves, LAMBDA s : v.moves[s])

Ringed(ring, entry) ==
    LET longer == Append(ring, entry) IN
    IF Len(longer) > RingSize THEN Tail(longer) ELSE longer

Delta(n, from, ops) == [kind |-> "delta", seq |-> n, id |-> from, ops |-> ops]

Snapshot(n) ==
    [kind |-> "snapshot", seq |-> n,
     at |-> Without(ReadPositions, ReadAbroad),
     look |-> [d \in Domains |-> Without(ReadLooks[d], ReadAbroad)],
     abroad |-> ReadAbroad, wallets |-> ReadWallets]

Numbered(v) == [v EXCEPT !.seq = @ + 1]

(* A mutant of Logged: the ring keeps the bubbles.                         *)
LoggedWhole(v, frame) ==
    [v EXCEPT !.ring = Ringed(@, [seq |-> frame.seq, id |-> frame.id, ops |-> frame.ops]),
              !.sent = @ \cup {frame.id}]

(* The ring copy of a frame has no bubble.                                 *)
Lasting(ops) == Among(ops, {o \in Range(ops) : o.op # "bubble"})
Logged(v, frame) ==
    [v EXCEPT !.ring = Ringed(@, [seq |-> frame.seq, id |-> frame.id,
                                  ops |-> Lasting(frame.ops)]),
              !.sent = @ \cup {frame.id}]

(* What build_snapshot leaves in the session.  The looks of the souls that *)
(* are abroad count as told, though the frame has none of them.            *)
Snapped(v) ==
    [Numbered(v) EXCEPT !.at = Without(ReadPositions, ReadAbroad),
                        !.look = ReadLooks,
                        !.abroad = ReadAbroad,
                        !.crossed = @ \/ pump.pc = "sending",
                        !.veiled = ReadAbroad]

(* A mutant of Committed: it commits what the tables say by now.           *)
CommittedNow(v, frame, seen) ==
    [Numbered(Logged(v, frame)) EXCEPT !.at = View.at, !.look = View.look, !.slow = 0]

(* The rest of flush, when the send is over: what the pump read is what    *)
(* the client was told.                                                    *)
Committed(v, frame, seen) ==
    [Numbered(Logged(v, frame)) EXCEPT !.at = seen.at, !.look = seen.look, !.slow = 0]

-----------------------------------------------------------------------------
(* ViewportConsumer.                                                       *)

EmptyView == [track |-> None, look |-> [d \in Domains |-> None], abroad |-> {},
              wallet |-> None, bubbles |-> 0]

Fine == {"state", "dormancy", "biology"}

ApplyOp(w, o) ==
    CASE o.op = "remove" ->
           [w EXCEPT !.track = Without(@, {o.soul}),
                     !.look = [d \in Domains |-> Without(@[d], {o.soul})],
                     !.wallet = Without(@, {o.soul})]
      [] o.op = "abroad_end" -> [w EXCEPT !.abroad = @ \ {o.soul}]
      [] o.op = "abroad" ->
           [w EXCEPT !.abroad = @ \cup {o.soul},
                     !.track = Without(@, {o.soul}),
                     !.look = [d \in Domains |->
                                 IF d \in Fine THEN Without(@[d], {o.soul}) ELSE @[d]]]
      [] o.op = "bubble" -> [w EXCEPT !.bubbles = @ + 1]
      [] o.op = "upsert" /\ o.domain = "move" -> [w EXCEPT !.track = With(@, o.soul, o.value)]
      [] o.op = "upsert" /\ o.domain = "economy" -> [w EXCEPT !.wallet = With(@, o.soul, o.value)]
      [] OTHER -> [w EXCEPT !.look[o.domain] = With(@, o.soul, o.value)]

ApplyDelta(w, ops) ==
    LET applied[n \in 0..Len(ops)] ==
          IF n = 0 THEN w ELSE ApplyOp(applied[n - 1], ops[n])
    IN applied[Len(ops)]

(* A soul the snapshot no longer has loses all it had, one that is abroad  *)
(* its position and fine state.                                            *)
ApplySnapshot(w, frame) ==
    LET gone == DOMAIN w.track \ DOMAIN frame.at
        hidden(d) == gone \cup (IF d \in Fine THEN frame.abroad ELSE {})
    IN [w EXCEPT !.track = frame.at,
                 !.look = [d \in Domains |-> Over(frame.look[d], Without(@[d], hidden(d)))],
                 !.abroad = frame.abroad,
                 !.wallet = frame.wallets]

ApplyFrame(w, frame) ==
    IF frame.kind = "snapshot" THEN ApplySnapshot(w, frame) ELSE ApplyDelta(w, frame.ops)

-----------------------------------------------------------------------------
(* The world, and the processes that post to the viewport.                 *)

Reaches(c) == vp[c].kept /\ vp[c].live
Change == Cur # 0 /\ spent.changes < MaxChanges /\ spent' = [spent EXCEPT !.changes = @ + 1]

NotifyEconomy(s, e) ==
    vp' = [c \in Conns |-> IF Reaches(c) THEN Enqueued(vp[c], <<EconomyOp(s, e)>>) ELSE vp[c]]
NotifyEconomySoul(s) == NotifyEconomy(s, hub'.purse[s])
NotifyBubble(s) ==
    vp' = [c \in Conns |-> IF Reaches(c) THEN Enqueued(vp[c], <<BubbleOp(s)>>) ELSE vp[c]]

(* The sim process calls the same methods of a manager of its own, which   *)
(* no connection has ever been put in.                                     *)
SimNotify == UNCHANGED vp

Roam ==
    \E s \in Souls \ hub.away, p \in Places :
        /\ p # hub.at[s]
        /\ hub' = [hub EXCEPT !.at[s] = p]
        /\ Change
        /\ UNCHANGED <<unsaid, note, vp, handler, pump, replay, wire, client>>

Alter ==
    \E s \in Souls, d \in Domains :
        /\ hub' = [hub EXCEPT !.look[s][d] = 1 - @]
        /\ Change
        /\ UNCHANGED <<unsaid, note, vp, handler, pump, replay, wire, client>>

Depart ==
    \E s \in Souls \ hub.away :
        /\ hub' = [hub EXCEPT !.away = @ \cup {s}]
        /\ Change
        /\ UNCHANGED <<unsaid, note, vp, handler, pump, replay, wire, client>>

Return ==
    \E s \in hub.away :
        /\ hub' = [hub EXCEPT !.away = @ \ {s}]
        /\ Change
        /\ UNCHANGED <<unsaid, note, vp, handler, pump, replay, wire, client>>

(* A purchase settles and buy_item tells the owner's sessions.             *)
Trade ==
    \E s \in Souls :
        /\ hub' = [hub EXCEPT !.purse[s] = 1 - @]
        /\ unsaid' = unsaid \ {s}
        /\ Change
        /\ NotifyEconomySoul(s)
        /\ UNCHANGED <<note, handler, pump, replay, wire, client>>

(* feed_soul is adjudicated in the sim process.                            *)
Feed ==
    \E s \in Souls :
        /\ hub' = [hub EXCEPT !.purse[s] = 1 - @]
        /\ unsaid' = unsaid \cup {s}
        /\ Change
        /\ SimNotify
        /\ UNCHANGED <<note, handler, pump, replay, wire, client>>

(* A quip is generated and said by the API process.                        *)
Quip ==
    \E s \in Souls :
        /\ note = "none"
        /\ note' = "api"
        /\ Change
        /\ NotifyBubble(s)
        /\ UNCHANGED <<hub, unsaid, handler, pump, replay, wire, client>>

(* A farewell, a morning note, a question, a heart: said by the sim.       *)
FanBubble ==
    /\ note = "none"
    /\ note' = "sim"
    /\ Change
    /\ SimNotify
    /\ UNCHANGED <<hub, unsaid, handler, pump, replay, wire, client>>

World == Roam \/ Alter \/ Depart \/ Return \/ Trade \/ Feed \/ Quip \/ FanBubble

-----------------------------------------------------------------------------
(* The pump.                                                               *)

NoView == [at |-> None, look |-> [d \in Domains |-> None], abroad |-> {}]
NoFrame == Delta(0, <<0, 0>>, <<>>)
Pump(pc) == [pc |-> pc, seen |-> NoView, frame |-> NoFrame]
Sends(frame) == wire' = IF client.up THEN Append(wire, frame) ELSE wire
Crowded(w) == Len(w) > Window

(* The pump reads the world, and waits for the tick id.                    *)
PumpRead ==
    /\ pump.pc = "asleep"
    /\ pump' = [pump EXCEPT !.pc = "read", !.seen = View]
    /\ UNCHANGED <<hub, unsaid, note, vp, handler, replay, wire, client, spent>>

(* flush, once the session's lock is free.                                 *)
Flush(c, v) ==
    CASE PendingCount(v) = 0 ->
           /\ vp' = [vp EXCEPT ![c] = [v EXCEPT !.slow = 0]]
           /\ pump' = Pump("asleep")
           /\ UNCHANGED <<wire, handler>>
      [] QueueFull(v) ->
           /\ vp' = [vp EXCEPT ![c] = [v EXCEPT !.slow = @ + 1]]
           /\ pump' = Pump(IF v.slow + 1 >= MaxSlow THEN "dead" ELSE "asleep")
           /\ handler' = [handler EXCEPT ![c] = IF v.slow + 1 >= MaxSlow THEN "closed" ELSE @]
           /\ UNCHANGED wire
      [] OTHER ->
           LET frame == Delta(v.seq, <<c, v.seq>>, TakePending(v))
               taken == [v EXCEPT !.queue = <<>>, !.moves = None]
           IN /\ Sends(frame)
              /\ IF Crowded(wire')
                 THEN /\ vp' = [vp EXCEPT ![c] = taken]
                      /\ pump' = [pump EXCEPT !.pc = "sending", !.frame = frame]
                 ELSE /\ vp' = [vp EXCEPT ![c] = Committed(taken, frame, pump.seen)]
                      /\ pump' = Pump("asleep")
              /\ UNCHANGED handler

(* The diffs of what was read against what was told, queued.               *)
Diffed(v, seen) ==
    LET diff == DiffPositions(seen.at, v.at)
        ops == diff.removes \o DiffStates(seen.look, v.look) \o DiffDormancy(seen.look, v.look)
                 \o DiffBiology(seen.look, v.look) \o DiffIdentities(seen.look, v.look)
                 \o DiffAbroad(seen.abroad, v.abroad)
    IN [Enqueued(v, ops) EXCEPT !.moves = Coalesced(@, diff.moves), !.abroad = seen.abroad]

(* The flush waits if a resume holds the lock.                             *)
PumpDiff ==
    /\ pump.pc = "read"
    /\ LET v == Diffed(vp[Cur], pump.seen) IN
       IF At({"sending"})
       THEN /\ vp' = [vp EXCEPT ![Cur] = v]
            /\ pump' = [pump EXCEPT !.pc = "locked"]
            /\ UNCHANGED <<wire, handler>>
       ELSE Flush(Cur, v)
    /\ UNCHANGED <<hub, unsaid, note, replay, client, spent>>

PumpLocked ==
    /\ pump.pc = "locked" /\ ~At({"sending"})
    /\ Flush(Cur, vp[Cur])
    /\ UNCHANGED <<hub, unsaid, note, replay, client, spent>>

PumpSent ==
    /\ pump.pc = "sending" /\ ~Crowded(wire)
    /\ vp' = [vp EXCEPT ![Cur] = Committed(@, pump.frame, pump.seen)]
    /\ pump' = Pump("asleep")
    /\ UNCHANGED <<hub, unsaid, note, handler, replay, wire, client, spent>>

(* A read fails: the pump logs and ends, the connection stays.             *)
PumpFails ==
    /\ pump.pc = "asleep" /\ spent.losses < MaxLosses
    /\ pump' = Pump("dead")
    /\ spent' = [spent EXCEPT !.losses = @ + 1]
    /\ UNCHANGED <<hub, unsaid, note, vp, handler, replay, wire, client>>

Pumps == PumpRead \/ PumpDiff \/ PumpLocked \/ PumpSent

-----------------------------------------------------------------------------
(* The connection.                                                         *)

(* What is left of a session when its connection is gone: only resume will *)
(* look at it.                                                             *)
Left(v) == [v EXCEPT !.live = FALSE, !.moves = None, !.queue = <<>>, !.abroad = {}, !.slow = 0]

(* manager.connect closes the socket of the owner's connection before, so  *)
(* that its handler ends.  The consumer keeps what it shows.  A client     *)
(* that will ask to resume keeps its conn_id and the seq it got to; nobody *)
(* will look at any other session again, and the model forgets it.         *)
Dial ==
    \E back \in {NoBack, [conn |-> Cur, seq |-> client.seq]} :
        LET c == Cur + 1 IN
        /\ ~client.up /\ c \in Conns
        /\ vp' = [d \in Conns |-> IF d = c THEN NewSession
                                   ELSE IF d = back.conn THEN Left(vp[d]) ELSE NoSession]
        /\ handler' = [d \in Conns |-> IF d = c THEN "greet" ELSE IF d < c THEN "ended" ELSE "none"]
        /\ pump' = Pump("asleep")
        /\ replay' = NoReplay
        /\ client' = [client EXCEPT !.up = TRUE, !.seq = 0 - 1, !.back = back,
                                    !.heard = IF back.conn = 0 THEN {} ELSE @]
        /\ UNCHANGED <<hub, unsaid, note, wire, spent>>

(* The JOIN snapshot.  The pump is already running.                        *)
Greet ==
    /\ At({"greet"}) /\ ~Crowded(wire)
    /\ Sends(Snapshot(vp[Cur].seq))
    /\ vp' = [vp EXCEPT ![Cur] = Snapped(@)]
    /\ handler' = [handler EXCEPT ![Cur] = "serving"]
    /\ UNCHANGED <<hub, unsaid, note, pump, replay, client, spent>>

(* A mutant of Replayable: frames lost off the ring are not missed.        *)
ReplayableAnyway(old, last) == old.kept /\ last < old.seq

(* Whether the ring still has every frame after last.                      *)
Replayable(old, last) ==
    /\ old.kept
    /\ IF old.ring = <<>> THEN last = old.seq - 1
       ELSE last >= old.ring[1].seq - 1 /\ last < old.seq

(* The desktop client never sends "resume"; a client of the protocol may,  *)
(* once per connection, with its last connection and the seq it got to.    *)
Resume ==
    /\ client.up /\ client.back.conn # 0 /\ At({"serving"})
    /\ client' = [client EXCEPT !.back = NoBack]
    /\ LET old == vp[client.back.conn]
           last == client.back.seq
           stage == IF ~Replayable(old, last) THEN "resync"
                    ELSE IF old.ring = <<>> THEN "serving" ELSE "replaying"
       IN /\ replay' = IF stage # "replaying" THEN NoReplay
                       ELSE [old |-> client.back.conn,
                             frames |-> Among(old.ring, {f \in Range(old.ring) : f.seq > last})]
          /\ handler' = [handler EXCEPT ![Cur] = stage]
          /\ vp' = IF stage = "replaying" THEN vp
                   ELSE [vp EXCEPT ![client.back.conn] = NoSession]
    /\ UNCHANGED <<hub, unsaid, note, pump, wire, spent>>

(* Under the lock, frame by frame.                                         *)
ReplayFrame ==
    /\ \/ At({"replaying"}) /\ pump.pc # "sending"
       \/ At({"sending"})
    /\ replay.frames # <<>> /\ ~Crowded(wire)
    /\ LET f == Head(replay.frames)
           n == vp[Cur].seq
       IN /\ Sends(Delta(n, f.id, f.ops))
          /\ vp' = [vp EXCEPT ![Cur] = Numbered(Logged(@, [f EXCEPT !.seq = n]))]
    /\ replay' = [replay EXCEPT !.frames = Tail(@)]
    /\ handler' = [handler EXCEPT ![Cur] = "sending"]
    /\ UNCHANGED <<hub, unsaid, note, pump, client, spent>>

(* What the old session was told counts as told; its abroad set does not   *)
(* come along.  The old session is dropped.                                *)
ReplayDone ==
    /\ \/ At({"replaying"}) /\ pump.pc # "sending"
       \/ At({"sending"}) /\ ~Crowded(wire)
    /\ replay.frames = <<>>
    /\ vp' = [vp EXCEPT ![Cur].at = vp[replay.old].at,
                        ![Cur].look = vp[replay.old].look,
                        ![Cur].crossed = TRUE,
                        ![Cur].after = replay.old,
                        ![replay.old] = [NoSession EXCEPT !.sent = vp[replay.old].sent]]
    /\ replay' = NoReplay
    /\ handler' = [handler EXCEPT ![Cur] = "serving"]
    /\ UNCHANGED <<hub, unsaid, note, pump, wire, client, spent>>

Resync ==
    /\ At({"resync"}) /\ ~Crowded(wire)
    /\ Sends(Snapshot(vp[Cur].seq))
    /\ vp' = [vp EXCEPT ![Cur] = Snapped(@)]
    /\ handler' = [handler EXCEPT ![Cur] = "serving"]
    /\ UNCHANGED <<hub, unsaid, note, pump, replay, client, spent>>

(* The finally of websocket_presence.                                      *)
Finish ==
    /\ At({"closed"}) \/ (At(Serving) /\ ~client.up)
    /\ handler' = [handler EXCEPT ![Cur] = "ended"]
    /\ vp' = [vp EXCEPT ![Cur] = Left(@)]
    /\ pump' = Pump("dead")
    /\ replay' = NoReplay
    /\ UNCHANGED <<hub, unsaid, note, wire, client, spent>>

(* RESUME_TTL_SECONDS pass: the session of a connection that is gone is    *)
(* evicted.                                                                *)
Expire ==
    \E c \in Conns :
        /\ vp[c].kept /\ handler[c] = "ended"
        /\ replay.old # c
        /\ vp' = [vp EXCEPT ![c] = NoSession]
        /\ UNCHANGED <<hub, unsaid, note, handler, pump, replay, wire, client, spent>>

Handler == Greet \/ ReplayFrame \/ ReplayDone \/ Resync

-----------------------------------------------------------------------------
(* The client.                                                             *)

(* _listen hands the frame to the consumer.                                *)
Hear ==
    /\ wire # <<>>
    /\ LET frame == Head(wire)
           known == frame.kind = "delta"
       IN client' = [client EXCEPT
              !.view = ApplyFrame(@, frame), !.seq = frame.seq,
              !.heard = IF known THEN @ \cup {frame.id} ELSE @,
              !.twice = @ \/ (known /\ frame.id \in client.heard),
              !.late = @ \/ (known /\ \E i \in DOMAIN frame.ops :
                                 frame.ops[i].op = "bubble" /\ frame.ops[i].value # Cur)]
    /\ wire' = Tail(wire)
    /\ UNCHANGED <<hub, unsaid, note, vp, handler, pump, replay, spent>>

Drops ==
    /\ client.up
    /\ client' = [client EXCEPT !.up = FALSE]
    /\ wire' = <<>>
    /\ UNCHANGED <<hub, unsaid, note, vp, handler, pump, replay>>

Lose == Drops /\ spent.losses < MaxLosses /\ spent' = [spent EXCEPT !.losses = @ + 1]
SeeClosed == Drops /\ At({"closed", "ended"}) /\ wire = <<>> /\ UNCHANGED spent

-----------------------------------------------------------------------------
ViewportInit ==
    /\ hub = [at |-> [s \in Souls |-> 0], look |-> [s \in Souls |-> [d \in Streams |-> 0]],
              away |-> {}, purse |-> [s \in Souls |-> 0]]
    /\ unsaid = {} /\ note = "none"
    /\ vp = [c \in Conns |-> NoSession]
    /\ handler = [c \in Conns |-> "none"]
    /\ pump = Pump("dead") /\ replay = NoReplay /\ wire = <<>>
    /\ client = [up |-> FALSE, seq |-> 0, back |-> NoBack,
                 view |-> EmptyView, heard |-> {}, twice |-> FALSE, late |-> FALSE]
    /\ spent = [changes |-> 0, losses |-> 0]

ViewportNext ==
    \/ World \/ Pumps \/ PumpFails \/ Handler
    \/ Dial \/ Resume \/ Finish \/ Expire
    \/ Hear \/ Lose \/ SeeClosed

ViewportSpec == ViewportInit /\ [][ViewportNext]_viewportVars

-----------------------------------------------------------------------------
(* The shapes of the sessions, the pump and the consumer.                  *)
ViewportTypeOK ==
    /\ hub.at \in [Souls -> Places] /\ hub.away \subseteq Souls
    /\ \A c \in Conns : /\ DOMAIN vp[c].at \subseteq Souls /\ vp[c].abroad \subseteq Souls
                        /\ vp[c].slow \in 0..MaxSlow /\ Len(vp[c].ring) <= RingSize
                        /\ vp[c].live => handler[c] \in Serving \cup {"closed"}
    /\ pump.pc \in {"asleep", "read", "locked", "sending", "dead"}
    /\ replay.old \in 0..MaxConns
    /\ DOMAIN client.view.track \subseteq Souls /\ client.view.abroad \subseteq Souls

(* A bubble is shown on the connection it was posted to or never: no       *)
(* replay brings back what a soul said before (the ring copy in flush).    *)
BubblesFresh == ~client.late /\ client.view.bubbles <= 1

(* When a resume has been answered from the ring and all is delivered, the *)
(* client has had each frame the old session sent, and none of them twice  *)
(* (ViewportManager.resume).                                               *)
ReplayExact ==
    /\ ~client.twice
    /\ LET v == vp[Cur] IN
       Cur # 0 /\ client.up /\ wire = <<>> /\ v.after # 0 => vp[v.after].sent \subseteq client.heard

(* What the client shows is what the tables say.  A soul that was abroad   *)
(* when the snapshot was taken may lack a look, and one that left lacks    *)
(* its wallet; what is shown is never out of date, but for the identity of *)
(* a soul that was abroad when the snapshot was taken: build_snapshot      *)
(* withholds it (viewport.py:497) and commits it as told (viewport.py:527), *)
(* so that the diffs leave it out when the soul comes home.                *)
Shown ==
    LET w == client.view
        home == Souls \ hub.away
    IN /\ w.track = Without(hub.at, hub.away)
       /\ w.abroad = hub.away
       /\ \A d \in Domains, s \in home :
             s \in DOMAIN w.look[d] /\ ~(d = "identity" /\ s \in vp[Cur].veiled)
               => w.look[d][s] = hub.look[s][d]
       /\ \A s \in DOMAIN w.wallet :
             s \notin unsaid => w.wallet[s] = hub.purse[s]

(* Nothing is in flight or queued, and the pump would find nothing to say. *)
AtRest ==
    /\ client.up /\ At({"serving"}) /\ wire = <<>> /\ pump.pc = "asleep"
    /\ PendingCount(Diffed(vp[Cur], View)) = 0

(* Whenever the stream is at rest, the client shows the world as it is,    *)
(* unless a replay, or a snapshot in the middle of a flush, was put over   *)
(* newer frames on this connection.                                        *)
RestShows == AtRest /\ ~vp[Cur].crossed => Shown

=============================================================================
