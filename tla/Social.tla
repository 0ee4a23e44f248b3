------------------------------- MODULE Social -------------------------------
(***************************************************************************)
(* The message board (server/social.py, server/routers/social.py): posts,  *)
(* replies, edits and deletions as durable intents on the queue of         *)
(* IntentPump.  A soul pays for what it writes: its essence is held when   *)
(* the intent is acknowledged and debited when the message appears; a      *)
(* tamer writes for nothing.  A message carries the key of its intent.     *)
(*                                                                         *)
(* One action is one database transaction.                                 *)
(***************************************************************************)
EXTENDS Inhabitants, IntentPump, Sums

CONSTANTS
    Tamers,
    Operator,      \* the identity of a request that carries no custodian
    Custodian,     \* souls.custodian_id
    Legacy,        \* messages already on the board
    NoMessage, NoParent, NoRequest,
    Requests,      \* the requests clients make
    PostCost, ReplyCost,
    MaxDepth,      \* MAX_DEPTH
    StartEssence,
    MaxDrained     \* bound: essence other parts of the program take

Authors == Souls \cup Tamers
Messages == Keys \cup Legacy
Cost == [social_post |-> PostCost, social_reply |-> ReplyCost]
PaidKinds == DOMAIN Cost

(* by: the identity that acts; author: author_id of the payload; target:   *)
(* parent_id of a reply, message_id of an edit or a deletion.              *)
RequestType ==
    [kind : {"social_post"}, by : Authors, custodian : Tamers \cup {Operator},
     author : Authors, target : {NoParent}]
    \cup
    [kind : {"social_reply", "social_edit", "social_delete"}, by : Authors,
     custodian : Tamers \cup {Operator}, author : Authors, target : Messages]

MessageType ==
    [parent : Messages \cup {NoParent}, author : Authors, deleted : BOOLEAN,
     body : Messages]

ASSUME SocialConstants ==
    /\ Souls \cap Tamers = {} /\ Operator \notin Tamers
    /\ Keys \cap Legacy = {} /\ NoParent \notin Messages
    /\ NoMessage \notin MessageType
    /\ Requests \subseteq RequestType /\ NoRequest \notin Requests
    /\ Custodian \in [Souls -> Tamers]
    /\ {PostCost, ReplyCost} \subseteq Nat \ {0}
    /\ MaxDepth \in Nat /\ MaxDrained \in Nat
    /\ StartEssence \in [Souls -> Nat]

VARIABLES
    request,   \* intents.kind, payload and identity
    escrow,    \* escrows.status; "none" when the intent has no escrow row
    essence,   \* souls.essence
    board,     \* the messages table; body names the intent it came with
    debits,    \* ledger: key -> essence debited under it
    spent      \* history: essence other parts took of each soul

moneyVars == <<escrow, essence, debits>>
socialVars == <<pumpVars, request, moneyVars, board, spent>>

(* The thread that is there already has a tamer for its author.            *)
SocialInit ==
    /\ PumpInit
    /\ request = [k \in Keys |-> NoRequest]
    /\ escrow = [k \in Keys |-> "none"]
    /\ essence = StartEssence
    /\ \E t \in Tamers :
         board = [m \in Messages |->
                    IF m \in Legacy
                    THEN [parent |-> NoParent, author |-> t, deleted |-> FALSE,
                          body |-> m]
                    ELSE NoMessage]
    /\ debits = [k \in Keys |-> 0]
    /\ spent = [s \in Souls |-> 0]

-----------------------------------------------------------------------------
Exists(m) == board[m] # NoMessage

(* message_depth: the length of the chain of parents above a message.      *)
Depth ==
    LET above[m \in Messages] ==
          IF ~Exists(m) \/ board[m].parent = NoParent THEN 0
          ELSE 1 + above[board[m].parent]
    IN  above

(* build_tree: a message is shown under its parent, or as a root when that *)
(* is not on the board.                                                    *)
Roots == {m \in Messages : Exists(m) /\ board[m].parent \notin {p \in Messages : Exists(p)}}
RepliesTo(m) == {r \in Messages : Exists(r) /\ board[r].parent = m}

Tree ==
    LET level[n \in Nat] ==
          IF n = 0 THEN Roots ELSE UNION {RepliesTo(m) : m \in level[n - 1]}
    IN  level

Dormant(a) == a \in Souls /\ essence[a] <= 0

(* _check_author: the identity acts as itself, as a soul in its custody,   *)
(* or is the operator.                                                     *)
MayAuthor(r) ==
    \/ r.custodian = Operator
    \/ r.author = r.by
    \/ r.author \in Souls /\ Custodian[r.author] = r.custodian

(* _check_parent                                                           *)
MayReplyTo(m) == Exists(m) /\ ~board[m].deleted /\ Depth[m] + 1 <= MaxDepth

(* _check_mutation_custody, and the dormancy of the author.                *)
MayMutate(r) ==
    /\ Exists(r.target)
    /\ r.custodian = Operator \/ board[r.target].author = r.by
    /\ ~Dormant(board[r.target].author)

Paying(r) == r.kind \in PaidKinds /\ r.author \in Souls

-----------------------------------------------------------------------------
(* enqueue_social_intent: one transaction inserts the intent and holds     *)
(* what a soul has to pay; a refusal rolls everything back.                *)
Record(k, r) ==
    /\ Insert(k)
    /\ r \in Requests
    /\ request' = [request EXCEPT ![k] = r]
    /\ UNCHANGED <<debits, board, spent>>

(* _hold_social_escrow                                                     *)
Hold(k, r) ==
    /\ essence[r.author] >= Cost[r.kind]
    /\ essence' = [essence EXCEPT ![r.author] = @ - Cost[r.kind]]
    /\ escrow' = [escrow EXCEPT ![k] = "held"]

EnqueueMessage(k, r) ==
    /\ r.kind \in PaidKinds
    /\ ~Dormant(r.author)
    /\ MayAuthor(r)
    /\ r.kind = "social_reply" => MayReplyTo(r.target)
    /\ Record(k, r)
    /\ IF Paying(r) THEN Hold(k, r) ELSE UNCHANGED <<escrow, essence>>

EnqueueMutation(k, r) ==
    /\ r.kind \notin PaidKinds
    /\ ~Dormant(r.by)
    /\ Record(k, r)
    /\ UNCHANGED <<escrow, essence>>

Resubmit(k) == Retry(k) /\ UNCHANGED <<request, moneyVars, board, spent>>

BeginPass == PumpBegin /\ UNCHANGED <<request, moneyVars, board, spent>>

-----------------------------------------------------------------------------
(* _settle_once.  The author is looked up again, so is the parent, and a   *)
(* soul whose purse has become empty, be it by the hold, is refused.       *)
(* Mutant: what the acknowledgement found still holds.                     *)
CanApplyAcknowledged(k) == MayAuthor(request[k]) /\ ~Dormant(request[k].author)

CanApply(k) ==
    LET r == request[k] IN
    /\ MayAuthor(r)
    /\ ~Dormant(r.author)
    /\ r.kind = "social_reply" => MayReplyTo(r.target)
    /\ Paying(r) => escrow[k] = "held"

(* The held essence is debited.                                            *)
Charge(k) ==
    IF Paying(request[k])
    THEN /\ escrow' = [escrow EXCEPT ![k] = "applied"]
         /\ debits' = [debits EXCEPT ![k] = Cost[request[k].kind]]
         /\ UNCHANGED essence
    ELSE UNCHANGED moneyVars

(* _apply_post, _apply_reply                                               *)
Publish(k) ==
    LET r == request[k] IN
    /\ Settle(k, "adjudicated")
    /\ NoFault
    /\ r.kind \in PaidKinds
    /\ CanApply(k)
    /\ board' = [board EXCEPT ![k] = [parent |-> r.target, author |-> r.author,
                                     deleted |-> FALSE, body |-> k]]
    /\ Charge(k)
    /\ UNCHANGED <<request, spent>>

(* _apply_edit                                                             *)
Edit(k) ==
    LET r == request[k] IN
    /\ Settle(k, "adjudicated")
    /\ NoFault
    /\ r.kind = "social_edit"
    /\ MayMutate(r) /\ ~board[r.target].deleted
    /\ board' = [board EXCEPT ![r.target].body = k]
    /\ UNCHANGED <<request, moneyVars, spent>>

(* Mutant: the row of the message is deleted.                              *)
ErasedRow(m) == [board EXCEPT ![m] = NoMessage]

(* The row stays as a tombstone, under which its replies remain.           *)
Erased(m) == [board EXCEPT ![m].deleted = TRUE]

(* _apply_delete                                                           *)
Delete(k) ==
    LET r == request[k] IN
    /\ Settle(k, "adjudicated")
    /\ NoFault
    /\ r.kind = "social_delete"
    /\ MayMutate(r)
    /\ board' = Erased(r.target)
    /\ UNCHANGED <<request, moneyVars, spent>>

(* Mutant: a refund does not look at the status of the escrow.             *)
ReleaseAnyway(k) ==
    IF Paying(request[k])
    THEN /\ essence' = [essence EXCEPT ![request[k].author] = @ + Cost[request[k].kind]]
         /\ escrow' = [escrow EXCEPT ![k] = "held"]
         /\ UNCHANGED debits
    ELSE UNCHANGED moneyVars

(* _release_escrow                                                         *)
Release(k) ==
    IF escrow[k] = "held"
    THEN /\ essence' = [essence EXCEPT ![request[k].author] = @ + Cost[request[k].kind]]
         /\ escrow' = [escrow EXCEPT ![k] = "released"]
         /\ UNCHANGED debits
    ELSE UNCHANGED moneyVars

(* A refusal of the tick gives back what was held, with the outcome.       *)
Refuse(k) ==
    LET r == request[k] IN
    /\ Settle(k, "rejected")
    /\ NoFault
    /\ \/ r.kind \in PaidKinds /\ ~CanApply(k)
       \/ r.kind \notin PaidKinds /\ ~MayMutate(r)
       \/ r.kind = "social_edit" /\ MayMutate(r) /\ board[r.target].deleted
    /\ Release(k)
    /\ UNCHANGED <<request, board, spent>>

-----------------------------------------------------------------------------
(* The settling transaction fails: _compensate_reject refunds and rejects, *)
(* or cannot begin and the pump rejects without refunding, or fails and    *)
(* leaves the intent for the next pass.                                    *)
Compensate(k) ==
    /\ Settle(k, "rejected")
    /\ Fault
    /\ Release(k)
    /\ UNCHANGED <<request, board, spent>>

RejectUncompensated(k) ==
    /\ Settle(k, "rejected")
    /\ Fault
    /\ UNCHANGED <<request, moneyVars, board, spent>>

LeavePending(k) ==
    /\ Postpone(k)
    /\ UNCHANGED <<request, moneyVars, board, spent>>

CrashSim == Crash /\ UNCHANGED <<request, moneyVars, board, spent>>

(* reconcile_escrows                                                       *)
Unfinished(k) == escrow[k] = "held" /\ status[k] # "pending"

Reconcile(k) ==
    /\ ~up
    /\ Unfinished(k)
    /\ IF status[k] = "adjudicated"
       THEN escrow' = [escrow EXCEPT ![k] = "applied"] /\ UNCHANGED <<essence, debits>>
       ELSE Release(k)
    /\ UNCHANGED <<pumpVars, request, board, spent>>

BootSim ==
    /\ Boot
    /\ \A k \in Keys : ~Unfinished(k)
    /\ UNCHANGED <<request, moneyVars, board, spent>>

(* A purchase, a thought or a quip drains the wallet further.              *)
Drain(s) ==
    /\ spent[s] < MaxDrained
    /\ essence[s] > 0
    /\ essence' = [essence EXCEPT ![s] = @ - 1]
    /\ spent' = [spent EXCEPT ![s] = @ + 1]
    /\ UNCHANGED <<pumpVars, request, escrow, debits, board>>

-----------------------------------------------------------------------------
SocialNext ==
    \/ \E k \in Keys :
         \/ \E r \in Requests : EnqueueMessage(k, r) \/ EnqueueMutation(k, r)
         \/ Resubmit(k)
         \/ Publish(k) \/ Edit(k) \/ Delete(k) \/ Refuse(k)
         \/ Compensate(k) \/ RejectUncompensated(k) \/ LeavePending(k)
         \/ Reconcile(k)
    \/ BeginPass \/ CrashSim \/ BootSim
    \/ \E s \in Souls : Drain(s)

SocialSpec == SocialInit /\ [][SocialNext]_socialVars

-----------------------------------------------------------------------------
SocialTypeOK ==
    /\ PumpTypeOK
    /\ request \in [Keys -> Requests \cup {NoRequest}]
    /\ escrow \in [Keys -> {"none", "held", "applied", "released"}]
    /\ essence \in [Souls -> Nat]
    /\ board \in [Messages -> MessageType \cup {NoMessage}]
    /\ debits \in [Keys -> Nat]
    /\ spent \in [Souls -> Nat]

(* The intents of a kind about a message that went through.                *)
Done(kind, m) ==
    {k \in Keys : /\ status[k] = "adjudicated"
                  /\ request[k].kind = kind /\ request[k].target = m}

(* The body a message should have: that of the last edit its writers made, *)
(* in the order of the acknowledgements, or its own.                       *)
LastBody(m) ==
    IF Done("social_edit", m) = {} THEN {m}
    ELSE {k \in Done("social_edit", m) :
            \A j \in Done("social_edit", m) : born[j] <= born[k]}

(* The board is what the adjudicated intents made of it: the messages of   *)
(* the posts and replies that went through and no others, each where it    *)
(* was written and shown no deeper than the cap; a deletion leaves what is *)
(* below it standing; and unless a failed write put an edit off, the last  *)
(* edit acknowledged is the one that shows.                                *)
BoardFollowsIntents ==
    /\ \A k \in Keys :
         Exists(k) <=> /\ status[k] = "adjudicated"
                       /\ request[k].kind \in PaidKinds
    /\ \A m \in Messages :
         Exists(m) =>
            /\ board[m].parent # NoParent => Exists(board[m].parent)
            /\ \E n \in 0..MaxDepth : m \in Tree[n]
            /\ board[m].deleted <=> Done("social_delete", m) # {}
            /\ Done("social_edit", m) \cap late = {}
                 => board[m].body \in LastBody(m)

(* A reply that was acknowledged while its parent stood does not appear    *)
(* under it once the parent has been deleted.                              *)
NoReplyUnderTombstone ==
    [][\A k \in Keys :
          /\ ~Exists(k) /\ board'[k] # NoMessage
          /\ board'[k].parent # NoParent
          => ~board'[board'[k].parent].deleted]_socialVars

(* The intents a soul pays for, and what each of them costs.               *)
PaidBy(s) ==
    {k \in Keys : request[k] # NoRequest /\ Paying(request[k]) /\ request[k].author = s}

HeldFor(s) == {k \in PaidBy(s) : escrow[k] = "held"}

Price == [k \in {j \in Keys : request[j] # NoRequest /\ Paying(request[j])} |->
            Cost[request[k].kind]]

(* What a soul had at first is in its purse, spent elsewhere, held for an  *)
(* intent, or debited for a message of its own that is on the board:       *)
(* refusals, failed writes, crashes and repeated requests cost it nothing. *)
PurseExplained ==
    \A s \in Souls :
        /\ essence[s] + Total(Price, HeldFor(s)) + Total(debits, PaidBy(s)) + spent[s]
             = StartEssence[s]
        /\ \A k \in PaidBy(s) : debits[k] > 0 <=> Exists(k)
=============================================================================
