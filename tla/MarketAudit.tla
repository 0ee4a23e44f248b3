---------------------------- MODULE MarketAudit -----------------------------
(***************************************************************************)
(* verify_balances (server/market.py): the audit that recomputes the       *)
(* cached wallets from the ledger, reports the ones that drifted and, when *)
(* asked to, overwrites them.  It opens no transaction for its reads: the  *)
(* sums of the ledger and each wallet are read by statements of their own, *)
(* and others write in between, until the first row the audit writes       *)
(* itself begins a transaction that keeps them out up to its commit.       *)
(* Its check of the Essence Fund is left out, but for the baseline that    *)
(* the very first audit writes.                                            *)
(***************************************************************************)
EXTENDS MarketAccounts

CONSTANTS
    NoBaseline,
    RepairModes,  \* the values of `repair` an audit may be called with
    Watched       \* bound: the actors whose wallets are followed through it

ASSUME WatchedActors == Watched \subseteq Actors

VARIABLES
    baseline,  \* globals "ledger_base:<actor>"
    fundBased, \* globals "ledger_fund_baseline" is there
    audit      \* the audit under way: `repair`; the ledger `sums` of the
               \* actors whose wallets are yet to be read; and whether it is
               \* `writing`, in the transaction of its own first write

auditVars == <<vars, baseline, fundBased, audit>>

Resting == [repair |-> FALSE, sums |-> <<>>, writing |-> FALSE]

(* The actors with ledger rows are audited.                                *)
Audited == {a \in Watched : RowsOf(a) # {}}

Unread == DOMAIN audit.sums

(* The ledger is summed up for all of them in one statement.               *)
SumLedger(repair) ==
    /\ audit = Resting
    /\ Audited # {}
    /\ audit' = [repair |-> repair, sums |-> [a \in Audited |-> Delta(a)],
                 writing |-> ~fundBased]
    /\ fundBased' = TRUE
    /\ UNCHANGED <<vars, baseline>>

(* An actor gets a baseline the first time it is audited.                  *)
BaselineOf(a) ==
    IF baseline[a] = NoBaseline THEN essence[a] - audit.sums[a] ELSE baseline[a]

Expected(a) == BaselineOf(a) + audit.sums[a]
Drifted(a) == essence[a] # Expected(a)

(* Then the wallets are read, one by one, and what drifted is reported.    *)
CheckWallet(a) ==
    LET repairs == audit.repair /\ Drifted(a)
        rest == Unread \ {a}
    IN
    /\ a \in Unread
    /\ baseline' = [baseline EXCEPT ![a] = BaselineOf(a)]
    /\ essence' = IF repairs THEN [essence EXCEPT ![a] = Expected(a)] ELSE essence
    /\ audit' = IF rest = {} THEN Resting
                ELSE [repair |-> audit.repair, sums |-> [b \in rest |-> audit.sums[b]],
                      writing |-> audit.writing \/ repairs \/ baseline[a] = NoBaseline]
    /\ UNCHANGED <<pumpVars, escrowVars, inv, market, fund, ledger, noted,
                   gifts, fundBased>>

AuditInit ==
    /\ Init
    /\ baseline = [a \in Actors |-> NoBaseline]
    /\ fundBased = FALSE
    /\ audit = Resting

AuditNext ==
    \/ Next /\ ~audit.writing /\ UNCHANGED <<baseline, fundBased, audit>>
    \/ \E repair \in RepairModes : SumLedger(repair)
    \/ \E a \in Unread : CheckWallet(a)

AuditSpec == AuditInit /\ [][AuditNext]_auditVars

-----------------------------------------------------------------------------
(* An audit of tables that only the market and the gifts have written      *)
(* reports an actor only when essence is held for it at this moment, or    *)
(* was when its baseline was captured, or when something was posted for it *)
(* after the audit had summed up the ledger.                               *)
AuditBlamesHolds ==
    [][\A a \in Unread :
          CheckWallet(a) /\ Drifted(a)
          => \/ Held(a) > 0
             \/ baseline'[a] # StartEssence[a]
             \/ audit.sums[a] # Delta(a)]_auditVars
=============================================================================
