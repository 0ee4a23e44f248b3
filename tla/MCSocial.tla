------------------------------ MODULE MCSocial ------------------------------
(***************************************************************************)
(* A small board for TLC: a tamer with a message on it, and the soul in    *)
(* its custody, which can pay for a post and a reply.                      *)
(***************************************************************************)
EXTENDS Social, TLC

CONSTANTS s1, t1

MCStart == [s \in {s1} |-> 3]
MCCustodian == [s \in {s1} |-> t1]

Ask(kind, by, author, target) ==
    [kind |-> kind, by |-> by, custodian |-> t1, author |-> author, target |-> target]

AsOperator(r) == [r EXCEPT !.custodian = Operator]

(* The tamer writes on its own thread, the soul everywhere; the operator   *)
(* takes the thread down.                                                  *)
MCRequests ==
    {Ask("social_post", s1, s1, NoParent)}
    \cup {Ask("social_reply", s1, s1, m) : m \in Keys \cup Legacy}
    \cup {Ask("social_edit", s1, s1, m) : m \in Keys}
    \cup {Ask(kind, t1, t1, m) : kind \in {"social_reply", "social_edit"}, m \in Legacy}
    \cup {AsOperator(Ask("social_delete", s1, s1, m)) : m \in Legacy}

KeySymmetry == Permutations(Keys)
=============================================================================
