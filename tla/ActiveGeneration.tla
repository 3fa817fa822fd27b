-------------------------- MODULE ActiveGeneration --------------------------
(***************************************************************************)
(* What the active-generation manager promises, as three atomic steps on   *)
(* one register: a transaction commits and becomes the active generation   *)
(* in one step, or it aborts; both are final, and only a committed         *)
(* generation can be made active again.                                    *)
(***************************************************************************)
CONSTANTS Txn, Content, NoGen

VARIABLES
    current,     \* the active generation
    committed,   \* the generations that were ever active
    aborted      \* the transactions that will never be

Generation == [txn : Txn, content : Content]

promiseVars == <<current, committed, aborted>>

Open(t) == t \notin aborted /\ \A g \in committed : g.txn # t

Commit(g) ==
    /\ Open(g.txn)
    /\ current' = g
    /\ committed' = committed \cup {g}
    /\ UNCHANGED aborted

Abort(t) ==
    /\ Open(t)
    /\ aborted' = aborted \cup {t}
    /\ UNCHANGED <<current, committed>>

Restore(g) ==
    /\ g \in committed
    /\ current' = g
    /\ UNCHANGED <<committed, aborted>>

Init == current = NoGen /\ committed = {} /\ aborted = {}

Next ==
    \/ \E g \in Generation : Commit(g) \/ Restore(g)
    \/ \E t \in Txn : Abort(t)

Spec == Init /\ [][Next]_promiseVars
=============================================================================
