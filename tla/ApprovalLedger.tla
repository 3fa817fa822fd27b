--------------------------- MODULE ApprovalLedger ---------------------------
(***************************************************************************)
(* What the approval of one Lake command promises: a challenge is answered *)
(* for at most one session, and an answered challenge leads to at most one *)
(* launch, by the session that answered it, whatever fails or restarts.    *)
(***************************************************************************)
CONSTANT Session

VARIABLES
    granted,   \* pairs of a challenge and the session that used it up
    launched   \* pairs of a challenge and the session that may launch for it

Init == granted = {} /\ launched = {}

Consume(pair) ==
    /\ \A s \in Session : <<pair[1], s>> \notin granted
    /\ granted' = granted \cup {pair}
    /\ UNCHANGED launched

Launch(pair) ==
    /\ pair \in granted
    /\ \A s \in Session : <<pair[1], s>> \notin launched
    /\ launched' = launched \cup {pair}
    /\ UNCHANGED granted

Next ==
    \/ \E pair \in granted' : Consume(pair)
    \/ \E pair \in launched' : Launch(pair)

Spec == Init /\ [][Next]_<<granted, launched>>
=============================================================================
