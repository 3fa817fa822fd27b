--------------------------- MODULE SourceAuthority ---------------------------
(***************************************************************************)
(* What the package source store promises its callers: a source, once      *)
(* established, stays established; it is established only while somebody   *)
(* asks for it; and whoever asks for it is told "success" only if it is.   *)
(***************************************************************************)
CONSTANTS Caller, Key, NoKey

VARIABLES
    authority,   \* the sources that are established
    asked,       \* the source each caller is asking for, or NoKey
    answer       \* what each caller was told last

promiseVars == <<authority, asked, answer>>

Ask(c, k) ==
    /\ asked[c] = NoKey
    /\ asked' = [asked EXCEPT ![c] = k]
    /\ answer' = [answer EXCEPT ![c] = "none"]
    /\ UNCHANGED authority

Establish(k) ==
    /\ \E c \in Caller : asked[c] = k
    /\ authority' = authority \cup {k}
    /\ UNCHANGED <<asked, answer>>

Succeed(c) ==
    /\ asked[c] \in authority
    /\ asked' = [asked EXCEPT ![c] = NoKey]
    /\ answer' = [answer EXCEPT ![c] = "success"]
    /\ UNCHANGED authority

Refuse(c) ==
    /\ asked' = [asked EXCEPT ![c] = NoKey]
    /\ answer' = [answer EXCEPT ![c] = "failure"]
    /\ UNCHANGED authority

\* The process of these callers dies.
Withdraw(group) ==
    /\ asked' = [c \in Caller |-> IF c \in group THEN NoKey ELSE asked[c]]
    /\ answer' = [c \in Caller |-> IF c \in group THEN "none" ELSE answer[c]]
    /\ UNCHANGED authority

Init ==
    /\ authority = {}
    /\ asked = [c \in Caller |-> NoKey]
    /\ answer = [c \in Caller |-> "none"]

Next ==
    \/ \E c \in Caller : Succeed(c) \/ Refuse(c) \/ \E k \in Key : Ask(c, k)
    \/ \E k \in Key : Establish(k)
    \/ \E group \in SUBSET Caller : Withdraw(group)

Spec == Init /\ [][Next]_promiseVars
=============================================================================
