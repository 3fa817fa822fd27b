-------------------------- MODULE SupervisedProcess --------------------------
(***************************************************************************)
(* A program under supervision (leanbun-build, process.rs and              *)
(* bin/leanbun-process-supervisor.rs).  The child makes itself the leader  *)
(* of a new session and of a process group, in which it may leave another  *)
(* process, that may keep the pipes open.  The supervisor polls for the    *)
(* end of the leader; after the deadline, or if there is too much output,  *)
(* it sends TERM to the group, and KILL after a grace period; then it      *)
(* reads the pipes to their end.                                           *)
(***************************************************************************)

CONSTANTS Reasons    \* {"Timeout"} for Lake, and "OutputOverflow" for a program

VARIABLES
    phase,        \* of the call: "idle", "wait", "grace", "drain", "done", "failed"
    leader,       \* "none", "runs", "ended" and, when the status is read, "reaped"
    code,         \* its status: "none", "zero", "other", "signal"
    member,       \* there is another process in the group,
    pipe,         \* which holds the pipes
    overflow,     \* more was written than is kept
    termination   \* "Exit", the reason, or "Signal" if another ended it

vars == <<phase, leader, code, member, pipe, overflow, termination>>

Init ==
    /\ phase = "idle" /\ leader = "none" /\ code = "none"
    /\ member = FALSE /\ pipe = FALSE /\ overflow = FALSE
    /\ termination = "Exit"

-----------------------------------------------------------------------------
(* The program.                                                            *)

\* The program leaves a process in its group.
Fork ==
    /\ leader = "runs" /\ ~member
    /\ member' = TRUE /\ pipe' \in BOOLEAN
    /\ UNCHANGED <<phase, leader, code, overflow, termination>>

\* The leader ends by itself, or of TERM.
LeaderEnds ==
    /\ leader = "runs" /\ leader' = "ended"
    /\ code' \in {"zero", "other", "signal"}
    /\ UNCHANGED <<phase, member, pipe, overflow, termination>>

MemberEnds ==
    /\ member /\ member' = FALSE /\ pipe' = FALSE
    /\ UNCHANGED <<phase, leader, code, overflow, termination>>

\* More output than is kept, which a reader tells the supervisor.
Overflow ==
    /\ leader = "runs" \/ pipe
    /\ ~overflow /\ overflow' = TRUE
    /\ UNCHANGED <<phase, leader, code, member, pipe, termination>>

-----------------------------------------------------------------------------
(* The supervisor.                                                         *)

Fails == phase' = "failed" /\ UNCHANGED <<leader, code, member, pipe, overflow, termination>>

\* The executable and the sandbox profile have the digests of the request, and
\* the child is started; otherwise the call fails.
Spawn ==
    /\ phase = "idle"
    /\ \/ Fails
       \/ /\ phase' = "wait" /\ leader' = "runs"
          /\ UNCHANGED <<code, member, pipe, overflow, termination>>

\* try_wait: the leader has ended, whatever else there is of the group.
Reap ==
    /\ phase \in {"wait", "grace"} /\ leader = "ended"
    /\ phase' = "drain" /\ leader' = "reaped"
    /\ UNCHANGED <<code, member, pipe, overflow, termination>>

\* kill finds no process, or only a leader that ended since the poll: then the
\* call fails.
SignalFails == leader # "runs" /\ ~member /\ Fails

Terminate(reason) ==
    /\ phase = "wait"
    /\ reason = "OutputOverflow" => overflow
    /\ \/ SignalFails
       \/ /\ phase' = "grace" /\ termination' = reason
          /\ UNCHANGED <<leader, code, member, pipe, overflow>>

\* The grace period has passed.
Kill ==
    /\ phase = "grace"
    /\ \/ SignalFails
       \/ /\ phase' = "drain" /\ leader' = "reaped"
          /\ member' = FALSE /\ pipe' = FALSE
          /\ code' = IF leader = "ended" THEN code ELSE "signal"
          /\ UNCHANGED <<overflow, termination>>

\* The readers have met the end of both pipes, however long a process holds
\* them.  What the supervisor did comes before how the program ended.
Drain ==
    /\ phase = "drain" /\ ~pipe
    /\ phase' = "done"
    /\ termination' = IF termination = "Exit" /\ code = "signal" THEN "Signal" ELSE termination
    /\ UNCHANGED <<leader, code, member, pipe, overflow>>

Next ==
    \/ Spawn \/ Fork \/ LeaderEnds \/ MemberEnds \/ Overflow
    \/ Reap \/ Kill \/ Drain
    \/ \E reason \in Reasons : Terminate(reason)

Spec == Init /\ [][Next]_vars

-----------------------------------------------------------------------------
\* When a call returns whose program was terminated, no process is left of the
\* group: "Timeout and overflow terminate and reap the whole process group."
\* When the leader ends of TERM, what is left of the group is not sent KILL.
GroupIsReaped == phase = "done" /\ termination \in Reasons => ~member
=============================================================================
