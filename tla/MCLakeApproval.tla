--------------------------- MODULE MCLakeApproval ---------------------------
(***************************************************************************)
(* Two sessions, two executables, documents that change in a revision or   *)
(* in what was observed of the checkouts, and two terminals.               *)
(***************************************************************************)
EXTENDS LakeApproval, TLC

CONSTANTS Contents, Devices

Lake(content) ==
    [regular |-> TRUE, executable |-> TRUE, supported |-> TRUE, managed |-> TRUE,
     content |-> content]
MCExecutables == {Lake(c) : c \in Contents}

Documents(revision, checkouts) ==
    [input |-> [path |-> "project", toolchain |-> "v4", overrides |-> Nothing,
                manifest |-> [mathlib |-> Git(revision)], paths |-> Nothing],
     provider |-> Nothing, checkouts |-> checkouts]
Present1 == [mathlib |-> [state |-> "present", directory |-> "d", revision |-> "r1",
                          dirty |-> FALSE]]
MCProjects == {Documents("r1", <<>>), Documents("r2", Present1)}

Terminal(device, foreground) ==
    [interactive |-> TRUE, stdin |-> device, stderr |-> device, again |-> device,
     owner |-> 501, euid |-> 501, group |-> 7, foreground |-> foreground,
     session |-> 3, tsession |-> 3]
MCTerminals == {Terminal(d, 7) : d \in Devices}

Dir(name, separator) == [name |-> name, private |-> TRUE, separator |-> separator]
Location(path) ==
    [root |-> Dir("r", FALSE), elan |-> Dir("e", FALSE), home |-> Dir("h", FALSE),
     path |-> path]
MCEnvironments ==
    {Location(<<Dir("a", FALSE), Dir("b", FALSE)>>), Location(<<Dir("a", FALSE), Dir("a", FALSE)>>)}

Component(write, acl) == [owned |-> FALSE, write |-> write, shared |-> FALSE, acl |-> acl]
MCPaths == {{Component("denied", "none")},
            {Component("denied", "none"), Component("denied", "mutation")}}
MCPackages == <<"mathlib">>
MCSelectors == {"mathlib"}
MCIdentifiers == {"com.leanbun.cli"}
MCTeams == {"TEAM"}
MCZero == <<0, 0>>
Approve == Permutations(Sessions) \cup Permutations(Contents) \cup Permutations(Devices)
=============================================================================
