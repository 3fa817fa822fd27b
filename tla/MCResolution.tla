---------------------------- MODULE MCResolution ----------------------------
(* Small instances of Resolution: three packages.                          *)
EXTENDS Resolution

CONSTANTS nowhere, anyRev, lean, lean2, none

Git(at, rev) == [kind |-> "git", at |-> at, rev |-> rev]
Reservoir(version) == [kind |-> "reservoir", at |-> nowhere, rev |-> version]
PathTo(at) == [kind |-> "path", at |-> at, rev |-> "-"]

Meta(k, source, at, id, deps, tool) ==
    [key |-> k, req |-> source,
     exact |-> [kind |-> IF source.kind = "path" THEN "path" ELSE "git", at |-> at, id |-> id],
     deps |-> deps, tool |-> tool]

r1 == Requirement(1, Git("u1", anyRev))
r1v == Requirement(1, Reservoir("v1"))
r2 == Requirement(2, Git("u2", "x"))
r2o == Requirement(2, Git("u1", anyRev))
r3 == Requirement(3, Git("u3", anyRev))
r1g == Requirement(1, Git("u1.git", anyRev))
r3p == Requirement(3, PathTo("p3"))

\* Package 1: a leaf, a newer commit with dependencies, a Reservoir version.
a1 == Meta(1, r1.source, "u1", "x", <<>>, none)
a2 == Meta(1, r1.source, "u1", "y", <<r2, r3>>, none)
a3 == Meta(1, r1v.source, "u1", "y", <<r2, r3>>, lean)
\* The registry changes its mind: other commits, other metadata, another place.
a4 == Meta(1, r1v.source, "u1", "x", <<>>, none)
a6 == Meta(1, r1v.source, "u1", "w", <<r3>>, none)
a7 == Meta(1, r1v.source, "u1", "x", <<>>, lean)
a8 == Meta(1, r1v.source, "u9", "x", <<>>, none)
\* Package 2: two commits; the repository of package 1 under a second key.
b1 == Meta(2, r2.source, "u2", "x", <<>>, none)
b2 == Meta(2, r2.source, "u2", "y", <<r1>>, none)
b3 == Meta(2, r2o.source, "u1", "x", <<>>, none)
\* Package 3: depends on 2; a leaf; a path snapshot; another toolchain; itself.
c1 == Meta(3, r3.source, "u3", "x", <<r2>>, none)
c2 == Meta(3, r3.source, "u3", "y", <<>>, none)
c3 == Meta(3, r3p.source, "p3", "x", <<r2o, r1>>, none)
c5 == Meta(3, r3.source, "u3", "w", <<r3>>, none)
c4 == Meta(3, r3.source, "u3", "z", <<r2>>, lean2)

Candidates == {a1, a2, a3, a4, a6, a7, a8, b1, b2, b3, c1, c2, c3, c4, c5}
AllRegistries ==
    {{a1, b1, c2}, {a2, b1, c2}, {a1, a2, b1, c2},   \* package 1 moves
     {a1, b2, c2}, {a2, b2, c2}, {a1, b2, c1},       \* cycle, deep and late paths
     {a1, b1, c1}, {a1, b1, b2, c1}, {a2, b1, c1},
     {a1, b3, c3}, {a2, b3, c2}, {a3, b1, c2}, {a2, a3, b1, c2},
     {a2, b1}, {a1, b1, c4}, {a1, b1, c5},
     {a4, c2}, {a6, c2}, {a7, c2}, {a8, c2}, {a4, a6, c2}}   \* Reservoir
AllRoots == {<<r1>>, <<r1, r2>>, <<r1v, r3>>, <<r3>>, <<r3p>>, <<r1, r2o>>, <<r1g>>}
Given(root, S) == [root |-> root, packages |-> {Locked(c) : c \in S}]
\* Too small, with a package nobody needs, and the closure of the root.
AllLocks == {Given(<<r1, r2>>, {a1}), Given(<<r1>>, {a1, b1}), Given(<<r1>>, {a2, b1, c2})}
StrippedPlaces == "u1.git" :> "u1"
AllUpdates == {{}, {1}, {2}, {1, 3}}
=============================================================================
