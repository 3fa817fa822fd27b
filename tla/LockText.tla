------------------------------ MODULE LockText ------------------------------
(***************************************************************************)
(* The text of a lock (src/rust/crates/leanbun-lock/src/lock_v1.rs).       *)
(*                                                                         *)
(* A text is a sequence of lines and a line a sequence of tokens, the      *)
(* first its label.  A digest is what was hashed.  The line of the         *)
(* resolved source stands for the digests and identities after it too.     *)
(***************************************************************************)
EXTENDS PackageLock

CONSTANT
    Stripped      \* for each place, the place without a trailing ".git"

\* CanonicalSourceUrlV1::parse takes one ".git" away, each time it is called.
CanonicalUrl(at) == IF at \in DOMAIN Stripped THEN Stripped[at] ELSE at

Unreadable == [error |-> "Unreadable"]

\* A candidate and a locked package have what is written of them and no more.  A
\* revision is written in hex, so that none of them is the "-" of no revision,
\* which a path never has.
ASSUME TextAssumption ==
    \A c \in Candidate :
        /\ c.req = [kind |-> c.req.kind, at |-> c.req.at, rev |-> c.req.rev]
        /\ c.exact = [kind |-> c.exact.kind, at |-> c.exact.at, id |-> c.exact.id]
        /\ c.req.kind \in {"git", "reservoir", "path"}
        /\ (c.req.kind = "path") = (c.req.rev = "-")

IsPackage(p) == p = [key |-> p.key, req |-> p.req, exact |-> p.exact, deps |-> p.deps]

\* Lines::expect: the next line has this label and this number of tokens.
Expect(text, i, label, tokens) ==
    i \in DOMAIN text /\ text[i][1] = label /\ Len(text[i]) = tokens + 1

-----------------------------------------------------------------------------
(* The lock: root digests, packages in key order, the digest of the graph. *)

OptionText(rev) == IF rev = NoRevision THEN "-" ELSE rev
OptionRead(token) == IF token = "-" THEN NoRevision ELSE token

\* hash_graph: what each package says, its dependencies included.
GraphDigest(packages) == {<<p.key, p.req, p.exact, p.deps>> : p \in packages}

DependencyLines(p) ==
    LET keys == InKeyOrder(p.deps)
    IN  [i \in DOMAIN keys |-> <<"dependency", keys[i]>>]

\* A mistake to be caught: the revision that was asked for is not written.
PackageLinesUnrequested(p) ==
    << <<"package", p.key>>,
       <<"requested", p.req.kind, p.req.at, "-">>,
       <<"resolved", p.exact.kind, p.exact.at, p.exact.id>>,
       <<"dependency-count", Cardinality(p.deps)>> >>
    \o DependencyLines(p) \o << <<"end-package">> >>

PackageLines(p) ==
    << <<"package", p.key>>,
       <<"requested", p.req.kind, p.req.at, OptionText(p.req.rev)>>,
       <<"resolved", p.exact.kind, p.exact.at, p.exact.id>>,
       <<"dependency-count", Cardinality(p.deps)>> >>
    \o DependencyLines(p) \o << <<"end-package">> >>

LockText(lock) ==
    LET packages == InKeyOrderOf(lock.packages)
    IN  << <<"leanbun-lock-v1", 1>>, <<"root-declaration-sha256", lock.root>>,
           <<"package-count", Len(packages)>> >>
        \o FlattenSeq([i \in DOMAIN packages |-> PackageLines(packages[i])])
        \o << <<"graph-sha256", GraphDigest(lock.packages)>>, <<"end-lock">> >>

\* One package from line i on: what it says and the line after it.
ReadPackage(text, i) ==
    LET count == text[i + 3][2]
        end == i + 4 + count
    IN  IF /\ Expect(text, i, "package", 1)
           /\ Expect(text, i + 1, "requested", 3)
           /\ Expect(text, i + 2, "resolved", 3)
           /\ Expect(text, i + 3, "dependency-count", 1)
           /\ \A j \in (i + 4)..(end - 1) : Expect(text, j, "dependency", 1)
           /\ Expect(text, end, "end-package", 0)
           /\ Cardinality({text[j][2] : j \in (i + 4)..(end - 1)}) = count
        THEN [next |-> end + 1,
              package |->
                [key |-> text[i][2],
                 req |-> [kind |-> text[i + 1][2], at |-> CanonicalUrl(text[i + 1][3]),
                          rev |-> IF text[i + 1][2] = "git" THEN OptionRead(text[i + 1][4])
                                  ELSE text[i + 1][4]],
                 exact |-> [kind |-> text[i + 2][2], at |-> CanonicalUrl(text[i + 2][3]),
                            id |-> text[i + 2][4]],
                 deps |-> {text[j][2] : j \in (i + 4)..(end - 1)}]]
        ELSE Unreadable

\* parse_lock: package after package from the fourth line on, as many as counted,
\* a graph that LeanBunLockV1::new accepts and that has the digest written last.
ParseLock(text) ==
    LET starts == {i \in 4..Len(text) : text[i][1] = "package"}
        last == Len(text) - 1
        read == {ReadPackage(text, i) : i \in starts}
        packages == {r.package : r \in read}
    IN  IF /\ Expect(text, 1, "leanbun-lock-v1", 1) /\ text[1][2] = 1
           /\ Expect(text, 2, "root-declaration-sha256", 1)
           /\ Expect(text, 3, "package-count", 1)
           /\ Unreadable \notin read
           /\ {4} \cup {r.next : r \in read} = starts \cup {last}
           /\ Expect(text, last, "graph-sha256", 1)
           /\ Expect(text, last + 1, "end-lock", 0)
           /\ Cardinality(packages) = text[3][2]
           /\ text[last][2] = GraphDigest(packages)
           /\ LockError(packages) = "none"
        THEN [root |-> text[2][2], packages |-> packages] ELSE Unreadable

\* A mistake to be caught: another text of the same lock is taken.
ReadLockLoosely(text) == ParseLock(text)

\* from_canonical_text.
ReadLock(text) ==
    LET lock == ParseLock(text)
    IN  IF lock # Unreadable /\ LockText(lock) = text THEN lock ELSE Unreadable

\* A text may lose a line or have two swapped.
WithoutLine(text, i) == RemoveAt(text, i)
Swapped(text, i) == [text EXCEPT ![i] = text[i + 1], ![i + 1] = text[i]]
=============================================================================
