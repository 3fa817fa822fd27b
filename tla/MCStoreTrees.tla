---------------------------- MODULE MCStoreTrees ----------------------------
(* The store, and beside it the trees its objects are made of.             *)
EXTENDS MCImmutableStore, NormalizedTree

MCEntry(path, type, mode, size) ==
    [path |-> path, type |-> type, mode |-> mode, size |-> size, data |-> "d"]

ArchiveEntries ==
    {MCEntry(<<"a">>, "file", "600", 2), MCEntry(<<"a">>, "directory", "700", 0),
     MCEntry(<<"a", "b">>, "file", "755", 1), MCEntry(<<"a", "c">>, "file", "644", 2),
     MCEntry(<<"a", "b">>, "link", "777", 0), MCEntry(<<"a", "b", "d">>, "file", "644", 0),
     MCEntry(<<"e">>, "file", "644", 3), MCEntry(<<"e">>, "directory", "755", 1),
     MCEntry(<<".lake", "x">>, "file", "644", 1), MCEntry(<<"e", "..">>, "file", "644", 1),
     MCEntry(<<"f">>, "special", "644", 0), MCEntry(<<"f">>, "link", "777", 1),
     MCEntry(<<"pax_global_header">>, "pax", "644", 1), MCEntry(<<"p">>, "pax", "644", 1)}

\* Every archive of up to four entries.
MCArchives == SeqOf(ArchiveEntries, 4)

\* What Lake and git leave in a tree, and the trace of a derived file.
MCLeftovers ==
    {(<<".lake">> :> [kind |-> "directory", mode |-> "755", size |-> 0, data |-> "none"])
        @@ (<<".lake", "build">> :> [kind |-> "link", mode |-> "777", size |-> 0, data |-> "d"]),
     <<"a", ".git">> :> [kind |-> "file", mode |-> "644", size |-> 9, data |-> "d"],
     <<"trace">> :> [kind |-> "file", mode |-> "600", size |-> 9, data |-> "d"]}

MCExcluded == {<<"trace">>}

-----------------------------------------------------------------------------

\* Neither touches the state of the other, so that each is looked at while nothing
\* was asked of the other.
StoreAndTreesInit == Init /\ TreeInit

StoreAndTreesNext ==
    \/ archive = << >> /\ phase = "parse" /\ Next /\ UNCHANGED treeVars
    \/ Init /\ TreeNext /\ UNCHANGED vars

StoreAndTrees == StoreAndTreesInit /\ [][StoreAndTreesNext]_<<vars, treeVars>>
=============================================================================
