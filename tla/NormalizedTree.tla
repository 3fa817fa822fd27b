--------------------------- MODULE NormalizedTree ---------------------------
(***************************************************************************)
(* The trees the store keeps (src/rust/crates/leanbun-store/src/archive.rs *)
(* and the materialization in store.rs): what an archive is read as, how   *)
(* it is written to disk and sealed, and what a directory is read as.  The *)
(* digest of a tree is its plan.                                           *)
(*                                                                         *)
(* One archive is parsed entry by entry, its tree is written and sealed,   *)
(* and verified as often as anybody asks, while tools work in it.  A path  *)
(* is the sequence of its parts.  Blocks, checksums and the text of a      *)
(* header are left out; an entry says what its header says.                *)
(***************************************************************************)
EXTENDS Integers, FiniteSets, SequencesExt

CONSTANTS
    MaxEntries,    \* maximum_entries
    MaxFile,       \* maximum_file_bytes
    MaxExpanded,   \* maximum_expanded_bytes
    SkipsLinks,    \* the limits are those of a registered provider
    Archives,      \* the archives that are fetched
    Leftovers,     \* what tools leave in a tree that was written
    Excluded       \* the files of it that a caller excludes by name

VARIABLES
    archive,   \* the archive that was fetched
    parsed,    \* how many of its entries parse_tar has read
    read,      \* what it has made of them
    onDisk,    \* the tree that was written
    verdicts,  \* what the verifications found it to be
    phase      \* "parse", "planned", "refused" or "sealed"

treeVars == <<archive, parsed, read, onDisk, verdicts, phase>>

\* LeanStoreLimitsV1 are unsigned numbers.
Limits ==
    MaxEntries \in Nat /\ MaxFile \in Nat /\ MaxExpanded \in Nat /\ SkipsLinks \in BOOLEAN

\* An entry, as its header gives it.
Path == Seq(STRING)
Entry == [path : Path, type : STRING, mode : STRING, size : Nat, data : STRING]
Archive == Seq(Entry)

Reserved == {".git", ".lake"}
Irregular == {"", ".", ".."}

\* validate_relative_entry_path: an absolute path has an empty first part.
PathIsSafe(path) ==
    path # <<>> /\ \A i \in DOMAIN path : path[i] \notin Reserved \cup Irregular

ParentsOf(path) == {SubSeq(path, 1, n) : n \in 1..(Len(path) - 1)}

Directory == [kind |-> "directory", mode |-> "755", size |-> 0, data |-> "none"]
IsExecutable(mode) == mode \in {"755", "555", "700", "500", "100"}
File(mode, size, data) ==
    [kind |-> "file", mode |-> IF IsExecutable(mode) THEN "755" ELSE "644",
     size |-> size, data |-> data]

\* All of one tree and what another has beside it (@@ of TLC, spelled out for the
\* provers).
With(tree, other) ==
    [p \in DOMAIN tree \cup DOMAIN other |->
        IF p \in DOMAIN tree THEN tree[p] ELSE other[p]]

-----------------------------------------------------------------------------
(* parse_tar, entry by entry.                                              *)

NothingRead == [refused |-> FALSE, explicit |-> {}, tree |-> << >>, expanded |-> 0]
Refuse(s) == [s EXCEPT !.refused = TRUE]

\* add_parent_directories and insert_directory: a directory that is there stays,
\* a file that is there collides.
WithDirectories(s, paths) ==
    IF \E p \in paths \cap DOMAIN s.tree : s.tree[p].kind = "file" THEN Refuse(s)
    ELSE [s EXCEPT !.tree = With([p \in paths |-> Directory], @)]

InsertFile(s, e) ==
    IF \/ e.size > MaxFile
       \/ s.expanded + e.size > MaxExpanded
       \/ e.path \in DOMAIN s.tree
    THEN Refuse(s)
    ELSE [s EXCEPT !.expanded = @ + e.size,
                   !.tree = With(@, [p \in {e.path} |-> File(e.mode, e.size, e.data)])]

InsertEntry(s, e) ==
    CASE e.type = "file" -> InsertFile(s, e)
      [] e.type = "directory" ->
            IF e.size # 0 THEN Refuse(s) ELSE WithDirectories(s, {e.path})
      [] e.type = "link" -> IF SkipsLinks /\ e.size = 0 THEN s ELSE Refuse(s)
      [] OTHER -> Refuse(s)

\* A mistake to be caught: only directories the archive lists are in the tree.
ReadEntryWithoutParents(s, e) ==
    IF s.refused \/ ~PathIsSafe(e.path) \/ e.path \in s.explicit THEN Refuse(s)
    ELSE InsertEntry([s EXCEPT !.explicit = @ \cup {e.path}], e)

\* A global header of git names a commit and is not an entry.
ReadEntry(s, e) ==
    IF s.refused \/ ~PathIsSafe(e.path) THEN Refuse(s)
    ELSE IF e.type = "pax"
         THEN IF e.path = <<"pax_global_header">> THEN s ELSE Refuse(s)
    ELSE IF e.path \in s.explicit \/ Cardinality(s.explicit) = MaxEntries THEN Refuse(s)
    ELSE LET t == WithDirectories([s EXCEPT !.explicit = @ \cup {e.path}], ParentsOf(e.path))
         IN  IF t.refused THEN t ELSE InsertEntry(t, e)

\* The end of parse_tar: directories count only here.
ReadToTheEnd(s) == IF Cardinality(DOMAIN s.tree) > MaxEntries THEN Refuse(s) ELSE s

-----------------------------------------------------------------------------
(* The tree on disk.                                                       *)

\* materialize_tree and make_tree_read_only.
Materialize(tree) ==
    [p \in DOMAIN tree |->
        [tree[p] EXCEPT !.mode = IF tree[p].kind = "directory" \/ IsExecutable(@)
                                 THEN "555" ELSE "444"]]

\* A mistake to be caught: what a tool keeps in .git and .lake counts.
PlanEverything(disk, excluded) ==
    [refused |-> FALSE,
     tree |-> [p \in DOMAIN disk \ excluded |->
                IF disk[p].kind = "directory" THEN Directory
                ELSE File(disk[p].mode, disk[p].size, disk[p].data)]]

\* plan_directory_excluding: reserved names are passed over, and so are the exact
\* files a caller names.
PlanDirectory(disk, excluded) ==
    LET visited == {p \in DOMAIN disk : \A i \in DOMAIN p : p[i] \notin Reserved}
        planned == visited \ excluded
        files == {p \in planned : disk[p].kind = "file"}
    IN  [refused |->
            \/ \E p \in visited : ~PathIsSafe(p)
            \/ \E p \in visited \cap excluded : disk[p].kind # "file"
            \/ \E p \in planned : disk[p].kind \notin {"file", "directory"}
            \/ \E p \in files : disk[p].size > MaxFile
            \/ MapThenSumSet(LAMBDA p : disk[p].size, files) > MaxExpanded
            \/ Cardinality(planned) > MaxEntries,
         tree |-> [p \in planned |->
                    IF disk[p].kind = "file"
                    THEN File(disk[p].mode, disk[p].size, disk[p].data) ELSE Directory]]

-----------------------------------------------------------------------------
(* An archive is fetched, published and verified.                          *)

TreeInit ==
    /\ archive \in Archives
    /\ parsed = 0
    /\ read = NothingRead
    /\ onDisk = << >>
    /\ verdicts = {}
    /\ phase = "parse"

ParseEntry ==
    /\ phase = "parse"
    /\ ~read.refused
    /\ parsed < Len(archive)
    /\ parsed' = parsed + 1
    /\ read' = ReadEntry(read, archive[parsed'])
    /\ UNCHANGED <<archive, onDisk, verdicts, phase>>

\* The first entry that is refused ends it, or the last one.
ParseEnds ==
    /\ phase = "parse"
    /\ read.refused \/ parsed = Len(archive)
    /\ read' = ReadToTheEnd(read)
    /\ phase' = IF read'.refused THEN "refused" ELSE "planned"
    /\ UNCHANGED <<archive, parsed, onDisk, verdicts>>

\* Another call for an archive that was refused.
FetchAgain ==
    /\ phase = "refused"
    /\ parsed' = 0
    /\ read' = NothingRead
    /\ phase' = "parse"
    /\ UNCHANGED <<archive, onDisk, verdicts>>

WriteTree ==
    /\ phase = "planned"
    /\ onDisk' = Materialize(read.tree)
    /\ phase' = "sealed"
    /\ UNCHANGED <<archive, parsed, read, verdicts>>

\* Lake and git keep theirs beside the files of the tree, and write it again.
ToolsWork ==
    /\ phase = "sealed"
    /\ \E leftover \in Leftovers : onDisk' = With(leftover, onDisk)
    /\ UNCHANGED <<archive, parsed, read, verdicts, phase>>

VerifyTree ==
    /\ phase = "sealed"
    /\ verdicts' = verdicts \cup {PlanDirectory(onDisk, Excluded)}
    /\ UNCHANGED <<archive, parsed, read, onDisk, phase>>

TreeNext == ParseEntry \/ ParseEnds \/ FetchAgain \/ WriteTree \/ ToolsWork \/ VerifyTree

TreeSpec == TreeInit /\ [][TreeNext]_treeVars

-----------------------------------------------------------------------------
(* What an archive means, whatever the order of its entries.               *)

Entries(a) == {a[i] : i \in {i \in DOMAIN a : a[i].type # "pax"}}
FilesOf(a) == {e \in Entries(a) : e.type = "file"}

\* A path for everything that is listed and for what it lies in.
WholeTree(a) ==
    LET files == FilesOf(a)
        directories == {e.path : e \in {e \in Entries(a) : e.type = "directory"}}
                       \cup UNION {ParentsOf(e.path) : e \in Entries(a)}
    IN  With([p \in directories |-> Directory],
             [p \in {e.path : e \in files} |->
                LET e == CHOOSE e \in files : e.path = p IN File(e.mode, e.size, e.data)])

IsAcceptable(a) ==
    LET entries == Entries(a)
    IN  /\ \A i \in DOMAIN a :
              a[i].type = "pax" => a[i].path = <<"pax_global_header">>
        /\ \A i, j \in DOMAIN a :
              (i # j /\ "pax" \notin {a[i].type, a[j].type}) =>
                  a[i].path # a[j].path
        /\ \A e \in entries :
              /\ PathIsSafe(e.path)
              /\ e.type \in {"file", "directory"} \/ (e.type = "link" /\ SkipsLinks)
              /\ e.type # "file" => e.size = 0
              /\ e.type = "file" => e.size <= MaxFile
              /\ \A f \in FilesOf(a) : f.path \notin ParentsOf(e.path)
        /\ MapThenSumSet(LAMBDA e : e.size, FilesOf(a)) <= MaxExpanded
        /\ Cardinality(entries) <= MaxEntries
        /\ Cardinality(DOMAIN WholeTree(a)) <= MaxEntries

\* Tools leave what they leave in reserved places or in the files that are
\* excluded.
LiesBeside(leftover, excluded) ==
    \A p \in DOMAIN leftover :
        \/ \E i \in DOMAIN p : p[i] \in Reserved
        \/ p \in excluded /\ PathIsSafe(p) /\ leftover[p].kind = "file"

\* The limits are numbers, archives are sequences of entries and have none of the
\* files that are excluded, and what tools leave is beside what was archived.
ASSUME TreeAssumption ==
    /\ Limits
    /\ Archives \subseteq Archive
    /\ \A a \in Archives : Excluded \cap DOMAIN WholeTree(a) = {}
    /\ \A leftover \in Leftovers : LiesBeside(leftover, Excluded)

\* An archive is accepted, and read as one tree, whatever the order its entries
\* come in; and the tree that is written of it is verified with the digest it was
\* published with, whatever tools leave in .git, .lake or the files that are
\* excluded by name, unless they leave it in place of something else.
ArchiveIsNormalized ==
    /\ phase = "refused" => ~IsAcceptable(archive)
    /\ phase \in {"planned", "sealed"} =>
          IsAcceptable(archive) /\ read.tree = WholeTree(archive)
    /\ \A verdict \in verdicts : verdict = [refused |-> FALSE, tree |-> WholeTree(archive)]
=============================================================================
