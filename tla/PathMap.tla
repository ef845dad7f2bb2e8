------------------------------ MODULE PathMap ------------------------------
(***************************************************************************)
(* The path mapping of one up-to-date client, and the requests that use it *)
(* and change it.  Metadata is stored in the flat namespace of the drives  *)
(* under system paths; a directory move leaves it in place and records a   *)
(* mapping from the new user path to the old one instead, and lookup maps  *)
(* user paths to system paths with the recorded mappings.                  *)
(*                                                                         *)
(* Requests run one at a time here, so each is one step; one that returns  *)
(* an error changes nothing.  What the user expects is the tree: the inode *)
(* of every user path.                                                     *)
(*                                                                         *)
(* A user path is the sequence of its names, the root is <<>>.  The system *)
(* paths |reuse_n, which no user path is, start with the number n.         *)
(***************************************************************************)
EXTENDS Naturals, Sequences, FiniteSets, FiniteSetsExt, SequencesExt, Functions, TLC

CONSTANTS
    Name,         \* names of files and directories
    Begins,       \* <<x, y>>: the string x is a proper beginning of the string y
    Depth,        \* bound: longest user path
    Ops,          \* requests made
    Avoid,        \* sequences of requests that are left out, see Avoided
    MaxOps        \* bound: requests that succeed

AllOps == {"mkdir", "create", "movedir", "movefile", "remove", "chmod"}

ASSUME PathAssumption ==
    /\ Begins \subseteq Name \X Name
    /\ Depth \in Nat \ {0} /\ MaxOps \in Nat
    /\ Ops \subseteq AllOps

UserPath == UNION {[1 .. n -> Name] : n \in 0 .. Depth}
Root == <<>>

VARIABLES
    fs,         \* what the client and the drives hold, a record:
                \*   snapshot  the mappings, path -> [type, target]
                \*   version   snapshotVersion
                \*   md        metadata keys, system path -> [kind, ino]
                \*   entries   directory entries, <<inode of directory, name>>
    inodes,     \* inode numbers used
    tree,       \* what the user expects: user path -> [kind, ino]
    requests,   \* history: requests that succeeded
    aborted     \* an assertion has failed or REQ_0 has ended the process

vars == <<fs, inodes, tree, requests, aborted>>

\* f with k mapped to v, and f without the keys in ks.
With(f, k, v) == (k :> v) @@ f
Without(f, ks) == Restrict(f, DOMAIN f \ ks)

RootMetadata == [kind |-> "dir", ino |-> 0]

Init ==
    /\ fs = [snapshot |-> <<>>, version |-> 0, md |-> (Root :> RootMetadata), entries |-> {}]
    /\ inodes = 0
    /\ tree = (Root :> RootMetadata)
    /\ requests = 0
    /\ aborted = FALSE

-----------------------------------------------------------------------------
(* PathMapDB.                                                              *)

\* searchPathRecursive: the longest prefix with a mapping that is to be
\* followed, 0 if there is none.
SearchPath(s, path, followReuse) ==
    LET Follows(n) ==
            LET p == SubSeq(path, 1, n) IN
            /\ p \in DOMAIN s
            /\ s[p].type # "NONE"
            /\ s[p].type = "REUSE" => followReuse
    IN  Max({0} \cup {n \in 1 .. Len(path) : Follows(n)})

\* The loop of toSystemPath: mappings are applied until none matches.  A reuse
\* mapping is not followed after a move mapping.  A loop that ends applies each
\* mapping at most once before and once after a move mapping.
MaxHops(s) == 2 * Cardinality(DOMAIN s) + 2

Walk(s, path) ==
    LET hop[n \in 0 .. MaxHops(s)] ==
            IF n = 0 THEN [path |-> path, reuse |-> TRUE]
            ELSE LET now == hop[n - 1]
                     len == SearchPath(s, now.path, now.reuse)
                 IN  IF len = 0 THEN now
                     ELSE LET e == s[SubSeq(now.path, 1, len)] IN
                          [path |-> e.target \o SubSeq(now.path, len + 1, Len(now.path)),
                           reuse |-> e.type # "MOVE"]
    IN  hop[MaxHops(s)]

Terminates(s, path) == LET last == Walk(s, path) IN SearchPath(s, last.path, last.reuse) = 0
toSystemPath(s, path) == Walk(s, path).path

\* Mutant of addDirectoryMove: the old name is not given a reuse mapping.
addMoveWithoutReuse(s, v, origin, destination) ==
    LET target == IF origin \in DOMAIN s THEN s[origin].target ELSE origin IN
    With(Without(s, {origin}), destination, [type |-> "MOVE", target |-> target])

\* Mutant of addDirectoryMove: a reused name is recorded under its system path.
addMoveOfSystemPath(s, v, origin, destination) ==
    LET target == IF origin \in DOMAIN s THEN s[origin].target ELSE origin IN
    With(With(s, destination, [type |-> "MOVE", target |-> target]),
         target, [type |-> "REUSE", target |-> <<v>>])

\* addDirectoryMove of the entry with version v.
addDirectoryMove(s, v, origin, destination) ==
    LET reuse == [type |-> "REUSE", target |-> <<v>>]
        moved ==
            IF origin \notin DOMAIN s
            THEN With(With(s, destination, [type |-> "MOVE", target |-> origin]),
                      origin, reuse)
            ELSE LET t == With(s, destination, [type |-> "MOVE", target |-> s[origin].target])
                 IN  IF s[origin].type = "REUSE" THEN With(t, origin, reuse)
                     ELSE Without(t, {origin})
    IN  IF moved[destination].target = destination
        THEN Without(moved, {destination, origin}) ELSE moved

\* Its assertion.
MoveAsserts(s, origin) == origin \in DOMAIN s => s[origin].type \in {"MOVE", "REUSE"}

addUnlink(s, path) == Without(s, {path})

addPermissionChange(s, path) ==
    IF path \in DOMAIN s THEN s ELSE With(s, path, [type |-> "NONE", target |-> <<>>])

-----------------------------------------------------------------------------
(* Lookup in a file system f.                                              *)

Nothing == [kind |-> "none", ino |-> 0]
MetadataAt(f, path) == IF path \in DOMAIN f.md THEN f.md[path] ELSE Nothing

\* What lookup finds.  Of a force_update inode it returns an error: it updates
\* the database, which is up to date here, so that the update says -EALREADY.
lookup(f, path) == MetadataAt(f, toSystemPath(f.snapshot, path))

Parent(path) == Front(path)
EntryOf(f, path) == <<lookup(f, Parent(path)).ino, Last(path)>>

\* The lookups of the path and of its parent come back, the parent is a
\* directory.
Reaches(f, path) ==
    /\ path # Root
    /\ Terminates(f.snapshot, path) /\ Terminates(f.snapshot, Parent(path))
    /\ lookup(f, path).kind # "force"
    /\ lookup(f, Parent(path)).kind = "dir"

-----------------------------------------------------------------------------
(* The requests, as functions of the file system.                          *)

\* hflat_create, for files and directories.
MayCreate(f, u) ==
    /\ Reaches(f, u)
    /\ lookup(f, u).kind = "none"
    /\ EntryOf(f, u) \notin f.entries

Created(f, u, inode) ==
    [f EXCEPT !.entries = @ \cup {EntryOf(f, u)},
              !.md = With(@, toSystemPath(f.snapshot, u), inode)]

MayRemove(f, u) ==
    LET inode == lookup(f, u) IN
    /\ Reaches(f, u)
    /\ inode.kind = "dir" => \A e \in f.entries : e[1] # inode.ino
    /\ inode.kind # "none"
    /\ EntryOf(f, u) \in f.entries

\* The entry REMOVED goes into the log if the path has a mapping.
Unmapped(f, u) ==
    IF u \in DOMAIN f.snapshot
    THEN [f EXCEPT !.snapshot = addUnlink(@, u), !.version = @ + 1]
    ELSE f

\* Mutant of Unlinked: the metadata is deleted under the user path.
UnlinkedUserPath(f, u) ==
    LET unmapped == Unmapped([f EXCEPT !.md = Without(@, {u})], u) IN
    [unmapped EXCEPT !.entries = @ \ {EntryOf(f, u)}]

\* hflat_unlink: metadata, mapping, then for a directory the force_update inode
\* at its path, then the entry.
Unlinked(f, u) ==
    LET unmapped == Unmapped([f EXCEPT !.md = Without(@, {toSystemPath(f.snapshot, u)})], u)
        update   == IF lookup(f, u).kind = "dir"
                    THEN {toSystemPath(unmapped.snapshot, u)} ELSE {}
    IN  [unmapped EXCEPT !.md = Without(@, update), !.entries = @ \ {EntryOf(f, u)}]

\* unlink_force_update asserts that it finds a force_update inode or nothing.
UnlinkAsserts(f, u) ==
    LET unmapped == Unmapped([f EXCEPT !.md = Without(@, {toSystemPath(f.snapshot, u)})], u)
    IN  lookup(f, u).kind = "dir" => lookup(unmapped, u).kind \in {"force", "none"}

\* Mutant of Removed: only the directory entry is deleted.
RemovedEntry(f, u) == [f EXCEPT !.entries = @ \ {EntryOf(f, u)}]

\* The end of hflat_unlink: if the system path of the inode has a mapping and
\* is free as a user path, a file is created and unlinked there, and with it
\* the mapping.
Removed(f, u) ==
    LET key == toSystemPath(f.snapshot, u)
        g   == Unlinked(f, u)
    IN  IF key \in DOMAIN g.snapshot /\ MayCreate(g, key)
        THEN Unlinked(Created(g, key, [kind |-> "file", ino |-> 0]), key)
        ELSE g

\* hflat_rename removes an existing target first.
Cleared(f, to) == IF lookup(f, to).kind = "none" THEN f ELSE Removed(f, to)

\* strncmp of the two paths, over the length of the first.
StringPrefix(from, to) ==
    \/ IsPrefix(from, to)
    \/ /\ from # Root /\ Len(from) <= Len(to) /\ IsPrefix(Front(from), to)
       /\ <<Last(from), to[Len(from)]>> \in Begins

\* The kernel has checked that both are directories or both are not.
MayRename(f, from, to) ==
    /\ ~StringPrefix(from, to)
    /\ lookup(f, to).kind \in {"none", lookup(f, from).kind}
    /\ Reaches(f, from) /\ Reaches(f, to)
    /\ lookup(f, to).kind # "none" => MayRemove(f, to)
    /\ EntryOf(f, to) \notin Cleared(f, to).entries
    /\ EntryOf(f, from) \in Cleared(f, to).entries

\* Mutant of RenamedEntries: the old entry stays.
RenamedEntriesBoth(f, from, to) == Cleared(f, to).entries \cup {EntryOf(f, to)}

RenamedEntries(f, from, to) ==
    (Cleared(f, to).entries \cup {EntryOf(f, to)}) \ {EntryOf(f, from)}

\* rename_directory: a MOVE entry, then the force_update inode at the old path
\* goes and one is stored at the system path that the new path had before.
WithoutForceUpdate(f, from, to) ==
    LET g   == Cleared(f, to)
        old == toSystemPath(f.snapshot, Parent(from)) \o <<Last(from)>>
    IN  IF MetadataAt(g, old).kind = "force" THEN Without(g.md, {old}) ELSE g.md

DirectoryRenamed(f, from, to, ino) ==
    LET g == Cleared(f, to) IN
    [g EXCEPT !.entries = RenamedEntries(f, from, to),
              !.version = @ + 1,
              !.snapshot = addDirectoryMove(@, g.version + 1, from, to),
              !.md = With(WithoutForceUpdate(f, from, to), toSystemPath(f.snapshot, to),
                          [kind |-> "force", ino |-> ino])]

\* The assertions and REQ_0 on its way: of addDirectoryMove, of the removal of
\* the target, and that nothing is where the force_update inode goes.
DirectoryRenameAsserts(f, from, to) ==
    /\ lookup(f, to).kind # "none" => UnlinkAsserts(f, to)
    /\ MoveAsserts(Cleared(f, to).snapshot, from)
    /\ toSystemPath(f.snapshot, to) \notin DOMAIN WithoutForceUpdate(f, from, to)

\* rename_regular: the metadata goes to the system path of the new path.
FileRenamed(f, from, to) ==
    LET g == Cleared(f, to)
        source == toSystemPath(f.snapshot, from)
    IN  [g EXCEPT !.entries = RenamedEntries(f, from, to),
                  !.md = Without(With(@, toSystemPath(f.snapshot, to), f.md[source]),
                                 {source})]

-----------------------------------------------------------------------------
(* What the user expects of a rename.                                      *)

Below(dir) == {p \in DOMAIN tree : IsPrefix(dir, p)}

TreeMoved(from, to) ==
    LET New(p) == to \o SubSeq(p, Len(from) + 1, Len(p))
        Old(p) == from \o SubSeq(p, Len(to) + 1, Len(p))
    IN  [p \in {New(q) : q \in Below(from)} |-> tree[Old(p)]]
        @@ Without(tree, Below(from) \cup {to})

-----------------------------------------------------------------------------
(* The actions.                                                            *)

\* Sequences of requests that can be left out:
\*   "move onto mapping"    a directory is moved to a path that has a mapping
\*   "remove reuse"         what got a reused name is removed
\*   "nested move"          a directory is moved from or to a path below another
\*   "replace by move"      a directory is moved onto an empty directory
\*   "move after chmod"     a directory with a permission mapping is moved
Avoided(what, condition) == what \in Avoid => ~condition
HasType(path, type) == path \in DOMAIN fs.snapshot /\ fs.snapshot[path].type = type

Request(o) ==
    /\ o \in Ops /\ ~aborted /\ requests < MaxOps
    /\ requests' = requests + 1

Mkdir(u) ==
    /\ Request("mkdir") /\ MayCreate(fs, u)
    /\ LET inode == [kind |-> "dir", ino |-> inodes + 1] IN
       fs' = Created(fs, u, inode) /\ tree' = With(tree, u, inode)
    /\ inodes' = inodes + 1
    /\ UNCHANGED aborted

CreateFile(u) ==
    /\ Request("create") /\ MayCreate(fs, u)
    /\ LET inode == [kind |-> "file", ino |-> inodes + 1] IN
       fs' = Created(fs, u, inode) /\ tree' = With(tree, u, inode)
    /\ inodes' = inodes + 1
    /\ UNCHANGED aborted

\* hflat_rmdir and hflat_unlink.
Unlink(u) ==
    /\ Request("remove") /\ MayRemove(fs, u)
    /\ Avoided("remove reuse", HasType(u, "REUSE"))
    /\ fs' = Removed(fs, u)
    /\ tree' = Without(tree, {u})
    /\ aborted' = ~UnlinkAsserts(fs, u)
    /\ UNCHANGED inodes

\* hflat_rename of a directory.
MoveDirectory(from, to) ==
    /\ Request("movedir") /\ MayRename(fs, from, to)
    /\ lookup(fs, from).kind = "dir"
    /\ Avoided("move onto mapping",
               to \in DOMAIN fs.snapshot /\ lookup(fs, to).kind = "none")
    /\ Avoided("nested move", Len(from) > 1 \/ Len(to) > 1)
    /\ Avoided("remove reuse", lookup(fs, to).kind # "none" /\ HasType(to, "REUSE"))
    /\ Avoided("replace by move", lookup(fs, to).kind # "none")
    /\ Avoided("move after chmod", HasType(from, "NONE"))
    /\ fs' = DirectoryRenamed(fs, from, to, inodes + 1)
    /\ inodes' = inodes + 1
    /\ tree' = TreeMoved(from, to)
    /\ aborted' = ~DirectoryRenameAsserts(fs, from, to)

\* hflat_rename of a regular file.
MoveFile(from, to) ==
    /\ Request("movefile") /\ MayRename(fs, from, to)
    /\ lookup(fs, from).kind = "file"
    /\ Avoided("remove reuse", lookup(fs, to).kind # "none" /\ HasType(to, "REUSE"))
    /\ fs' = FileRenamed(fs, from, to)
    /\ tree' = TreeMoved(from, to)
    /\ aborted' = (toSystemPath(fs.snapshot, to) \in DOMAIN Cleared(fs, to).md)
    /\ UNCHANGED inodes

\* do_permission_change of a directory whose path permissions change.
Chmod(u) ==
    /\ Request("chmod") /\ Reaches(fs, u)
    /\ lookup(fs, u).kind = "dir"
    /\ fs' = [fs EXCEPT !.version = @ + 1, !.snapshot = addPermissionChange(@, u)]
    /\ UNCHANGED <<inodes, tree, aborted>>

Next ==
    \/ \E u \in UserPath : Mkdir(u) \/ CreateFile(u) \/ Unlink(u) \/ Chmod(u)
    \/ \E u, v \in UserPath : MoveDirectory(u, v) \/ MoveFile(u, v)

Spec == Init /\ [][Next]_vars

-----------------------------------------------------------------------------
(* Properties.                                                             *)

Inode == [kind : {"dir", "file", "force"}, ino : 0 .. MaxOps]
IsPath(p) == \A i \in 1 .. Len(p) : i = 1 \/ p[i] \in Name

\* Type invariant of the mappings, the metadata keys and the tree.
TypeOK ==
    /\ \A p \in DOMAIN fs.snapshot :
          /\ p \in UserPath
          /\ fs.snapshot[p].type \in {"MOVE", "REUSE", "NONE"}
          /\ IsPath(fs.snapshot[p].target)
    /\ \A p \in DOMAIN fs.md : IsPath(p) /\ fs.md[p] \in Inode
    /\ fs.entries \subseteq (0 .. MaxOps) \X Name
    /\ DOMAIN tree \subseteq UserPath
    /\ \A p \in DOMAIN tree : tree[p] \in Inode

\* Path mapping "behaves as expected by the user": lookup finds at each user
\* path the inode that is there according to the requests made, and nothing
\* where nothing is.
LookupFindsTree ==
    ~aborted => \A u \in UserPath :
        /\ Terminates(fs.snapshot, u)
        /\ lookup(fs, u) = IF u \in DOMAIN tree THEN tree[u] ELSE Nothing

\* toSystemPath comes back: the mappings have no cycle.
LookupTerminates == \A u \in UserPath : Terminates(fs.snapshot, u)

\* No metadata is left behind that no user path leads to, except force_update
\* inodes.
NoOrphans ==
    ~aborted => {i \in Range(fs.md) : i.kind # "force"} = Range(tree)

\* readdir returns the names in the tree.
EntriesMatchTree ==
    ~aborted => fs.entries = {<<tree[Parent(u)].ino, Last(u)>> : u \in DOMAIN tree \ {Root}}

\* "mkdir a -> mv a b -> rmdir b should not leave a mapping behind": once all
\* is removed again, no mapping of a move and no force_update inode is left.
NothingLeftBehind ==
    ~aborted /\ DOMAIN tree = {Root} =>
        /\ \A p \in DOMAIN fs.snapshot : fs.snapshot[p].type = "NONE"
        /\ DOMAIN fs.md = {Root}

\* The assertions in addDirectoryMove and unlink_force_update hold, and none of
\* the calls under REQ_0 fails.
AssertionsHold == ~aborted
=============================================================================
