--------------------------- MODULE PathPermission ---------------------------
(***************************************************************************)
(* The path permissions of files.  A lookup goes straight to the metadata  *)
(* of a file, so the metadata holds reachability entries for the x bits of *)
(* all directories above it.  chmod and chown of a directory change only   *)
(* the directory, append an entry to the path-mapping log and leave it to  *)
(* later lookups to find out, by comparing versions of the log, that the   *)
(* entries of a file are stale, and to inherit them again from its parent. *)
(*                                                                         *)
(* The nodes are one path: the root 0, directories 1 .. Depth - 1, and the *)
(* file Depth.  A client has one request at a time; each step has one      *)
(* request to the drives.  The versions of a metadata key are unique, so   *)
(* an object only records whether its version is still the stored one.     *)
(* database_operation and database_update are single steps here: module    *)
(* PathmapLog shows that the log has no gaps.                              *)
(***************************************************************************)
EXTENDS Naturals, Sequences, FiniteSets, Functions

CONSTANTS
    Client,
    Depth,      \* the file's place in the path
    User,       \* [uid, gid] of the users that access the file
    Perm,       \* [uid, gid, x] that directories are given, x their x bits
    Avoid,      \* situations that are left out, see Avoided
    MaxOps,     \* bound: requests of all clients
    MaxChanges, \* bound: chmod and chown requests
    MaxCrashes  \* bound: crashes of clients

ASSUME PathAssumption == Depth \in Nat \ {0} /\ MaxOps \in Nat /\ MaxCrashes \in Nat /\ MaxChanges \in Nat
ASSUME PermAssumption ==
    /\ Perm \subseteq [uid : Nat, gid : Nat, x : SUBSET {"user", "group", "other"}]
    /\ User \subseteq [uid : Nat, gid : Nat]
ASSUME AvoidAssumption ==
    Avoid \subseteq {"root", "old snapshot", "entry during chmod", "crash in chmod",
                     "crash before verify"}

Node == 0 .. Depth
Dir == 0 .. Depth - 1

VARIABLES
    md,       \* stored metadata, Missing before the file is created
    log,      \* the directories of the NONE entries in the path-mapping log
    snap,     \* each client's snapshotVersion
    obj,      \* each client's MetadataInfo objects, cached or held by its request
    req,      \* its request
    ended,    \* history: what a process has ended by itself of
    ops, changes, crashes,
    calm      \* history: no directory has changed since the request began, and
              \* the client had seen all changes

counters == <<ops, changes, crashes>>
vars == <<md, log, snap, obj, req, ended, counters, calm>>

Types == {"UID", "GID", "UID_OR_GID", "NOT_UID", "NOT_GID", "GID_REQ_UID"}

SuperUser == [uid |-> 0, gid |-> 0]
Open == [uid |-> 0, gid |-> 0, x |-> {"user", "group", "other"}]
Entry == [type : Types, uid : {p.uid : p \in Perm \cup {Open}}, gid : {p.gid : p \in Perm \cup {Open}}]
Missing == [perm |-> Open, pp |-> {}, ppc |-> {}, verified |-> 0, exists |-> FALSE]
NoObject == [md |-> Missing, current |-> FALSE, cached |-> FALSE]
NoRequest == [op |-> "none", pc |-> "idle", target |-> 0, at |-> 0, perm |-> Open]

-----------------------------------------------------------------------------
(* Reachability entries.                                                   *)

\* The entries for the x bits of a directory, before duplicates are removed.
Restrictions(p) ==
    LET has(class) == class \in p.x
        add(condition, type) ==
            IF condition THEN <<[type |-> type, uid |-> p.uid, gid |-> p.gid]>> ELSE <<>>
    IN  add(~has("other") /\ has("user") /\ has("group"), "UID_OR_GID")
        \o add(~has("other") /\ has("user") /\ ~has("group"), "UID")
        \o add(~has("other") /\ ~has("user") /\ has("group"), "GID")
        \o add(~has("user"), "NOT_UID")
        \o add(~has("group") /\ ~has("user"), "NOT_GID")
        \o add(~has("group") /\ has("user") /\ has("other"), "GID_REQ_UID")

\* The loop that removes duplicates goes on behind the element it erased: when
\* that was the last one, it runs past the end of the vector.  Reading on from
\* there ends the process.
RemovalInRange(p, pp) ==
    LET v == Restrictions(p) IN v # <<>> => v[Len(v)] \notin pp

\* computePathPermissionChildren
computePathPermissionChildren(m) ==
    [m EXCEPT !.ppc = Range(Restrictions(m.perm)) \ m.pp]

\* Mutant: the parent's entries are added to the old ones.
FromParentAdds(m, parent) ==
    [m EXCEPT !.pp = @ \cup parent.pp \cup parent.ppc, !.verified = parent.verified]

\* inherit_path_permissions, up to the last line.
FromParent(m, parent) ==
    [m EXCEPT !.pp = parent.pp \cup parent.ppc, !.verified = parent.verified]
inherit_path_permissions(n, m, parent) ==
    IF n \in Dir THEN computePathPermissionChildren(FromParent(m, parent))
    ELSE FromParent(m, parent)

\* check_path_permissions
check_path_permissions(entries, u) ==
    \A e \in entries :
        /\ e.type = "UID" => u.uid = e.uid
        /\ e.type = "GID" => u.gid = e.gid
        /\ e.type = "UID_OR_GID" => u.uid = e.uid \/ u.gid = e.gid
        /\ e.type = "NOT_GID" => u.gid # e.gid
        /\ e.type = "NOT_UID" => u.uid # e.uid
        /\ e.type = "GID_REQ_UID" => (u.gid = e.gid => u.uid = e.uid)

\* Mutant: only a mapping of the path itself is looked up.
RequiredOwn(version, n) ==
    LET own == {i \in 1 .. version : log[i] = n}
    IN  IF own = {} THEN 0 ELSE CHOOSE i \in own : \A j \in own : j <= i

\* toSystemPath: the newest change of the path or of a directory above it.  The
\* search ends with the empty path, so that "/" is found for the root only.
Required(version, n) ==
    LET above == {i \in 1 .. version : log[i] = n \/ log[i] \in 1 .. n}
    IN  IF above = {} THEN 0 ELSE CHOOSE i \in above : \A j \in above : j <= i

-----------------------------------------------------------------------------
(* Initial states: directories made one below the other, and the file.     *)

Root == [perm |-> Open, pp |-> {}, ppc |-> {}, verified |-> 0, exists |-> TRUE]
NewFile(p) == [perm |-> p, pp |-> {}, ppc |-> {}, verified |-> 0, exists |-> TRUE]

\* The mode of the file itself has no part in this.
FilePerm == CHOOSE p \in Perm : TRUE

\* mkdir of the directories in turn, and create of the file: each of them inherits
\* from the one above it (MadeInherits in PathPermissionProofs), so that it has
\* the entries of all directories above.
Made(p) ==
    LET Above(n) == UNION {Range(Restrictions(p[d])) : d \in 1 .. n - 1}
        New(n) == [NewFile(p[n]) EXCEPT !.pp = Above(n)]
    IN  [n \in Node |-> IF n = 0 THEN Root
                        ELSE IF n \in Dir THEN computePathPermissionChildren(New(n))
                        ELSE New(n)]

Init ==
    /\ \E p \in [Node \ {0} -> Perm], created \in BOOLEAN :
        /\ p[Depth] = FilePerm
        /\ md = [n \in Node |-> IF n = Depth /\ ~created THEN Missing ELSE Made(p)[n]]
        /\ \A n \in Dir \ {0} : RemovalInRange(p[n], md[n].pp)
    /\ log = <<>>
    /\ snap = [c \in Client |-> 0]
    /\ obj = [c \in Client |-> [n \in Node |-> NoObject]]
    /\ req = [c \in Client |-> NoRequest]
    /\ ended = {}
    /\ ops = 0 /\ changes = 0 /\ crashes = 0
    /\ calm = [c \in Client |-> FALSE]

-----------------------------------------------------------------------------
(* Requests, objects and the drives.                                       *)

Goto(c, pc, at) == req' = [req EXCEPT ![c].pc = pc, ![c].at = at]

\* The request is over: what is not in the cache is gone with it.
Done(c, objects) ==
    /\ req' = [req EXCEPT ![c] = NoRequest]
    /\ obj' = [obj EXCEPT ![c] = [n \in Node |-> IF objects[n].cached THEN objects[n] ELSE NoObject]]
    /\ calm' = [calm EXCEPT ![c] = FALSE]

\* The process ends, and the file system is mounted again: main.cc loads the log.
Remount(c) ==
    /\ Done(c, [n \in Node |-> NoObject])
    /\ snap' = [snap EXCEPT ![c] = Len(log)]
Ends(c, reason) == Remount(c) /\ ended' = ended \cup {reason}

\* A Put of metadata m from the client's object succeeds: objects of the
\* other clients are outdated.
Objects(c, n, m, cached) ==
    [d \in Client |->
        IF d = c THEN [obj[d] EXCEPT ![n] = [md |-> m, current |-> TRUE, cached |-> cached]]
        ELSE [obj[d] EXCEPT ![n].current = FALSE]]

\* get_metadata, into a new object or one that is held.
Loaded(n, cached) == [md |-> md[n], current |-> TRUE, cached |-> cached]

\* A directory is between its new x bits and its new entry list.
Changing(n) == \E c \in Client : req[c].target = n /\ req[c].pc \in {"children", "log", "force"}

\* Situations left out.  "root": chmod of the root.  "old snapshot": a chmod by a
\* client that has not seen all earlier changes, or while another one is under
\* way.  "entry during chmod": a name is added to a directory that is changing.
\* "crash in chmod": the client dies before the change is in the log.  "crash
\* before verify": it dies before the directory is marked as verified again.
Avoided(situation, condition) == situation \in Avoid => ~condition

-----------------------------------------------------------------------------
(* Actions.                                                                *)

Start(c, op, n, p) ==
    /\ req[c].pc = "idle" /\ ops < MaxOps
    /\ ops' = ops + 1
    /\ req' = [req EXCEPT ![c] = [op |-> op, pc |-> "lookup", target |-> n, at |-> n, perm |-> p]]
    /\ calm' = [calm EXCEPT ![c] = snap[c] = Len(log) /\ \A d \in Dir : ~Changing(d)]
    /\ UNCHANGED <<md, log, snap, obj, ended, crashes>>

\* Any request on the file, or on a directory: lookup is what they begin with.
Access(c) == \E n \in Node : md[n].exists /\ Start(c, "access", n, Open) /\ UNCHANGED changes

\* A name is created in a directory; in the last one it is the file.
\* unlink and rmdir write the directory in the same way.
AddName(c) == \E n \in Dir : Start(c, "add", n, Open) /\ UNCHANGED changes

\* hflat_chmod and hflat_chown
ChangePermissions(c) ==
    \E op \in {"chmod", "chown"}, n \in Dir, p \in Perm :
        /\ changes < MaxChanges
        /\ Avoided("root", n = 0)
        /\ Avoided("old snapshot", snap[c] # Len(log) \/ \E d \in Client : req[d].op \in {"chmod", "chown"})
        /\ Start(c, op, n, p)
        /\ changes' = changes + 1

\* lookup, steps 1 to 4: metadata from the cache, unless the item has expired, or
\* from a drive, and whether it is stale.  If it is, the parent is looked up
\* first; for the root that is the root again, until the stack is used up.
lookup(c) ==
    LET n == req[c].at IN
    \E o \in {obj[c][n], Loaded(n, TRUE)} :
        /\ req[c].pc = "lookup" /\ o.cached
        /\ IF o.md.verified >= Required(snap[c], n)
           THEN /\ IF n = req[c].target THEN Goto(c, "found", n) ELSE Goto(c, "inherit", n + 1)
                /\ obj' = [obj EXCEPT ![c][n] = o]
                /\ UNCHANGED <<snap, ended, calm>>
           ELSE IF n # 0
           THEN /\ Goto(c, "lookup", n - 1)
                /\ obj' = [obj EXCEPT ![c][n] = o]
                /\ UNCHANGED <<snap, ended, calm>>
           ELSE Ends(c, "recursion")
        /\ UNCHANGED <<md, log, counters>>

\* The parent's lookup has returned: inherit, put_metadata and, after EAGAIN,
\* lookup again.
Inherit(c) ==
    LET n == req[c].at
        parent == obj[c][n - 1].md
        m == inherit_path_permissions(n, obj[c][n].md, parent)
    IN  /\ req[c].pc = "inherit"
        /\ n \in Dir => RemovalInRange(m.perm, m.pp)
        /\ IF obj[c][n].current
           THEN /\ md' = [md EXCEPT ![n] = m]
                /\ obj' = Objects(c, n, m, obj[c][n].cached)
                /\ IF n = req[c].target THEN Goto(c, "found", n) ELSE Goto(c, "inherit", n + 1)
           ELSE /\ obj' = [obj EXCEPT ![c][n] = NoObject]
                /\ Goto(c, "lookup", n)
                /\ UNCHANGED md
        /\ UNCHANGED <<log, snap, ended, counters, calm>>
InheritEnds(c) ==
    LET n == req[c].at
        m == FromParent(obj[c][n].md, obj[c][n - 1].md)
    IN  /\ req[c].pc = "inherit" /\ n \in Dir
        /\ ~RemovalInRange(m.perm, m.pp)
        /\ Ends(c, "removal")
        /\ UNCHANGED <<md, log, counters>>

Found(c) == obj[c][req[c].target].md

\* The lookup returns, and with it the request: it was all there was to do, or
\* the user may not do the rest (-EACCES, -EPERM).
Return(c) ==
    /\ req[c].pc = "found"
    /\ Done(c, obj[c])
    /\ UNCHANGED <<md, log, snap, ended, counters>>

\* permission_lookup: root or the owner; the owner gives only its own group.
MayChange(u, m, p) ==
    /\ check_path_permissions(m.pp, u)
    /\ u.uid = 0 \/ (u.uid = m.perm.uid /\ p.gid \in {m.perm.gid, u.gid})

\* do_permission_change up to put_metadata.  After EAGAIN it starts again.
PutPermissions(c) ==
    LET n == req[c].target
        old == Found(c).perm
        p == IF req[c].op = "chmod" THEN [old EXCEPT !.x = req[c].perm.x]
             ELSE [req[c].perm EXCEPT !.x = old.x]
        m == [Found(c) EXCEPT !.perm = p]
    IN  /\ req[c].pc = "found" /\ req[c].op \in {"chmod", "chown"}
        /\ \E u \in User \cup {SuperUser} : MayChange(u, Found(c), p)
        /\ Avoided("crash in chmod", obj[c][n].current /\ ~RemovalInRange(p, m.pp))
        /\ IF obj[c][n].current
           THEN /\ md' = [md EXCEPT ![n] = m]
                /\ obj' = Objects(c, n, m, obj[c][n].cached)
                /\ calm' = [d \in Client |-> FALSE]
                /\ Goto(c, "children", n)
           ELSE /\ obj' = [obj EXCEPT ![c][n] = NoObject]
                /\ Goto(c, "lookup", n)
                /\ UNCHANGED <<md, calm>>
        /\ UNCHANGED <<log, snap, ended, counters>>

\* Then the entries for the children, only in memory; unchanged, all is done.
ComputeChildren(c) ==
    LET m == computePathPermissionChildren(Found(c))
    IN  /\ req[c].pc = "children"
        /\ IF ~RemovalInRange(m.perm, m.pp) THEN Ends(c, "removal")
           ELSE IF m = Found(c) THEN Done(c, obj[c]) /\ UNCHANGED <<snap, ended>>
           ELSE /\ obj' = [obj EXCEPT ![c][req[c].target].md = m]
                /\ Goto(c, "log", req[c].target)
                /\ UNCHANGED <<snap, ended, calm>>
        /\ UNCHANGED <<md, log, counters>>

\* database_operation of a NONE entry, after the entries of other clients.
LogChange(c) ==
    /\ req[c].pc = "log"
    /\ log' = Append(log, req[c].target)
    /\ snap' = [snap EXCEPT ![c] = Len(log')]
    /\ Goto(c, "force", req[c].target)
    /\ UNCHANGED <<md, obj, ended, counters, calm>>

\* put_metadata_forced: while EAGAIN, read the metadata again into the object
\* and update that.
Forced(c, m, next) ==
    LET n == req[c].target
    IN  IF obj[c][n].current
        THEN /\ md' = [md EXCEPT ![n] = m]
             /\ next
        ELSE /\ obj' = [obj EXCEPT ![c][n] = Loaded(n, FALSE)]
             /\ UNCHANGED <<md, req, calm>>

\* Mutant: the version after the change.
PutVerifiedNext(c) ==
    LET n == req[c].target
        m == [Found(c) EXCEPT !.verified = snap[c] + 1]
    IN  /\ req[c].pc = "force"
        /\ Forced(c, m, /\ req' = [req EXCEPT ![c] = NoRequest]
                        /\ obj' = Objects(c, n, m, obj[c][n].cached)
                        /\ UNCHANGED calm)
        /\ UNCHANGED <<log, snap, ended, counters>>

PutVerified(c) ==
    LET n == req[c].target
        m == [Found(c) EXCEPT !.verified = snap[c]]
    IN  /\ req[c].pc = "force"
        /\ Forced(c, m, /\ req' = [req EXCEPT ![c] = NoRequest]
                        /\ obj' = Objects(c, n, m, obj[c][n].cached)
                        /\ UNCHANGED calm)
        /\ UNCHANGED <<log, snap, ended, counters>>

\* create_directory_entry: the directory's times are written.
PutTimes(c) ==
    LET n == req[c].target
    IN  /\ req[c].pc = "found" /\ req[c].op = "add"
        /\ \E u \in User \cup {SuperUser} : check_path_permissions(Found(c).pp \cup Found(c).ppc, u)
        /\ Avoided("entry during chmod", Changing(n))
        /\ Forced(c, Found(c), /\ Goto(c, "create", n)
                               /\ obj' = Objects(c, n, Found(c), obj[c][n].cached)
                               /\ UNCHANGED calm)
        /\ UNCHANGED <<log, snap, ended, counters>>

\* initialize_metadata and create_metadata, for the file of this model.
CreateFile(c) ==
    LET n == req[c].target
        file == inherit_path_permissions(Depth, NewFile(FilePerm), Found(c))
        is == n = Depth - 1 /\ ~md[Depth].exists
    IN  /\ req[c].pc = "create"
        /\ md' = IF is THEN [md EXCEPT ![Depth] = file] ELSE md
        /\ Done(c, IF is THEN [obj[c] EXCEPT ![Depth] = [md |-> file, current |-> TRUE, cached |-> TRUE]]
                   ELSE obj[c])
        /\ UNCHANGED <<log, snap, ended, counters>>

\* database_update, called by rmdir and by a lookup that meets a force_update
\* inode.
Update(c) ==
    /\ req[c].pc = "idle" /\ snap[c] # Len(log)
    /\ snap' = [snap EXCEPT ![c] = Len(log)]
    /\ UNCHANGED <<md, log, obj, req, ended, counters, calm>>

Crash(c) ==
    /\ crashes < MaxCrashes /\ req[c].pc # "idle"
    /\ Avoided("crash in chmod", req[c].pc \in {"children", "log"})
    /\ Avoided("crash before verify", req[c].pc = "force")
    /\ crashes' = crashes + 1
    /\ Remount(c)
    /\ UNCHANGED <<md, log, ended, ops, changes>>

Next ==
    \E c \in Client :
        \/ Access(c) \/ AddName(c) \/ ChangePermissions(c)
        \/ lookup(c) \/ Inherit(c) \/ InheritEnds(c) \/ Return(c)
        \/ PutPermissions(c) \/ ComputeChildren(c) \/ LogChange(c) \/ PutVerified(c)
        \/ PutTimes(c) \/ CreateFile(c)
        \/ Update(c) \/ Crash(c)

Spec == Init /\ [][Next]_vars

-----------------------------------------------------------------------------
(* Properties.                                                             *)

\* Type invariant of metadata, log and requests.  computePathPermissionChildren
\* asserts that a directory has two entries for its children at most, and no
\* metadata is verified against a change that is not in the log yet.
TypeOK ==
    /\ \A n \in Node : md[n].exists =>
        /\ md[n].pp \subseteq Entry /\ md[n].ppc \subseteq Entry
        /\ Cardinality(md[n].ppc) <= 2
        /\ md[n].verified \in 0 .. Len(log)
    /\ log \in Seq(Dir)
    /\ snap \in [Client -> 0 .. Len(log)]
    /\ \A c \in Client, n \in Node : obj[c][n].current => obj[c][n].md.exists = md[n].exists
    /\ ended \subseteq {"removal", "recursion"}
    /\ \A c \in Client : req[c].pc \in {"idle", "lookup", "inherit", "found", "children", "log", "force", "create"}

\* The x bits of a directory, as check_access applies the bits of a mode.
Enters(p, u) ==
    CASE u.uid = p.uid -> "user" \in p.x
      [] u.uid # p.uid /\ u.gid = p.gid -> "group" \in p.x
      [] OTHER -> "other" \in p.x

\* Users that all directories above a node let pass.
Reaches(n, u) == \A d \in 0 .. n - 1 : Enters(md[d].perm, u)

\* Stored entries that no change in the log is newer than are those of the path:
\* they let exactly those users pass that every directory above lets pass, unless
\* a directory above is just being changed (lookup.cc, step 4).
VerifiedIsCurrent ==
    \A n \in Node :
        md[n].exists /\ md[n].verified >= Required(Len(log), n) /\ (\A d \in 0 .. n - 1 : ~Changing(d))
        => \A u \in User : check_path_permissions(md[n].pp, u) <=> Reaches(n, u)

\* A lookup that began after the client had seen all changes, and during which no
\* directory was changed, lets exactly those users pass that all directories
\* above let pass, whatever was in the cache or stale on the drives.
LookupEnforces ==
    \A c \in Client :
        calm[c] /\ req[c].pc = "found"
        => \A u \in User : check_path_permissions(Found(c).pp, u) <=> Reaches(req[c].target, u)

\* No request ends the process.
NobodyEnds == ended = {}
=============================================================================
