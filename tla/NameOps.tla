------------------------------ MODULE NameOps ------------------------------
(***************************************************************************)
(* The names of the files in one directory: create, unlink, rename, hard   *)
(* link and attribute changes, made of several requests to the drives      *)
(* each, by clients that work at the same time and may die between any two *)
(* requests, and the repair of what they leave behind, fsck_directory.     *)
(*                                                                         *)
(* Keys are names and, for the metadata of hard links, inode numbers.      *)
(* Metadata is its type, inode number, link count and version; version 0   *)
(* is the one of a MetadataInfo that was not found. Directory entries are  *)
(* keys without content; a recovery entry holds the two names of a rename. *)
(* A lookup is a Get of what is stored (metadata from the cache is an      *)
(* earlier Get); the two Gets of a hard link's lookup are one step. Every  *)
(* other step has one request. REQ_0 ends the process, which is then       *)
(* mounted again.                                                          *)
(***************************************************************************)
EXTENDS Naturals, FiniteSets

CONSTANTS
    Client,
    Name,
    Files,       \* names of the files at the start
    Ops,         \* requests that are made
    Root,        \* is the directory the root of the file system?
    Avoid,       \* overlapping requests that are left out, see Avoided
    MaxOps,      \* bound: requests of all clients
    MaxCrashes   \* bound: crashes of clients

ASSUME NamesAssumption == IsFiniteSet(Name) /\ Files \subseteq Name
ASSUME ModeAssumption ==
    /\ Ops \subseteq {"create", "unlink", "rename", "link", "setattr", "fsck"}
    /\ Avoid \subseteq {"reused version", "stale source", "link during rename", "unlink during rename",
                        "link goes away", "crash in link", "use before fsck", "online fsck",
                        "target in use"}
    /\ Root \in BOOLEAN /\ MaxOps \in Nat /\ MaxCrashes \in Nat

Inode == 1 .. Cardinality(Name) + MaxOps
Key == Name \cup Inode
ASSUME KeyAssumption == Name \cap Inode = {}

NoName == "none"
ASSUME NoNameAssumption == NoName \notin Name

Metadata == [type : {"none", "POSIX", "S", "T"}, ino : Inode \cup {0}, links : Nat, version : Nat]
Missing == [type |-> "none", ino |-> 0, links |-> 0, version |-> 0]
NoInfo == [key |-> NoName, md |-> Missing]
NoRequest == [op |-> "none", from |-> NoName, to |-> NoName, name |-> NoName,
              source |-> NoInfo, target |-> NoInfo, removed |-> NoInfo, link |-> NoInfo]

VARIABLES
    md,         \* metadata keys
    entries,    \* directory entries
    recovery,   \* recovery entries, as <<to, from>>
    versions, inodes,   \* versions and inode numbers generated so far
    pc,         \* where each client is
    req,        \* its request, with the MetadataInfo objects it holds
    broken,     \* has a client died since the last fsck?
    ops, crashes,
    live        \* history: inodes created and not removed

keys == <<md, entries, recovery>>
counters == <<versions, inodes, ops, crashes>>
vars == <<keys, counters, pc, req, broken, live>>

Number == CHOOSE f \in [Files -> 1 .. Cardinality(Files)] :
             \A a, b \in Files : f[a] = f[b] => a = b

Init ==
    /\ md = [k \in Key |-> IF k \in Files
                           THEN [type |-> "POSIX", ino |-> Number[k], links |-> 1, version |-> 1]
                           ELSE Missing]
    /\ entries = Files /\ recovery = {}
    /\ versions = 1 /\ inodes = Cardinality(Files)
    /\ pc = [c \in Client |-> "idle"]
    /\ req = [c \in Client |-> NoRequest]
    /\ broken = FALSE
    /\ ops = 0 /\ crashes = 0
    /\ live = 1 .. Cardinality(Files)

-----------------------------------------------------------------------------
(* Requests to the drives.                                                 *)

\* lookup follows a forwarding key; a MetadataInfo without inode is ENOENT.
lookup(n) == IF md[n].type = "S" THEN [key |-> md[n].ino, md |-> md[md[n].ino]]
             ELSE [key |-> n, md |-> md[n]]
Found(info) == info.md.ino # 0

\* get_metadata_userpath
Raw(n) == [key |-> n, md |-> md[n]]

\* REQUIRE_SAME_VERSION: of a version, and of the empty one.
SameVersion(k, version) == md[k] # Missing /\ md[k].version = version
Free(k) == md[k] = Missing

\* The version that put_metadata, create_metadata and initialize_metadata give.
NewVersion == versions + 1

\* put_metadata of what the client holds, with a new version.
Stored(m) == [m EXCEPT !.version = NewVersion]
Put(k, m) ==
    /\ md' = [md EXCEPT ![k] = Stored(m)]
    /\ versions' = versions + 1
    /\ UNCHANGED <<inodes, ops, crashes>>

Del(k) == md' = [md EXCEPT ![k] = Missing]

-----------------------------------------------------------------------------
(* Control.                                                                *)

Goto(c, label) == pc' = [pc EXCEPT ![c] = label]
Hold(c, r) == req' = [req EXCEPT ![c] = r]

\* The request is over, or the process has ended.
Leave(c) == Goto(c, "idle") /\ Hold(c, NoRequest)
Return(c) == Leave(c) /\ UNCHANGED broken
Die(c) == Leave(c) /\ broken' = TRUE

\* REQ_0(condition), then on to a label.
Require(c, condition, label) ==
    IF condition THEN Goto(c, label) /\ UNCHANGED <<req, broken>> ELSE Die(c)

\* After EAGAIN the request calls itself again.
Again(c) == Goto(c, "again") /\ UNCHANGED <<req, broken>>
To(c, label) == Goto(c, label) /\ UNCHANGED <<req, broken>>

Active(c) == pc[c] # "idle"
Quiet == \A c \in Client : ~Active(c)
InFsck(c) == Active(c) /\ req[c].op = "fsck"

Avoided(what, condition) == what \in Avoid => ~condition

\* Another client than c is in a request op that has the name n in field f.
Elsewhere(c, op, f, n) == \E x \in Client \ {c} : req[x].op = op /\ req[x][f] = n

\* rename onto a name stores a version there that is 0 or was there before, so
\* that a client with an older lookup of the name does not meet a mismatch.
VersionReused(c, op, from, to) ==
    \/ op \in {"setattr", "link"} /\ Elsewhere(c, "rename", "to", from)
    \/ op = "rename" /\ (Elsewhere(c, "setattr", "from", to) \/ Elsewhere(c, "link", "from", to))

Takes(r, n) == (r.op = "create" /\ r.from = n) \/ (r.op \in {"rename", "link"} /\ r.to = n)
Frees(r, n) == (r.op = "unlink" /\ r.from = n) \/ (r.op = "rename" /\ r.to = n)

\* A rename moves the metadata of its lookup, and deletes what is there then.
StaleSource(c, op, from, to) ==
    LET r == [op |-> op, from |-> from, to |-> to] IN
    \/ \E n \in Name : Takes(r, n) /\ Elsewhere(c, "rename", "from", n)
    \/ op = "rename" /\ \E x \in Client \ {c} : Takes(req[x], from)

\* A name is taken while its hard link is removed: lookup finds the forwarding
\* key without metadata, and returns a MetadataInfo of the inode's key; or the
\* unlink decrements the link count of the inode that the name led to before.
LinkGoesAway(c, op, from, to) ==
    LET r == [op |-> op, from |-> from, to |-> to] IN
    \E n \in Name, x \in Client \ {c} :
        /\ md[n].type = "S" \/ \E i \in Inode : md[i] # Missing
        /\ (Takes(r, n) /\ Frees(req[x], n)) \/ (Takes(req[x], n) /\ Frees(r, n))

\* A name is taken that a rename has not finished with: were its client to die,
\* fsck would take what is there for the file that was moved.
RecoveryPending(c, op, from, to) ==
    \/ \E r \in recovery : Takes([op |-> op, from |-> from, to |-> to], r[1])
    \/ op = "rename" /\ Elsewhere(c, "rename", "to", to)

\* A name of a hard link is removed while a rename is moving it.
UnlinkDuringRename(c, op, from, to) ==
    LET r == [op |-> op, from |-> from, to |-> to]
        Moves(q, n) == q.op = "rename" /\ n \in {q.from, q.to}
    IN  /\ \E i \in Inode : md[i] # Missing
        /\ \E n \in Name, x \in Client \ {c} :
              (Moves(r, n) /\ Frees(req[x], n)) \/ (Moves(req[x], n) /\ Frees(r, n))

\* A name is taken or removed while a rename moves a file to it.
TargetInUse(c, op, from, to) ==
    LET r == [op |-> op, from |-> from, to |-> to]
        Uses(q, n) == Takes(q, n) \/ Frees(q, n)
    IN  \E x \in Client \ {c} :
            \/ op = "rename" /\ Uses(req[x], to)
            \/ req[x].op = "rename" /\ Uses(r, req[x].to)

Overlap(c, op, from, to) ==
    /\ Avoided("reused version", VersionReused(c, op, from, to))
    /\ Avoided("stale source", StaleSource(c, op, from, to))
    /\ Avoided("link during rename",
               \/ op = "link" /\ Elsewhere(c, "rename", "from", from)
               \/ op = "rename" /\ Elsewhere(c, "link", "from", from))
    /\ Avoided("unlink during rename", UnlinkDuringRename(c, op, from, to))
    /\ Avoided("link goes away", LinkGoesAway(c, op, from, to))
    /\ Avoided("use before fsck", broken \/ RecoveryPending(c, op, from, to))
    /\ Avoided("target in use", TargetInUse(c, op, from, to))
    /\ Avoided("online fsck", \E x \in Client : InFsck(x))

\* A request begins with the lookup of its first name.
Begin(c, op, from, to, label) ==
    /\ pc[c] = "idle" /\ op \in Ops /\ ops < MaxOps
    /\ Overlap(c, op, from, to)
    /\ ops' = ops + 1
    /\ Hold(c, [NoRequest EXCEPT !.op = op, !.from = from, !.to = to, !.name = from,
                                 !.source = lookup(from)])
    /\ Goto(c, label)
    /\ UNCHANGED <<keys, versions, inodes, crashes, broken, live>>

-----------------------------------------------------------------------------
(* hflat_create.                                                           *)

BeginCreate(c, n) == ~Found(lookup(n)) /\ Begin(c, "create", n, NoName, "entry")

\* create_directory_entry
CreateEntry(c) ==
    LET n == req[c].from IN
    /\ pc[c] = "entry"
    /\ IF n \in entries THEN Return(c) /\ UNCHANGED entries
       ELSE entries' = entries \cup {n} /\ To(c, "create")
    /\ UNCHANGED <<md, recovery, counters, live>>

\* initialize_metadata and REQ_0(create_metadata).
CreateMetadata(c) ==
    LET k == req[c].source.key IN
    /\ pc[c] = "create"
    /\ IF Free(k)
       THEN /\ md' = [md EXCEPT ![k] = [type |-> "POSIX", ino |-> inodes + 1, links |-> 1,
                                        version |-> NewVersion]]
            /\ versions' = versions + 1 /\ inodes' = inodes + 1
            /\ live' = live \cup {inodes + 1}
            /\ Return(c)
       ELSE Die(c) /\ UNCHANGED <<md, versions, inodes, live>>
    /\ UNCHANGED <<entries, recovery, ops, crashes>>

-----------------------------------------------------------------------------
(* hflat_unlink, also called by hflat_rename for its target.  req.name is  *)
(* the name, req.removed what its lookup found.                            *)

BeginUnlink(c, n) == Found(lookup(n)) /\ Begin(c, "unlink", n, NoName, "lookup")

\* unlink_lookup
UnlinkLookup(c) ==
    LET info == lookup(req[c].name) IN
    /\ pc[c] = "lookup"
    /\ IF ~Found(info) THEN Return(c)
       ELSE /\ Hold(c, [req[c] EXCEPT !.removed = info])
            /\ Goto(c, IF info.md.type = "T" THEN "source" ELSE "delete")
            /\ UNCHANGED broken
    /\ UNCHANGED <<keys, counters, live>>

\* delete_metadata of a file that is no hard link.
DeleteMetadata(c) ==
    LET info == req[c].removed IN
    /\ pc[c] = "delete"
    /\ \/ /\ SameVersion(info.key, info.md.version)
          /\ Del(info.key) /\ live' = live \ {md[info.key].ino}
          /\ To(c, "unentry")
       \/ md[info.key] = Missing /\ Return(c) /\ UNCHANGED <<md, live>>
       \/ /\ md[info.key] # Missing /\ ~SameVersion(info.key, info.md.version)
          /\ To(c, "lookup") /\ UNCHANGED <<md, live>>
    /\ UNCHANGED <<entries, recovery, counters>>

\* unlink_hardlink: the forwarding key is read, its link count must be 1.
GetSource(c) ==
    LET info == Raw(req[c].name) IN
    /\ pc[c] = "source"
    /\ \/ /\ info.md.type = "S" /\ info.md.links # 0
          /\ Hold(c, [req[c] EXCEPT !.link = info])
          /\ Goto(c, "claim") /\ UNCHANGED broken
       \/ (info.md = Missing \/ (info.md.type = "S" /\ info.md.links = 0)) /\ Return(c)
       \/ info.md.type \in {"POSIX", "T"} /\ Die(c)
    /\ UNCHANGED <<keys, counters, live>>

\* Its link count is put to 0, which one client can do.
Claim(c) ==
    LET info == req[c].link IN
    /\ pc[c] = "claim"
    /\ IF SameVersion(info.key, info.md.version)
       THEN /\ Put(info.key, [info.md EXCEPT !.links = 0])
            /\ Hold(c, [req[c] EXCEPT !.link.md = Stored([info.md EXCEPT !.links = 0])])
            /\ Goto(c, "count") /\ UNCHANGED broken
       ELSE To(c, "lookup") /\ UNCHANGED <<md, counters>>
    /\ UNCHANGED <<entries, recovery, live>>

\* Mutant of CountDown: the key stays when the last name is removed.
CountDownKeeps(c) ==
    LET info == req[c].removed IN
    /\ pc[c] = "count"
    /\ IF SameVersion(info.key, info.md.version)
       THEN /\ Put(info.key, [info.md EXCEPT !.links = @ - 1])
            /\ UNCHANGED live
            /\ To(c, "unlink")
       ELSE To(c, "unclaim") /\ UNCHANGED <<md, counters, live>>
    /\ UNCHANGED <<entries, recovery>>

\* The metadata of the hard link: one name less, or deleted with the last one.
\* A key that is gone makes a delete fail with ENOENT, a put with EAGAIN.
CountDown(c) ==
    LET info == req[c].removed
        gone == md[info.key] = Missing /\ info.md.links = 1
    IN
    /\ pc[c] = "count"
    /\ IF SameVersion(info.key, info.md.version)
       THEN /\ IF info.md.links = 1
               THEN Del(info.key) /\ live' = live \ {info.md.ino} /\ UNCHANGED counters
               ELSE Put(info.key, [info.md EXCEPT !.links = @ - 1]) /\ UNCHANGED live
            /\ To(c, "unlink")
       ELSE /\ To(c, IF gone THEN "unclaim gone" ELSE "unclaim")
            /\ UNCHANGED <<md, counters, live>>
    /\ UNCHANGED <<entries, recovery>>

\* That has failed: REQ_0(put_metadata) of the forwarding key, then unlink begins
\* again if the hard link has changed and returns ENOENT if it is gone.
Unclaim(c) ==
    LET info == req[c].link IN
    /\ pc[c] \in {"unclaim", "unclaim gone"}
    /\ IF SameVersion(info.key, info.md.version)
       THEN /\ Put(info.key, [info.md EXCEPT !.links = 1])
            /\ IF pc[c] = "unclaim" THEN To(c, "lookup") ELSE Return(c)
       ELSE Die(c) /\ UNCHANGED <<md, counters>>
    /\ UNCHANGED <<entries, recovery, live>>

\* REQ_0(delete_metadata) of the forwarding key.
Unlink(c) ==
    LET info == req[c].link
        same == SameVersion(info.key, info.md.version)
    IN  /\ pc[c] = "unlink"
        /\ Require(c, same, "unentry")
        /\ md' = IF same THEN [md EXCEPT ![info.key] = Missing] ELSE md
        /\ UNCHANGED <<entries, recovery, counters, live>>

\* REQ_0(delete_directory_entry); hflat_rename goes on, and looks its target
\* up again if that was a hard link.
DeleteEntry(c) ==
    LET n == req[c].name IN
    /\ pc[c] = "unentry"
    /\ entries' = entries \ {n}
    /\ \/ n \notin entries /\ Die(c)
       \/ n \in entries /\ req[c].op = "unlink" /\ Return(c)
       \/ /\ n \in entries /\ req[c].op = "rename"
          /\ Hold(c, IF req[c].target.md.type = "T"
                     THEN [req[c] EXCEPT !.target = lookup(n)] ELSE req[c])
          /\ Goto(c, "newentry") /\ UNCHANGED broken
    /\ UNCHANGED <<md, recovery, counters, live>>

-----------------------------------------------------------------------------
(* hflat_rename.                                                           *)

BeginRename(c, from, to) ==
    from # to /\ Found(lookup(from)) /\ Begin(c, "rename", from, to, "target")

\* The lookup of the target, which is unlinked if it exists.
RenameTarget(c) ==
    LET info == lookup(req[c].to) IN
    /\ pc[c] = "target"
    /\ Hold(c, [req[c] EXCEPT !.target = info, !.name = req[c].to])
    /\ Goto(c, IF Found(info) THEN "lookup" ELSE "newentry")
    /\ UNCHANGED <<keys, counters, broken, live>>

\* Synchronization point (1): the new entry.  Also of hflat_hardlink.
NewEntry(c) ==
    LET n == req[c].to IN
    /\ pc[c] = "newentry"
    /\ IF n \in entries THEN Return(c) /\ UNCHANGED entries
       ELSE /\ entries' = entries \cup {n}
            /\ To(c, IF req[c].op = "rename" THEN "recovery"
                     ELSE IF req[c].source.md.type = "T" THEN "countup" ELSE "forward")
    /\ UNCHANGED <<md, recovery, counters, live>>

Recovery(c) == <<req[c].to, req[c].from>>

RecoveryEntry(c) ==
    /\ pc[c] = "recovery"
    /\ Require(c, Recovery(c) \notin recovery, "oldentry")
    /\ recovery' = recovery \cup {Recovery(c)}
    /\ UNCHANGED <<md, entries, counters, live>>

\* Mutant of OldEntry: a hard link is moved like any other file.
OldEntryRegular(c) ==
    LET n == req[c].from IN
    /\ pc[c] = "oldentry"
    /\ entries' = entries \ {n}
    /\ To(c, IF n \notin entries THEN "rollback" ELSE "copy")
    /\ UNCHANGED <<md, recovery, counters, live>>

\* Synchronization point (2): the old entry.  The metadata of a hard link that
\* is moved is its forwarding key.
OldEntry(c) ==
    LET n == req[c].from IN
    /\ pc[c] = "oldentry"
    /\ entries' = entries \ {n}
    /\ To(c, IF n \notin entries THEN "rollback"
             ELSE IF req[c].source.md.type = "T" THEN "getsource" ELSE "copy")
    /\ UNCHANGED <<md, recovery, counters, live>>

\* The old entry is gone: both new entries are deleted.
Rollback(c) ==
    /\ pc[c] = "rollback"
    /\ Require(c, req[c].to \in entries, "finish")
    /\ entries' = entries \ {req[c].to}
    /\ UNCHANGED <<md, recovery, counters, live>>

\* rename_hardlink
RenameSource(c) ==
    LET info == Raw(req[c].from) IN
    /\ pc[c] = "getsource"
    /\ IF info.md.type = "S"
       THEN /\ Hold(c, [req[c] EXCEPT !.source = info])
            /\ Goto(c, "copy") /\ UNCHANGED broken
       ELSE Die(c)
    /\ UNCHANGED <<keys, counters, live>>

\* rename_regular: the metadata is put at the new key, which must not
\* exist, with the version that the target had.
Copy(c) ==
    LET to == req[c].target IN
    /\ pc[c] = "copy"
    /\ Require(c, Free(to.key), "remove")
    /\ md' = IF Free(to.key)
             THEN [md EXCEPT ![to.key] = [req[c].source.md EXCEPT !.version = to.md.version]]
             ELSE md
    /\ UNCHANGED <<entries, recovery, counters, live>>

\* The old key is deleted with IGNORE_VERSION.
RemoveOld(c) ==
    LET k == req[c].source.key IN
    /\ pc[c] = "remove"
    /\ Require(c, md[k] # Missing, "finish")
    /\ Del(k)
    /\ UNCHANGED <<entries, recovery, counters, live>>

\* REQ_0(delete_directory_entry) of the recovery entry.
Finish(c) ==
    /\ pc[c] = "finish"
    /\ IF Recovery(c) \in recovery THEN Return(c) ELSE Die(c)
    /\ recovery' = recovery \ {Recovery(c)}
    /\ UNCHANGED <<md, entries, counters, live>>

-----------------------------------------------------------------------------
(* hflat_hardlink: the file "from" gets the name "to".                     *)

BeginLink(c, from, to) ==
    from # to /\ Found(lookup(from)) /\ Begin(c, "link", from, to, "origin")

LinkOrigin(c) ==
    LET info == lookup(req[c].to) IN
    /\ pc[c] = "origin"
    /\ IF Found(info) THEN Return(c)
       ELSE /\ Hold(c, [req[c] EXCEPT !.target = info])
            /\ Goto(c, "newentry") /\ UNCHANGED broken
    /\ UNCHANGED <<keys, counters, live>>

\* toHardlinkT: the forwarding key takes the place of the metadata ...
Forward(c) ==
    LET info == req[c].source IN
    /\ pc[c] = "forward"
    /\ IF SameVersion(info.key, info.md.version)
       THEN /\ Put(info.key, [type |-> "S", ino |-> info.md.ino, links |-> 1, version |-> 0])
            /\ To(c, "move")
       ELSE To(c, "noentry") /\ UNCHANGED <<md, counters>>
    /\ UNCHANGED <<entries, recovery, live>>

\* ... and REQ_0(create_metadata) stores that at the key of the inode.
MoveMetadata(c) ==
    LET k == req[c].source.md.ino
        m == [req[c].source.md EXCEPT !.type = "T"]
    IN  /\ pc[c] = "move"
        /\ IF Free(k)
           THEN /\ Put(k, m)
                /\ Hold(c, [req[c] EXCEPT !.source = [key |-> k, md |-> Stored(m)]])
                /\ Goto(c, "countup") /\ UNCHANGED broken
           ELSE Die(c) /\ UNCHANGED <<md, counters>>
        /\ UNCHANGED <<entries, recovery, live>>

\* Mutant of CountUp: put_metadata without regard to other clients.
CountUpIgnoring(c) ==
    LET info == req[c].source IN
    /\ pc[c] = "countup"
    /\ Put(info.key, [info.md EXCEPT !.links = @ + 1])
    /\ To(c, "link")
    /\ UNCHANGED <<entries, recovery, live>>

CountUp(c) ==
    LET info == req[c].source IN
    /\ pc[c] = "countup"
    /\ IF SameVersion(info.key, info.md.version)
       THEN Put(info.key, [info.md EXCEPT !.links = @ + 1]) /\ To(c, "link")
       ELSE To(c, "noentry") /\ UNCHANGED <<md, counters>>
    /\ UNCHANGED <<entries, recovery, live>>

\* The inode has changed: REQ_0(delete_directory_entry), and again.
NoEntry(c) ==
    /\ pc[c] = "noentry"
    /\ Require(c, req[c].to \in entries, "again")
    /\ entries' = entries \ {req[c].to}
    /\ UNCHANGED <<md, recovery, counters, live>>

\* REQ_0(create_metadata) of the new forwarding key.
Link(c) ==
    LET k == req[c].target.key IN
    /\ pc[c] = "link"
    /\ IF Free(k)
       THEN /\ Put(k, [type |-> "S", ino |-> req[c].source.md.ino, links |-> 1, version |-> 0])
            /\ Return(c)
       ELSE Die(c) /\ UNCHANGED <<md, counters>>
    /\ UNCHANGED <<entries, recovery, live>>

-----------------------------------------------------------------------------
(* chmod, chown, utimens, xattr: put_metadata of what lookup found.        *)

BeginSetattr(c, n) == Found(lookup(n)) /\ Begin(c, "setattr", n, NoName, "setattr")

Setattr(c) ==
    LET info == req[c].source IN
    /\ pc[c] = "setattr"
    /\ IF SameVersion(info.key, info.md.version)
       THEN Put(info.key, info.md) /\ Return(c)
       ELSE To(c, "again") /\ UNCHANGED <<md, counters>>
    /\ UNCHANGED <<entries, recovery, live>>

\* hflat_hardlink, or the request that sets an attribute, from its start.
Retry(c) ==
    LET info == lookup(req[c].from) IN
    /\ pc[c] = "again"
    /\ IF ~Found(info) THEN Return(c)
       ELSE /\ Hold(c, [req[c] EXCEPT !.source = info])
            /\ Goto(c, IF req[c].op = "link" THEN "origin" ELSE "setattr")
            /\ UNCHANGED broken
    /\ UNCHANGED <<keys, counters, live>>

-----------------------------------------------------------------------------
(* fsck_directory.                                                         *)

\* It may be run at any time; where nobody works and nothing is left behind it
\* changes nothing.
BeginFsck(c) ==
    /\ pc[c] = "idle" /\ "fsck" \in Ops /\ (broken \/ ~Quiet)
    /\ Avoided("online fsck", ~Quiet)
    /\ Hold(c, [NoRequest EXCEPT !.op = "fsck"])
    /\ Goto(c, "scan")
    /\ UNCHANGED <<keys, counters, broken, live>>

Dangling(n) == n \in entries /\ ~Found(lookup(n))

\* scan_direntries looks the directory's path followed by the entry up, without a
\* separator: only the path of the root ends with one.  Elsewhere that is a path
\* next to the directory, where no file is.
ScanFails(n) == n \in entries /\ (Root => Dangling(n))

\* It stops at the first entry without metadata: a recovery entry has none, and
\* comes after the entry of its name.
ScanEntry(c, n) ==
    /\ pc[c] = "scan" /\ ScanFails(n)
    /\ Hold(c, [req[c] EXCEPT !.from = n])
    /\ Goto(c, "dangling")
    /\ UNCHANGED <<keys, counters, broken, live>>

ScanRecovery(c, r) ==
    /\ pc[c] = "scan" /\ r \in recovery /\ ~ScanFails(r[1])
    /\ Hold(c, [req[c] EXCEPT !.to = r[1], !.from = r[2],
                               !.target = Raw(r[1]), !.source = Raw(r[2])])
    /\ Goto(c, "restore")
    /\ UNCHANGED <<keys, counters, broken, live>>

ScanDone(c) ==
    /\ pc[c] = "scan" /\ recovery = {} /\ (\A n \in Name : ~ScanFails(n))
    /\ Leave(c) /\ broken' = FALSE
    /\ UNCHANGED <<keys, counters, live>>

\* A dangling entry is deleted.
DeleteDangling(c) ==
    /\ pc[c] = "dangling"
    /\ IF req[c].from \in entries THEN To(c, "scan") ELSE Return(c)
    /\ entries' = entries \ {req[c].from}
    /\ UNCHANGED <<md, recovery, counters, live>>

\* Mutant of Restore: the copy at the target counts as the file.
RestoreNot(c) ==
    /\ pc[c] = "restore"
    /\ To(c, "untarget")
    /\ UNCHANGED <<keys, counters, live>>

\* recover_rename: the metadata goes back to the origin if it is not there.
Restore(c) ==
    LET from == req[c].source
        to == req[c].target
    IN  /\ pc[c] = "restore"
        /\ \/ Found(from) /\ To(c, "untarget") /\ UNCHANGED md
           \/ /\ ~Found(from) /\ Found(to) /\ Free(from.key)
              /\ md' = [md EXCEPT ![from.key] = to.md]
              /\ To(c, "untarget")
           \/ ~Found(from) /\ Found(to) /\ ~Free(from.key) /\ Return(c) /\ UNCHANGED md
           \/ ~Found(from) /\ ~Found(to) /\ Die(c) /\ UNCHANGED md
        /\ UNCHANGED <<entries, recovery, counters, live>>

\* The metadata at the target is deleted.
RemoveTarget(c) ==
    LET to == req[c].target IN
    /\ pc[c] = "untarget"
    /\ IF Found(to) /\ md[to.key] = Missing THEN Return(c) ELSE To(c, "reentry")
    /\ md' = IF Found(to) THEN [md EXCEPT ![to.key] = Missing] ELSE md
    /\ UNCHANGED <<entries, recovery, counters, live>>

\* The entry of the origin comes back.
RestoreEntry(c) ==
    /\ pc[c] = "reentry"
    /\ entries' = entries \cup {req[c].from}
    /\ To(c, "unrecover")
    /\ UNCHANGED <<md, recovery, counters, live>>

DeleteRecovery(c) ==
    /\ pc[c] = "unrecover"
    /\ IF Recovery(c) \in recovery THEN To(c, "scan") ELSE Return(c)
    /\ recovery' = recovery \ {Recovery(c)}
    /\ UNCHANGED <<md, entries, counters, live>>

-----------------------------------------------------------------------------
\* A hard link is being made or removed.
Linking(c) == pc[c] \in {"forward", "move", "countup", "link", "noentry",
                         "source", "claim", "count", "unclaim", "unclaim gone",
                         "unlink"}

\* A client dies.
Crash(c) ==
    /\ Active(c) /\ crashes < MaxCrashes
    /\ Avoided("crash in link", Linking(c))
    /\ Die(c)
    /\ crashes' = crashes + 1
    /\ UNCHANGED <<keys, versions, inodes, ops, live>>

CreateStep(c) == CreateEntry(c) \/ CreateMetadata(c)
UnlinkStep(c) == UnlinkLookup(c) \/ DeleteMetadata(c) \/ GetSource(c) \/ Claim(c) \/ CountDown(c)
                 \/ Unclaim(c) \/ Unlink(c) \/ DeleteEntry(c)
RenameStep(c) == RenameTarget(c) \/ NewEntry(c) \/ RecoveryEntry(c) \/ OldEntry(c) \/ Rollback(c)
                 \/ RenameSource(c) \/ Copy(c) \/ RemoveOld(c) \/ Finish(c)
LinkStep(c) == LinkOrigin(c) \/ Forward(c) \/ MoveMetadata(c) \/ CountUp(c) \/ NoEntry(c)
               \/ Link(c) \/ Setattr(c) \/ Retry(c)
FsckStep(c) == ScanDone(c) \/ DeleteDangling(c) \/ Restore(c) \/ RemoveTarget(c)
               \/ RestoreEntry(c) \/ DeleteRecovery(c)

Next == \E c \in Client :
    \/ \E n \in Name : BeginCreate(c, n) \/ BeginUnlink(c, n) \/ BeginSetattr(c, n) \/ ScanEntry(c, n)
    \/ \E n, x \in Name : BeginRename(c, n, x) \/ BeginLink(c, n, x) \/ ScanRecovery(c, <<n, x>>)
    \/ CreateStep(c) \/ UnlinkStep(c) \/ RenameStep(c) \/ LinkStep(c)
    \/ BeginFsck(c) \/ FsckStep(c) \/ Crash(c)

Spec == Init /\ [][Next]_vars

-----------------------------------------------------------------------------
(* Properties.                                                             *)

\* Type invariant: names hold a file's metadata or a forwarding key, the keys of
\* inodes the metadata of hard links.
TypeOK ==
    /\ \A k \in Key : md[k] \in Metadata /\ md[k].version <= versions
    /\ \A n \in Name : md[n].type # "T" /\ (md[n] = Missing <=> md[n].ino = 0)
    /\ \A i \in Inode : md[i] = Missing \/ (md[i].type = "T" /\ md[i].ino = i)
    /\ entries \subseteq Name /\ recovery \subseteq Name \X Name
    /\ inodes \in Inode \cup {0}
    /\ live \subseteq Inode
    /\ ops \in 0 .. MaxOps /\ crashes \in 0 .. MaxCrashes

NamesOf(i) == {n \in Name : md[n].ino = i}

\* Entries and metadata agree, and the link counts with the names.
Consistent ==
    /\ entries = {n \in Name : md[n] # Missing} /\ recovery = {}
    /\ \A n \in Name : ~Dangling(n)
    /\ \A i \in Inode :
          IF md[i] = Missing
          THEN \A n, x \in NamesOf(i) : md[n].type = "POSIX" /\ n = x
          ELSE /\ md[i].links = Cardinality(NamesOf(i)) /\ NamesOf(i) # {}
               /\ \A n \in NamesOf(i) : md[n].type = "S" /\ md[n].links = 1

\* Whenever no request is in progress, and fsck has run since a client died,
\* the directory lists exactly the files that have metadata, and every hard
\* link counts its names: no interleaving of requests and no crash between two
\* of their steps leaves more than fsck_directory repairs.
ConsistentWhenRepaired == Quiet /\ ~broken => Consistent

\* "Every invalid file system state can be detected by dangling directory
\* entries": what dead clients have left behind shows as an entry, or a
\* recovery entry, without metadata.
DanglingShows == Quiet /\ ~Consistent => recovery # {} \/ \E n \in Name : Dangling(n)

\* A file that was created and that no unlink and no rename onto it has removed
\* has a name that leads to it, whatever crashed and was repaired.
NoFileLost == Quiet => \A i \in live : \E n \in Name : lookup(n).md.ino = i

\* REQ_0: a request that other clients interfere with does not end the process.
NobodyDies == broken => crashes > 0
=============================================================================
