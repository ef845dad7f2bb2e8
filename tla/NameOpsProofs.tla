---------------------------- MODULE NameOpsProofs ---------------------------
(***************************************************************************)
(* Proofs about the names of one directory, for any number of clients,     *)
(* names, requests and crashes, without hard links.                        *)
(***************************************************************************)
EXTENDS NameOps, FiniteSetTheorems, TLAPS

\* What the theorems are about: the root directory, without hard links, and
\* without the overlapping requests that lose files.
WithoutLinks ==
    /\ Root = TRUE /\ "link" \notin Ops
    /\ "reused version" \in Avoid /\ "stale source" \in Avoid /\ "target in use" \in Avoid
    /\ "use before fsck" \in Avoid /\ "online fsck" \in Avoid

(***************************************************************************)
(* The inductive invariant.                                                *)
(***************************************************************************)

Label == {"idle", "entry", "create", "lookup", "delete", "unentry", "target", "newentry",
          "recovery", "oldentry", "rollback", "copy", "remove", "finish", "setattr", "again",
          "scan", "dangling", "restore", "untarget", "reentry", "unrecover"}

\* The labels of a request.
LabelOf(op, label) ==
    \/ op = "none" /\ label = "idle"
    \/ op = "create" /\ label \in {"entry", "create"}
    \/ op = "unlink" /\ label \in {"lookup", "delete", "unentry"}
    \/ op = "rename" /\ label \in {"target", "lookup", "delete", "unentry", "newentry", "recovery",
                                   "oldentry", "rollback", "copy", "remove", "finish"}
    \/ op = "setattr" /\ label \in {"setattr", "again"}
    \/ op = "fsck" /\ label \in {"scan", "dangling", "restore", "untarget", "reentry", "unrecover"}

\* The recovery entry of a rename exists, its new entry does not have metadata.
After == {"oldentry", "rollback", "copy", "remove", "finish"}
Entered == {"recovery", "oldentry", "rollback", "copy"}

Md == [type : {"none", "POSIX"}, ino : Nat, links : Nat, version : Nat]
Info == [key : Name \cup {NoName}, md : Md]
Request == [op : {"none", "create", "unlink", "rename", "setattr", "fsck"},
            from : Name \cup {NoName}, to : Name \cup {NoName}, name : Name \cup {NoName},
            source : Info, target : Info, removed : Info, link : {NoInfo}]

\* Metadata that was stored at some time.
Known(m) == /\ m.ino <= inodes /\ m.version <= versions
            /\ (m.type = "none" <=> m.ino = 0) /\ (m.ino = 0 <=> m = Missing)

Types ==
    /\ md \in [Key -> Md] /\ (\A i \in Inode : md[i] = Missing) /\ (\A n \in Name : Known(md[n]))
    /\ entries \subseteq Name /\ recovery \subseteq Name \X Name
    /\ versions \in Nat /\ inodes \in Nat
    /\ live \subseteq 1 .. inodes
    /\ broken \in BOOLEAN
    /\ ops \in 0 .. MaxOps /\ crashes \in 0 .. MaxCrashes

\* Inode numbers are for creates that have begun.
Creating == {c \in Client : req[c].op = "create"}
Counted ==
    /\ IsFiniteSet(Creating)
    /\ inodes + Cardinality(Creating) <= Cardinality(Files) + ops

\* What a client holds, by its request and where it is.
LocalOf(c) ==
    LET r == req[c] IN
    /\ LabelOf(r.op, pc[c])
    /\ Known(r.source.md) /\ Known(r.target.md)
    /\ r.op = "none" => r = NoRequest
    /\ r.op \in {"create", "unlink", "rename", "setattr"} => r.from \in Name
    /\ r.op \in {"create", "rename", "setattr"} => r.source.key = r.from
    /\ r.op \in {"rename", "setattr"} => r.source.md.ino # 0
    /\ r.op = "unlink" => r.name = r.from
    /\ r.op = "rename" => /\ r.to \in Name /\ r.from # r.to
                          /\ pc[c] # "target" => r.name = r.to /\ r.target.key = r.to
    /\ pc[c] = "delete" => r.removed.key = r.name
Local ==
    /\ pc \in [Client -> Label] /\ req \in [Client -> Request]
    /\ \A c \in Client : LocalOf(c)

Renaming(c) == req[c].op = "rename"

\* The request r leaves the two names alone that a rename from n to m is at:
\* m altogether, and n is not taken.
Clear(r, m, n) ==
    /\ ~Takes(r, n) /\ ~Takes(r, m) /\ ~Frees(r, m)
    /\ ~(r.op \in {"rename", "setattr"} /\ r.from = m)

Holds(c, p) == Renaming(c) /\ p = Recovery(c)

\* The client has stored the recovery entry p.
Owns(c, p) == Holds(c, p) /\ pc[c] \in After

\* Requests keep away from the names of each other's renames and of those that
\* have recovery entries.
Apart ==
    /\ \A x, y \in Client : x # y /\ Renaming(y) => Clear(req[x], req[y].to, req[y].from)
    /\ \A x \in Client, p \in recovery : Owns(x, p) \/ Clear(req[x], p[1], p[2])

RecoveryOwned ==
    /\ \A p \in recovery : broken \/ \E x \in Client : Owns(x, p)
    /\ \A x \in Client : Renaming(x) /\ pc[x] \in After => Recovery(x) \in recovery

\* A target has one recovery entry, and is not what another one moves.
RecoveryDistinct ==
    /\ \A p \in recovery : p[1] # p[2]
    /\ \A p, q \in recovery : p # q => p[1] # q[1] /\ p[1] # q[2]

\* What fsck has found, and done.
AtFsck(c) ==
    /\ pc[c] = "dangling" => req[c].from \in Name /\ md[req[c].from] = Missing
    /\ pc[c] \in {"restore", "untarget", "reentry", "unrecover"} =>
          /\ Recovery(c) \in recovery
          /\ req[c].target.key = req[c].to /\ req[c].source.key = req[c].from
    /\ pc[c] = "restore" => req[c].source.md = md[req[c].from]
    /\ pc[c] \in {"restore", "untarget"} => req[c].target.md = md[req[c].to]
    /\ pc[c] \in {"untarget", "reentry", "unrecover"} => md[req[c].from] # Missing
    /\ pc[c] \in {"reentry", "unrecover"} => md[req[c].to] = Missing
    /\ pc[c] = "unrecover" => req[c].from \in entries

\* fsck runs alone, after a client has died.
InFsckAlone ==
    \A c \in Client : req[c].op = "fsck" =>
        broken /\ AtFsck(c) /\ \A x \in Client \ {c} : pc[x] = "idle"

\* An unlink, or the part of a rename that is one, is between the two keys of n.
Unlinking(c, n) == pc[c] = "unentry" /\ req[c].name = n
\* A create is between the two keys of n.
Making(c, n) == pc[c] = "create" /\ req[c].from = n
Entering(c, n) == Renaming(c) /\ pc[c] \in Entered /\ req[c].to = n

\* The old entry n was deleted by a rename that has not deleted the recovery entry.
Moved(n) == \E p \in recovery :
    p[2] = n /\ \A z \in Client : Holds(z, p) => pc[z] \in {"copy", "remove"}

\* An entry and metadata come and go together, but for the requests that are
\* between the two.
EntryHasMetadata ==
    \A n \in entries : md[n] = Missing =>
        broken \/ \E c \in Client : Unlinking(c, n) \/ Making(c, n) \/ Entering(c, n)
MetadataHasEntry == \A n \in Name : md[n] # Missing /\ n \notin entries => Moved(n)

Between ==
    /\ \A c \in Client, n \in Name : Unlinking(c, n) =>
          md[n] = Missing /\ (n \in entries \/ Moved(n))
    /\ \A c \in Client, n \in Name : Making(c, n) => n \in entries /\ md[n] = Missing
    /\ \A c, x \in Client, n \in Name : c # x /\ (Unlinking(c, n) \/ Making(c, n)) =>
          ~Unlinking(x, n) /\ ~Making(x, n)

\* Where a rename is.
Renames ==
    \A c \in Client : Renaming(c) =>
        /\ pc[c] = "newentry" => md[req[c].to] = Missing
        /\ pc[c] \in Entered => req[c].to \in entries /\ md[req[c].to] = Missing
        /\ pc[c] \in {"copy", "remove"} => req[c].from \notin entries
        /\ pc[c] = "remove" => md[req[c].to].ino = req[c].source.md.ino
        /\ pc[c] = "finish" => md[req[c].to] = Missing \/ md[req[c].from] = Missing
        /\ md[req[c].from] # Missing => md[req[c].from].ino = req[c].source.md.ino

\* The metadata that a client holds is of the file that is there, if the version is.
Versions ==
    \A c \in Client : 
        req[c].op = "setattr" /\ SameVersion(req[c].from, req[c].source.md.version)
            => md[req[c].from].ino = req[c].source.md.ino

\* A rename that may still copy its file.
Claims(c) == Renaming(c) /\ (req[c].from \in entries \/ pc[c] = "copy")
Claimed ==
    /\ \A c \in Client, n \in Name : Claims(c) /\ n # req[c].from => md[n].ino # req[c].source.md.ino
    /\ \A c, x \in Client : Claims(c) /\ Claims(x) /\ req[c].source.md.ino = req[x].source.md.ino
          => req[c].from = req[x].from
    /\ \A c, x \in Client : c # x /\ Renaming(c) /\ Renaming(x) /\ pc[c] = "copy" /\ pc[x] = "copy"
          => req[c].from # req[x].from

Busy == ~broken \/ \E c \in Client : req[c].op \notin {"none", "fsck"}

\* The copies that renames have made: of the file that was moved, one at most,
\* and made without an entry of the old name.
CopyOfFile ==
    \A p \in recovery : md[p[1]] # Missing /\ md[p[2]] # Missing => md[p[1]].ino = md[p[2]].ino
OneCopy ==
    /\ \A p, q \in recovery : p # q /\ p[2] = q[2] => md[p[1]] = Missing \/ md[q[1]] = Missing
    /\ \A c \in Client, p \in recovery :
          Renaming(c) /\ pc[c] = "copy" /\ p[2] = req[c].from => md[p[1]] = Missing
CopyWithoutEntry ==
    Busy => \A p \in recovery : md[p[1]] # Missing => p[2] \notin entries

\* Two names of a file are those of a rename.
OneName ==
    \A n, x \in Name : n # x /\ md[n].ino = md[x].ino /\ md[n].ino # 0 =>
        <<n, x>> \in recovery \/ <<x, n>> \in recovery

LiveNamed == \A i \in live : \E n \in Name : md[n].ino = i

IInv ==
    /\ Types /\ Counted /\ Local
    /\ Apart /\ RecoveryOwned /\ RecoveryDistinct
    /\ InFsckAlone
    /\ EntryHasMetadata /\ MetadataHasEntry /\ Between
    /\ Renames /\ Versions /\ Claimed
    /\ CopyOfFile /\ OneCopy /\ CopyWithoutEntry /\ OneName /\ LiveNamed


-----------------------------------------------------------------------------
(* What the clients hold.                                                  *)

USE NamesAssumption, KeyAssumption, NoNameAssumption

LEMMA Bounds == MaxOps \in Nat /\ MaxCrashes \in Nat
  BY ModeAssumption, Zenon

\* Only client c moves.
Others(c) == \A x \in Client \ {c} : pc'[x] = pc[x] /\ req'[x] = req[x]

\* The request of c is over.
Over(c) == pc'[c] = "idle" /\ req'[c] = NoRequest

\* The request of c goes on.
KeptNames(c) == /\ req'[c].op = req[c].op /\ req'[c].from = req[c].from
                /\ req'[c].to = req[c].to
Kept(c) == KeptNames(c) /\ req'[c].source = req[c].source

Later == /\ inodes' \in Nat /\ versions' \in Nat
         /\ inodes <= inodes' /\ versions <= versions'

\* Without hard links nothing is stored at the key of an inode, and a lookup is
\* one Get.
LEMMA LookupIsRaw ==
  ASSUME Types, NEW n \in Name
  PROVE  /\ lookup(n) = Raw(n) /\ Raw(n).key = n /\ Raw(n).md = md[n]
         /\ Raw(n) \in Info /\ md[n] \in Md /\ Known(md[n])
  BY DEF Types, lookup, Raw, Info, Md, Key

LEMMA NothingHeld ==
  /\ Missing \in Md /\ Missing.ino = 0 /\ Missing.version = 0 /\ Missing.type = "none"
  /\ NoInfo \in Info /\ NoInfo.md = Missing
  /\ NoRequest \in Request /\ NoRequest.op = "none" /\ NoRequest.to = NoName
  /\ NoRequest.source = NoInfo /\ NoRequest.target = NoInfo
  BY DEF Missing, Md, NoInfo, Info, NoRequest, Request

\* Metadata that was stored stays known.
LEMMA KnownStays ==
  ASSUME Types, Later, NEW m \in Md, Known(m)
  PROVE  /\ m.ino <= inodes' /\ m.version <= versions'
         /\ (m.type = "none" <=> m.ino = 0) /\ (m.ino = 0 <=> m = Missing)
  BY DEF Known, Md, Types, Later

\* What a client that does not move holds.
LEMMA LocalStays ==
  ASSUME Types, Local, Later, NEW x \in Client, pc'[x] = pc[x], req'[x] = req[x]
  PROVE  LocalOf(x)'
  <1>1. req[x].source.md \in Md /\ req[x].target.md \in Md
    BY DEF Local, Request, Info
  <1>2. Known(req[x].source.md)' /\ Known(req[x].target.md)'
    BY <1>1, KnownStays DEF Local, LocalOf, Known
  <1> QED
    BY <1>2 DEF Local, LocalOf

LEMMA ClientMoves ==
  ASSUME Types, Local, Later, NEW c \in Client, NEW r \in Request, NEW label \in Label,
         Hold(c, r), Goto(c, label), LocalOf(c)'
  PROVE  Local' /\ pc'[c] = label /\ req'[c] = r /\ Others(c)
  <1>1. /\ pc' \in [Client -> Label] /\ req' \in [Client -> Request]
        /\ pc'[c] = label /\ req'[c] = r /\ Others(c)
    BY DEF Local, Hold, Goto, Others
  <1> QED
    BY <1>1, LocalStays DEF Local, Others

LEMMA ClientGoes ==
  ASSUME Types, Local, Later, NEW c \in Client, NEW label \in Label,
         req' = req, Goto(c, label), LabelOf(req[c].op, label),
         label = "delete" => req[c].removed.key = req[c].name,
         req[c].op = "rename" => label # "target" /\ pc[c] # "target"
  PROVE  Local' /\ pc'[c] = label /\ req'[c] = req[c] /\ Others(c) /\ Kept(c)
  <1>1. /\ pc' \in [Client -> Label] /\ req' \in [Client -> Request]
        /\ pc'[c] = label /\ req'[c] = req[c] /\ Others(c)
    BY DEF Local, Goto, Others
  <1>2. Known(req[c].source.md)' /\ Known(req[c].target.md)'
    <2>1. req[c].source.md \in Md /\ req[c].target.md \in Md
      BY DEF Local, Request, Info
    <2> QED
      BY <2>1, KnownStays DEF Local, LocalOf, Known
  <1>3. LocalOf(c)'
    BY <1>1, <1>2 DEF Local, LocalOf
  <1> QED
    BY <1>1, <1>3, LocalStays DEF Local, Others, Kept, KeptNames

LEMMA ClientLeaves ==
  ASSUME Types, Local, Later, NEW c \in Client, Leave(c)
  PROVE  Local' /\ Over(c) /\ Others(c)
  <1>1. NoRequest \in Request
    BY NothingHeld
  <1>2. /\ pc' \in [Client -> Label] /\ req' \in [Client -> Request]
        /\ Over(c) /\ Others(c)
    BY <1>1 DEF Local, Leave, Hold, Goto, Others, Over, Label
  <1>3. LocalOf(c)'
    BY <1>2, NothingHeld DEF LocalOf, LabelOf, Over, Known, Later
  <1> QED
    BY <1>2, <1>3, LocalStays DEF Local, Others

\* Where the set of creates does not grow and no inode number is taken.
LEMMA CountedKept ==
  ASSUME Counted, Types, NEW c \in Client, Others(c),
         req'[c].op = "create" => req[c].op = "create",
         inodes' = inodes, ops' \in Nat, ops <= ops'
  PROVE  Counted'
  <1>1. IsFiniteSet(Creating) /\ Creating' \in SUBSET Creating
    BY DEF Counted, Creating, Others
  <1>2. /\ IsFiniteSet(Creating') /\ Cardinality(Creating') <= Cardinality(Creating)
        /\ Cardinality(Creating) \in Nat /\ Cardinality(Creating') \in Nat
    <2>1. IsFiniteSet(Creating') /\ Cardinality(Creating') <= Cardinality(Creating)
      BY <1>1, FS_Subset
    <2>2. Cardinality(Creating) \in Nat /\ Cardinality(Creating') \in Nat
      BY <1>1, <2>1, FS_CardinalityType
    <2> QED BY <2>1, <2>2
  <1>3. Cardinality(Files) \in Nat
    BY FS_Subset, FS_CardinalityType
  <1> QED
    BY <1>2, <1>3, Bounds DEF Counted, Types

-----------------------------------------------------------------------------
(* The names that requests and recovery entries are about.                 *)

\* A request that goes on has the names it had.
LEMMA NamesKept ==
  ASSUME Apart, RecoveryOwned, NEW c \in Client, Others(c), KeptNames(c),
         pc'[c] \in After <=> pc[c] \in After, recovery' = recovery, broken => broken'
  PROVE  Apart' /\ RecoveryOwned'
  <1>1. \A x \in Client : /\ req'[x].op = req[x].op /\ req'[x].from = req[x].from
                          /\ req'[x].to = req[x].to /\ (pc'[x] \in After <=> pc[x] \in After)
    BY DEF Others, KeptNames
  <1>2. \A x \in Client : /\ Renaming(x)' <=> Renaming(x)
                          /\ \A m, n : Clear(req'[x], m, n) <=> Clear(req[x], m, n)
                          /\ \A p : Owns(x, p)' <=> Owns(x, p)
    BY <1>1 DEF Renaming, Clear, Takes, Frees, Owns, Holds, Recovery
  <1>3. Apart'
    BY <1>1, <1>2 DEF Apart
  <1>4. RecoveryOwned'
    BY <1>1, <1>2 DEF RecoveryOwned, Recovery
  <1> QED
    BY <1>3, <1>4

LEMMA NothingIsClear ==
  ASSUME NEW r, r.op \in {"none", "fsck"}, NEW m, NEW n
  PROVE  Clear(r, m, n)
  BY DEF Clear, Takes, Frees

\* A request that is over has none.
LEMMA NamesLeft ==
  ASSUME Apart, RecoveryOwned, NEW c \in Client, Others(c), Over(c),
         recovery' = recovery, broken => broken', broken' \/ pc[c] \notin After
  PROVE  Apart' /\ RecoveryOwned'
  <1>1. req'[c].op = "none"
    BY NothingHeld DEF Over
  <1>2. \A m, n : Clear(req'[c], m, n)
    BY <1>1, NothingIsClear
  <1>3. \A x \in Client : x # c => \A p : Owns(x, p)' <=> Owns(x, p)
    BY DEF Owns, Holds, Renaming, Recovery, Others
  <1>4. Apart'
    BY <1>1, <1>2, <1>3 DEF Apart, Others, Renaming
  <1>5. RecoveryOwned'
    <2>1. ASSUME NEW p \in recovery, ~broken' PROVE \E x \in Client : Owns(x, p)'
      <3>1. PICK x \in Client : Owns(x, p)
        BY <2>1 DEF RecoveryOwned
      <3>2. x # c
        BY <2>1, <3>1 DEF Owns
      <3> QED
        BY <3>1, <3>2, <1>3
    <2>2. ASSUME NEW x \in Client, Renaming(x)', pc'[x] \in After PROVE Recovery(x)' \in recovery
      <3>1. x # c
        BY <2>2, <1>1 DEF Renaming
      <3> QED
        BY <2>2, <3>1 DEF RecoveryOwned, Others, Renaming, Recovery
    <2> QED
      BY <2>1, <2>2 DEF RecoveryOwned
  <1> QED
    BY <1>4, <1>5

\* Nobody but fsck is at work.
OnlyFsck == \A x \in Client : req[x].op \in {"none", "fsck"}

\* What holds of the keys when nobody but fsck is at work.
FsckData ==
    /\ \A n \in Name : md[n] # Missing /\ n \notin entries => \E p \in recovery : p[2] = n
    /\ \A p, q \in recovery : p # q /\ p[2] = q[2] => md[p[1]] = Missing \/ md[q[1]] = Missing
    /\ RecoveryDistinct /\ CopyOfFile /\ OneName /\ LiveNamed

OnlyData ==
    /\ Apart /\ Between /\ Renames /\ Versions /\ Claimed
    /\ broken => RecoveryOwned /\ EntryHasMetadata /\ CopyWithoutEntry
    /\ MetadataHasEntry /\ OneCopy /\ RecoveryDistinct /\ CopyOfFile /\ OneName /\ LiveNamed
          <=> FsckData

\* The other parts of the invariant say nothing then.
LEMMA FsckHasNoNames == OnlyFsck /\ Local => OnlyData
  <1> SUFFICES ASSUME OnlyFsck, Local PROVE OnlyData
    OBVIOUS
  <1>1. \A x \in Client : /\ ~Renaming(x) /\ req[x].op # "setattr" /\ req[x].op # "create"
                          /\ pc[x] # "unentry" /\ pc[x] # "create"
    BY DEF OnlyFsck, Local, LocalOf, LabelOf, Renaming
  <1>2. Apart
    BY <1>1, NothingIsClear DEF OnlyFsck, Apart
  <1>3. Between
    BY <1>1 DEF Between, Unlinking, Making
  <1>4. Renames /\ Versions /\ Claimed
    BY <1>1 DEF Renames, Versions, Claimed, Claims
  <1>5. broken => RecoveryOwned /\ EntryHasMetadata /\ CopyWithoutEntry
    BY <1>1 DEF OnlyFsck, CopyWithoutEntry, Busy, RecoveryOwned, EntryHasMetadata
  <1>6. OneCopy <=> \A p, q \in recovery : p # q /\ p[2] = q[2] => md[p[1]] = Missing \/ md[q[1]] = Missing
    BY <1>1 DEF OneCopy
  <1>7. \A n : Moved(n) <=> \E p \in recovery : p[2] = n
    BY <1>1 DEF Moved, Holds
  <1>8. MetadataHasEntry <=>
          \A n \in Name : md[n] # Missing /\ n \notin entries => \E p \in recovery : p[2] = n
    BY <1>7 DEF MetadataHasEntry
  <1> QED
    BY <1>2, <1>3, <1>4, <1>5, <1>6, <1>8 DEF FsckData, OnlyData

\* While a request of another kind is at work fsck is not.
LEMMA NoFsck ==
  ASSUME Local, InFsckAlone, NEW c \in Client, pc[c] # "idle", req[c].op # "fsck",
         Others(c), req'[c].op # "fsck"
  PROVE  InFsckAlone' /\ \A x \in Client : req[x].op # "fsck"
  <1>1. \A x \in Client : req[x].op # "fsck"
    BY DEF InFsckAlone
  <1>2. \A x \in Client : req'[x].op # "fsck"
    BY <1>1 DEF Others
  <1> QED
    BY <1>1, <1>2 DEF InFsckAlone

-----------------------------------------------------------------------------
(* Steps that change no key.                                               *)

SameKeys == md' = md /\ entries' = entries /\ recovery' = recovery /\ live' = live

\* Labels at which an entry, metadata or a recovery entry is without its counterpart.
Bare == {"unentry", "create", "recovery"} \cup After

\* A client that returns or dies.
LEMMA LeaveKeeps ==
  ASSUME IInv, NEW c \in Client, pc[c] # "idle", Others(c), Over(c), SameKeys,
         Types', Counted', Local', broken => broken', broken' \/ pc[c] \notin Bare
  PROVE  IInv'
  <1> USE DEF SameKeys
  <1>1. /\ Types /\ Local /\ Apart /\ RecoveryOwned /\ RecoveryDistinct /\ InFsckAlone
        /\ EntryHasMetadata /\ MetadataHasEntry /\ Between /\ Renames /\ Versions /\ Claimed
        /\ CopyOfFile /\ OneCopy /\ CopyWithoutEntry /\ OneName /\ LiveNamed
    BY DEF IInv
  <1>2. req'[c].op = "none" /\ pc'[c] = "idle"
    BY NothingHeld DEF Over
  <1>3. Apart' /\ RecoveryOwned' /\ RecoveryDistinct'
    <2>1. broken' \/ pc[c] \notin After
      BY DEF Bare
    <2> QED
      BY <1>1, <2>1, NamesLeft DEF RecoveryDistinct
  <1>4. InFsckAlone'
    BY <1>1, <1>2 DEF InFsckAlone, Others, Recovery
  <1>5. \A n : Moved(n) => Moved(n)'
    BY <1>2 DEF Moved, Holds, Renaming, Others, Recovery
  <1>6. EntryHasMetadata'
    BY <1>1, <1>2 DEF EntryHasMetadata, Unlinking, Making, Entering, Renaming, Others, Bare, After, Entered
  <1>7. MetadataHasEntry'
    BY <1>1, <1>5 DEF MetadataHasEntry
  <1>8. Between'
    BY <1>1, <1>2, <1>5 DEF Between, Unlinking, Making, Others
  <1>9. Renames' /\ Versions'
    BY <1>1, <1>2 DEF Renames, Versions, Renaming, SameVersion, Others
  <1>10. Claimed'
    BY <1>1, <1>2 DEF Claimed, Claims, Renaming, Others
  <1>11. OneCopy' /\ CopyOfFile' /\ OneName' /\ LiveNamed'
    BY <1>1, <1>2 DEF OneCopy, CopyOfFile, OneName, LiveNamed, Renaming, Others
  <1>12. CopyWithoutEntry'
    BY <1>1, <1>2 DEF CopyWithoutEntry, Busy, Others
  <1> QED
    BY <1>3, <1>4, <1>6, <1>7, <1>8, <1>9, <1>10, <1>11, <1>12 DEF IInv

\* A client that goes on to a step that nothing has prepared.
LEMMA GoKeeps ==
  ASSUME IInv, NEW c \in Client, req[c].op # "fsck", pc[c] # "idle",
         Others(c), KeptNames(c), SameKeys, Types', Counted', Local', broken' = broken,
         \/ req'[c].source = req[c].source
         \/ req[c].op = "setattr" /\ req'[c].source.md = md[req[c].from],
         \/ pc[c] \notin Bare /\ pc'[c] \in {"lookup", "delete", "newentry", "setattr", "again"}
         \/ pc[c] = "oldentry" /\ pc'[c] = "rollback",
         pc'[c] = "newentry" => md[req[c].to] = Missing
  PROVE  IInv'
  <1> USE DEF SameKeys
  <1>1. /\ Types /\ Local /\ Apart /\ RecoveryOwned /\ RecoveryDistinct /\ InFsckAlone
        /\ EntryHasMetadata /\ MetadataHasEntry /\ Between /\ Renames /\ Versions /\ Claimed
        /\ CopyOfFile /\ OneCopy /\ CopyWithoutEntry /\ OneName /\ LiveNamed
    BY DEF IInv
  <1>2. \A x \in Client : /\ req'[x].op = req[x].op /\ req'[x].from = req[x].from
                          /\ req'[x].to = req[x].to
                          /\ req[x].op = "rename" => req'[x].source = req[x].source
    BY DEF Others, KeptNames
  <1>3. \A x \in Client : /\ Renaming(x)' <=> Renaming(x)
                          /\ \A p : Holds(x, p)' <=> Holds(x, p)
    BY <1>2 DEF Renaming, Holds, Recovery
  <1>4. /\ pc'[c] \notin {"unentry", "create", "copy", "remove", "finish"}
        /\ pc[c] \notin {"unentry", "create", "copy", "remove"}
        /\ pc'[c] \in Entered <=> pc[c] \in Entered
        /\ pc'[c] \in After <=> pc[c] \in After
    BY DEF Entered, Bare, After
  <1>5. Apart' /\ RecoveryOwned' /\ RecoveryDistinct'
    BY <1>1, <1>4, NamesKept DEF RecoveryDistinct
  <1>6. InFsckAlone'
    <2>1. req'[c].op # "fsck"
      BY <1>2
    <2> QED
      BY <1>1, <2>1, NoFsck
  <1>7. \A n : Moved(n) => Moved(n)'
    BY <1>3, <1>4 DEF Moved, Others
  <1>8. EntryHasMetadata'
    <2>1. \A x \in Client, n \in Name :
             Unlinking(x, n) \/ Making(x, n) \/ Entering(x, n)
                 => (Unlinking(x, n) \/ Making(x, n) \/ Entering(x, n))'
      BY <1>2, <1>3, <1>4 DEF Unlinking, Making, Entering, Others
    <2> QED
      BY <1>1, <2>1 DEF EntryHasMetadata, Types
  <1>9. MetadataHasEntry'
    BY <1>1, <1>7 DEF MetadataHasEntry
  <1>10. Between'
    BY <1>1, <1>4, <1>7 DEF Between, Unlinking, Making, Others
  <1>11. Renames'
    BY <1>1, <1>2, <1>3, <1>4 DEF Renames, Others, Renaming
  <1>12. Versions' /\ Claimed'
    <2>1. Versions'
      BY <1>1, <1>2 DEF Versions, SameVersion, Others
    <2>2. \A x \in Client : Claims(x)' <=> Claims(x)
      BY <1>2, <1>3, <1>4 DEF Claims, Others
    <2>3. Claimed'
      BY <1>1, <1>2, <1>3, <1>4, <2>2 DEF Claimed, Others, Claims, Renaming
    <2> QED BY <2>1, <2>3
  <1>13. OneCopy' /\ CopyOfFile' /\ OneName' /\ LiveNamed'
    BY <1>1, <1>2, <1>3, <1>4 DEF OneCopy, CopyOfFile, OneName, LiveNamed, Others
  <1>14. CopyWithoutEntry'
    BY <1>1, <1>2 DEF CopyWithoutEntry, Busy
  <1> QED
    BY <1>5, <1>6, <1>8, <1>9, <1>10, <1>11, <1>12, <1>13, <1>14 DEF IInv

-----------------------------------------------------------------------------
(* A request begins.                                                       *)

LEMMA NothingAvoided ==
  ASSUME WithoutLinks, NEW c \in Client, NEW op, NEW from, NEW to, Overlap(c, op, from, to)
  PROVE  /\ ~VersionReused(c, op, from, to) /\ ~StaleSource(c, op, from, to)
         /\ ~TargetInUse(c, op, from, to) /\ ~broken
  BY Zenon DEF WithoutLinks, Overlap, Avoided

\* What a request that begins holds.
LEMMA BeginHolds ==
  ASSUME IInv, NEW c \in Client, NEW op \in {"create", "unlink", "rename", "setattr"},
         NEW from \in Name, NEW to \in Name \cup {NoName}, NEW label \in Label, LabelOf(op, label),
         op # "unlink" \/ label = "lookup",
         op = "rename" => to \in Name /\ from # to /\ label = "target",
         op \in {"rename", "setattr"} => md[from].ino # 0,
         Begin(c, op, from, to, label)
  PROVE  /\ Local' /\ Types' /\ Others(c) /\ SameKeys /\ pc[c] = "idle" /\ req[c].op = "none"
         /\ pc'[c] = label /\ req'[c].op = op /\ req'[c].from = from /\ req'[c].to = to
         /\ req'[c].source.md = md[from] /\ broken' = broken /\ Overlap(c, op, from, to)
         /\ inodes' = inodes /\ ops' = ops + 1
  <1>1. Types /\ Local
    BY DEF IInv
  <1>2. /\ lookup(from) \in Info /\ lookup(from).key = from /\ lookup(from).md = md[from]
        /\ Known(md[from])
    BY <1>1, LookupIsRaw
  <1> DEFINE r == [NoRequest EXCEPT !.op = op, !.from = from, !.to = to, !.name = from,
                                    !.source = lookup(from)]
  <1>3. /\ r \in Request /\ r.op = op /\ r.from = from /\ r.to = to /\ r.name = from
        /\ r.source = lookup(from) /\ r.target.md = Missing
    BY <1>2, NothingHeld DEF NoRequest, Request, NoInfo
  <1>4. /\ Hold(c, r) /\ Goto(c, label) /\ SameKeys /\ broken' = broken /\ pc[c] = "idle"
        /\ Overlap(c, op, from, to) /\ ops' = ops + 1 /\ ops < MaxOps
        /\ inodes' = inodes /\ versions' = versions /\ crashes' = crashes
    BY DEF Begin, SameKeys, keys
  <1>5. Later /\ Types'
    <2>1. Later
      BY <1>1, <1>4 DEF Later, Types
    <2>2. ops' \in 0 .. MaxOps
      BY <1>1, <1>4, Bounds DEF Types
    <2> QED
      BY <1>1, <1>4, <2>1, <2>2 DEF Types, SameKeys, Known
  <1> HIDE DEF r
  <1>6. req'[c] = r /\ pc'[c] = label
    BY <1>1, <1>4 DEF Hold, Goto, Local
  <1>7. LocalOf(c)'
    <2>1. Known(req[c].source.md)' /\ Known(req[c].target.md)'
      BY <1>2, <1>3, <1>4, <1>6, NothingHeld, <1>1 DEF Known, Types
    <2> QED
      BY <1>2, <1>3, <1>6, <2>1 DEF LocalOf, LabelOf
  <1>8. Local' /\ Others(c)
    BY <1>1, <1>3, <1>4, <1>5, <1>7, ClientMoves
  <1>9. req[c].op = "none"
    BY <1>1, <1>4 DEF Local, LocalOf, LabelOf
  <1> QED
    BY <1>2, <1>3, <1>4, <1>5, <1>6, <1>8, <1>9

\* Its names are clear of the renames that are in progress, and the other way
\* round.
LEMMA BeginApart ==
  ASSUME Local, Apart, RecoveryOwned, WithoutLinks,
         NEW c \in Client, NEW op \in {"create", "unlink", "rename", "setattr"},
         NEW from \in Name, NEW to, Overlap(c, op, from, to),
         Others(c), req[c].op = "none",
         req'[c].op = op, req'[c].from = from, req'[c].to = to,
         pc'[c] \notin After, recovery' = recovery, broken' = broken
  PROVE  Apart' /\ RecoveryOwned' /\ ~broken
  <1>1. /\ ~VersionReused(c, op, from, to) /\ ~StaleSource(c, op, from, to)
        /\ ~TargetInUse(c, op, from, to) /\ ~broken
    BY NothingAvoided
  <1>2. \A y \in Client : y # c /\ Renaming(y) => Clear(req'[c], req[y].to, req[y].from)
    <2> SUFFICES ASSUME NEW y \in Client, y # c, Renaming(y)
                 PROVE  Clear(req'[c], req[y].to, req[y].from)
      OBVIOUS
    <2>1. ~Takes(req'[c], req[y].from)
      BY <1>1 DEF StaleSource, Elsewhere, Renaming, Takes, Local, LocalOf
    <2>2. ~Takes(req'[c], req[y].to) /\ ~Frees(req'[c], req[y].to)
      BY <1>1 DEF TargetInUse, Renaming, Takes, Frees
    <2>3. ~(op = "rename" /\ from = req[y].to)
      BY <1>1 DEF StaleSource, Renaming, Takes
    <2>4. ~(op = "setattr" /\ from = req[y].to)
      BY <1>1 DEF VersionReused, Elsewhere, Renaming
    <2> QED
      BY <2>1, <2>2, <2>3, <2>4 DEF Clear
  <1>3. \A x \in Client : x # c /\ op = "rename" => Clear(req[x], to, from)
    <2> SUFFICES ASSUME NEW x \in Client, x # c, op = "rename"
                 PROVE  Clear(req[x], to, from)
      OBVIOUS
    <2>1. ~Takes(req[x], from)
      BY <1>1 DEF StaleSource
    <2>2. ~Takes(req[x], to) /\ ~Frees(req[x], to)
      BY <1>1 DEF TargetInUse
    <2>3. ~(req[x].op = "rename" /\ req[x].from = to)
      BY <1>1 DEF StaleSource, Elsewhere, Takes, Local, LocalOf
    <2>4. ~(req[x].op = "setattr" /\ req[x].from = to)
      BY <1>1 DEF VersionReused, Elsewhere
    <2> QED
      BY <2>1, <2>2, <2>3, <2>4 DEF Clear
  <1>4. \A x \in Client : x # c => \A p : Owns(x, p)' <=> Owns(x, p)
    BY DEF Owns, Holds, Renaming, Recovery, Others
  <1>5. \A p \in recovery : Clear(req'[c], p[1], p[2]) /\ \E y \in Client : y # c /\ Owns(y, p)
    <2> SUFFICES ASSUME NEW p \in recovery
                 PROVE  Clear(req'[c], p[1], p[2]) /\ \E y \in Client : y # c /\ Owns(y, p)
      OBVIOUS
    <2>1. PICK y \in Client : Owns(y, p)
      BY <1>1 DEF RecoveryOwned
    <2>2. y # c /\ Renaming(y) /\ p[1] = req[y].to /\ p[2] = req[y].from
      BY <2>1 DEF Owns, Holds, Renaming, Recovery
    <2> QED
      BY <1>2, <2>1, <2>2
  <1>6. Apart'
    BY <1>2, <1>3, <1>4, <1>5 DEF Apart, Others, Renaming
  <1>7. RecoveryOwned'
    BY <1>4, <1>5 DEF RecoveryOwned, Others, Renaming, Recovery
  <1> QED
    BY <1>1, <1>6, <1>7

LEMMA BeginCounted ==
  ASSUME Types, Counted, NEW c \in Client, Others(c), req[c].op = "none",
         inodes' = inodes, ops' = ops + 1
  PROVE  Counted'
  <1>1. Creating' \subseteq Creating \cup {c} /\ IsFiniteSet(Creating) /\ c \notin Creating
    BY DEF Creating, Counted, Others
  <1>2. /\ IsFiniteSet(Creating \cup {c})
        /\ Cardinality(Creating \cup {c}) = Cardinality(Creating) + 1
    BY <1>1, FS_AddElement
  <1>3. IsFiniteSet(Creating') /\ Cardinality(Creating') <= Cardinality(Creating) + 1
    <2>1. Creating' \in SUBSET (Creating \cup {c})
      BY <1>1
    <2> QED
      BY <1>2, <2>1, FS_Subset
  <1>4. Cardinality(Creating) \in Nat /\ Cardinality(Creating') \in Nat /\ Cardinality(Files) \in Nat
    BY <1>1, <1>3, FS_Subset, FS_CardinalityType
  <1> QED
    BY <1>3, <1>4, Bounds DEF Counted, Types

\* A request that begins.
LEMMA BeginKeeps ==
  ASSUME IInv, WithoutLinks,
         NEW c \in Client, NEW op \in {"create", "unlink", "rename", "setattr"},
         NEW from \in Name, NEW to \in Name \cup {NoName}, NEW label \in Label,
         \/ op = "create" /\ label = "entry"
         \/ op = "unlink" /\ label = "lookup"
         \/ op = "setattr" /\ label = "setattr" /\ md[from].ino # 0
         \/ op = "rename" /\ label = "target" /\ md[from].ino # 0 /\ to \in Name /\ from # to,
         Begin(c, op, from, to, label)
  PROVE  IInv'
  <1>1. /\ Types /\ Counted /\ Local /\ Apart /\ RecoveryOwned /\ RecoveryDistinct /\ InFsckAlone
        /\ EntryHasMetadata /\ MetadataHasEntry /\ Between /\ Renames /\ Versions /\ Claimed
        /\ CopyOfFile /\ OneCopy /\ CopyWithoutEntry /\ OneName /\ LiveNamed
    BY DEF IInv
  <1>2. LabelOf(op, label) /\ label \notin Bare \cup {"rollback", "copy", "remove", "finish", "newentry", "recovery", "oldentry"}
    BY DEF LabelOf, Bare, After
  <1>3. /\ Local' /\ Types' /\ Others(c) /\ SameKeys /\ pc[c] = "idle" /\ req[c].op = "none"
        /\ pc'[c] = label /\ req'[c].op = op /\ req'[c].from = from /\ req'[c].to = to
        /\ req'[c].source.md = md[from] /\ broken' = broken /\ Overlap(c, op, from, to)
        /\ inodes' = inodes /\ ops' = ops + 1
    BY <1>2, BeginHolds
  <1> USE DEF SameKeys
  <1>4. Counted'
    BY <1>1, <1>3, BeginCounted
  <1>5. Apart' /\ RecoveryOwned' /\ ~broken /\ RecoveryDistinct'
    <2>1. pc'[c] \notin After
      BY <1>2, <1>3 DEF Bare
    <2>2. Apart' /\ RecoveryOwned' /\ ~broken
      BY <1>1, <1>3, <2>1, BeginApart
    <2> QED
      BY <1>1, <1>3, <2>2 DEF RecoveryDistinct
  <1>6. InFsckAlone'
    <2>1. \A x \in Client : req'[x].op # "fsck"
      BY <1>1, <1>3, <1>5 DEF InFsckAlone, Others
    <2> QED
      BY <2>1 DEF InFsckAlone
  <1>7. \A n : Moved(n) => Moved(n)'
    <2>1. \A p \in recovery : ~Holds(c, p)'
      <3> SUFFICES ASSUME NEW p \in recovery, Holds(c, p)' PROVE FALSE
        OBVIOUS
      <3>1. ~Owns(c, p)' /\ p[1] = req'[c].to /\ req'[c].op = "rename"
        BY <1>2, <1>3 DEF Owns, Bare, Holds, Renaming, Recovery
      <3>2. Clear(req'[c], p[1], p[2])
        BY <1>3, <1>5, <3>1 DEF Apart
      <3> QED
        BY <3>1, <3>2 DEF Clear, Takes
    <2> QED
      BY <1>3, <2>1 DEF Moved, Holds, Renaming, Others, Recovery
  <1>8. EntryHasMetadata'
    <2>1. \A x \in Client, n \in Name : Unlinking(x, n) \/ Making(x, n) \/ Entering(x, n)
                 => (Unlinking(x, n) \/ Making(x, n) \/ Entering(x, n))'
      BY <1>3 DEF Unlinking, Making, Entering, Renaming, Others, Entered
    <2> QED
      BY <1>1, <1>3, <2>1 DEF EntryHasMetadata, Types
  <1>9. MetadataHasEntry'
    BY <1>1, <1>3, <1>7 DEF MetadataHasEntry
  <1>10. Between'
    <2>1. \A n \in Name : ~Unlinking(c, n)' /\ ~Making(c, n)'
      BY <1>2, <1>3 DEF Unlinking, Making, Bare
    <2>2. \A x \in Client, n \in Name : x # c => /\ Unlinking(x, n)' <=> Unlinking(x, n)
                                                 /\ Making(x, n)' <=> Making(x, n)
      BY <1>3 DEF Unlinking, Making, Others
    <2> QED
      BY <1>1, <1>3, <1>7, <2>1, <2>2 DEF Between
  <1>11. Renames'
    <2>1. ASSUME Renaming(c)' PROVE /\ label = "target" /\ label \notin Entered
      BY <1>2, <1>3, <2>1 DEF Renaming, Entered
    <2> QED
      BY <1>1, <1>3, <2>1 DEF Renames, Renaming, Others
  <1>12. Versions'
    BY <1>1, <1>3 DEF Versions, SameVersion, Others
  <1>13. ASSUME op = "rename", from \in entries, NEW n \in Name, n # from PROVE md[n].ino # md[from].ino
    <2> SUFFICES ASSUME md[n].ino = md[from].ino PROVE FALSE
      OBVIOUS
    <2>1. md[from].ino # 0
      BY <1>13
    <2>2. md[n] # Missing
      BY <2>1, NothingHeld
    <2>3. CASE <<n, from>> \in recovery
      BY <1>1, <1>5, <1>13, <2>2, <2>3 DEF CopyWithoutEntry, Busy
    <2>4. CASE <<from, n>> \in recovery
      <3>1. Clear(req'[c], from, n) \/ Owns(c, <<from, n>>)'
        BY <1>3, <1>5, <2>4 DEF Apart
      <3>2. ~Owns(c, <<from, n>>)'
        BY <1>2, <1>3 DEF Owns, Bare
      <3> QED
        BY <1>3, <1>13, <3>1, <3>2 DEF Clear
    <2> QED
      BY <1>1, <1>13, <2>1, <2>3, <2>4 DEF OneName
  <1>14. Claimed'
    <2>1. \A x \in Client : x # c => (Claims(x)' <=> Claims(x))
      BY <1>3 DEF Claims, Renaming, Others
    <2>2. Claims(c)' => op = "rename" /\ from \in entries
      BY <1>2, <1>3 DEF Claims, Renaming
    <2>3. ASSUME NEW x \in Client, NEW n \in Name, Claims(x)', n # req'[x].from
          PROVE  md'[n].ino # req'[x].source.md.ino
      <3>1. CASE x = c
        BY <1>3, <1>13, <2>2, <2>3, <3>1
      <3>2. CASE x # c
        BY <1>1, <1>3, <2>1, <2>3, <3>2 DEF Claimed, Others
      <3> QED BY <3>1, <3>2
    <2>4. ASSUME NEW x \in Client, Claims(x)', Claims(c)', req'[x].source.md.ino = md[from].ino
          PROVE  req'[x].from = from
      BY <1>3, <2>3, <2>4
    <2>5. ASSUME NEW x \in Client, NEW y \in Client, Claims(x)', Claims(y)',
                 req'[x].source.md.ino = req'[y].source.md.ino
          PROVE  req'[x].from = req'[y].from
      BY <1>1, <1>3, <2>1, <2>4, <2>5 DEF Claimed, Others
    <2>6. ASSUME NEW x \in Client, NEW y \in Client, x # y, Renaming(x)', Renaming(y)',
                 pc'[x] = "copy", pc'[y] = "copy"
          PROVE  req'[x].from # req'[y].from
      BY <1>1, <1>2, <1>3, <2>6 DEF Claimed, Others, Renaming
    <2> QED
      BY <2>3, <2>5, <2>6 DEF Claimed
  <1>15. OneCopy'
    BY <1>1, <1>2, <1>3 DEF OneCopy, Renaming, Others
  <1>16. CopyOfFile' /\ OneName' /\ LiveNamed'
    BY <1>1, <1>3 DEF CopyOfFile, OneName, LiveNamed
  <1>17. CopyWithoutEntry'
    BY <1>1, <1>3, <1>5 DEF CopyWithoutEntry, Busy
  <1> QED
    BY <1>3, <1>4, <1>5, <1>6, <1>8, <1>9, <1>10, <1>11, <1>12, <1>14, <1>15, <1>16, <1>17 DEF IInv

-----------------------------------------------------------------------------
(* Whose names a request may meet.                                         *)

LEMMA CreateApart ==
  ASSUME Apart, NEW c \in Client, req[c].op = "create"
  PROVE  /\ \A p \in recovery : p[1] # req[c].from /\ p[2] # req[c].from
         /\ \A y \in Client : Renaming(y) => req[y].from # req[c].from /\ req[y].to # req[c].from
  BY DEF Apart, Owns, Holds, Renaming, Clear, Takes

LEMMA UnlinkApart ==
  ASSUME Apart, NEW c \in Client, req[c].op = "unlink"
  PROVE  /\ \A p \in recovery : p[1] # req[c].from
         /\ \A y \in Client : Renaming(y) => req[y].to # req[c].from
  BY DEF Apart, Owns, Holds, Renaming, Clear, Frees

LEMMA SetattrApart ==
  ASSUME Apart, NEW c \in Client, req[c].op = "setattr"
  PROVE  /\ \A p \in recovery : p[1] # req[c].from
         /\ \A y \in Client : Renaming(y) => req[y].to # req[c].from
  BY DEF Apart, Owns, Holds, Renaming, Clear

\* The target of a rename is nobody else's, and its source is not taken.
LEMMA RenameApart ==
  ASSUME Apart, Local, NEW c \in Client, Renaming(c)
  PROVE  /\ req[c].from \in Name /\ req[c].to \in Name /\ req[c].from # req[c].to
         /\ \A x \in Client \ {c} :
               /\ req[x].op = "create" => req[x].from # req[c].from /\ req[x].from # req[c].to
               /\ req[x].op = "unlink" => req[x].from # req[c].to
               /\ req[x].op = "setattr" => req[x].from # req[c].to
               /\ Renaming(x) => /\ req[x].to # req[c].from /\ req[x].to # req[c].to
                                 /\ req[x].from # req[c].to
         /\ pc[c] \notin After => \A p \in recovery :
               p[1] # req[c].to /\ p[2] # req[c].to /\ p[1] # req[c].from
         /\ \A p \in recovery : p # Recovery(c) =>
               p[1] # req[c].to /\ p[2] # req[c].to /\ p[1] # req[c].from
  <1>1. req[c].from \in Name /\ req[c].to \in Name /\ req[c].from # req[c].to
    BY DEF Local, LocalOf, Renaming
  <1>2. \A x \in Client \ {c} : Clear(req[x], req[c].to, req[c].from) /\ (Renaming(x) => Clear(req[c], req[x].to, req[x].from))
    BY DEF Apart
  <1>3. \A x \in Client \ {c} :
               /\ req[x].op = "create" => req[x].from # req[c].from /\ req[x].from # req[c].to
               /\ req[x].op = "unlink" => req[x].from # req[c].to
               /\ req[x].op = "setattr" => req[x].from # req[c].to
               /\ Renaming(x) => /\ req[x].to # req[c].from /\ req[x].to # req[c].to
                                 /\ req[x].from # req[c].to
    BY <1>2 DEF Clear, Takes, Frees, Renaming
  <1>4. \A p \in recovery : p # Recovery(c) \/ pc[c] \notin After => Clear(req[c], p[1], p[2])
    BY DEF Apart, Owns, Holds
  <1>5. \A p \in recovery : Clear(req[c], p[1], p[2]) =>
           p[1] # req[c].to /\ p[2] # req[c].to /\ p[1] # req[c].from
    BY DEF Clear, Takes, Frees, Renaming
  <1> QED
    BY <1>1, <1>3, <1>4, <1>5

\* What clients are at a label.
LEMMA LabelsTell ==
  ASSUME Local, NEW c \in Client
  PROVE  /\ pc[c] \in {"entry", "create"} => req[c].op = "create" /\ req[c].from \in Name
         /\ pc[c] \in {"lookup", "delete", "unentry"} =>
               \/ req[c].op = "unlink" /\ req[c].name = req[c].from /\ req[c].from \in Name
               \/ Renaming(c) /\ req[c].name = req[c].to /\ req[c].to \in Name
         /\ pc[c] \in {"target", "newentry", "recovery"} \cup After => Renaming(c)
         /\ pc[c] \in {"setattr", "again"} => req[c].op = "setattr" /\ req[c].from \in Name
         /\ req[c].op = "fsck" <=> pc[c] \in {"scan", "dangling", "restore", "untarget", "reentry", "unrecover"}
         /\ req[c].op = "none" <=> pc[c] = "idle"
  BY DEF Local, LocalOf, LabelOf, Renaming, After

\* A step after which the client goes on with its request.
LEMMA GoesTo ==
  ASSUME IInv, Types', NEW c \in Client, NEW label \in Label, LabelOf(req[c].op, label),
         To(c, label), Later, inodes' = inodes, ops' = ops,
         label # "delete", label # "target", req[c].op = "rename" => pc[c] # "target"
  PROVE  /\ Local' /\ Counted' /\ Others(c) /\ Kept(c) /\ KeptNames(c) /\ pc'[c] = label /\ req' = req
         /\ broken' = broken
  <1>1. Types /\ Local /\ Counted /\ req' = req /\ Goto(c, label) /\ broken' = broken
    BY DEF IInv, To
  <1>2. Local' /\ pc'[c] = label /\ Others(c) /\ Kept(c)
    BY <1>1, ClientGoes
  <1>3. Counted'
    BY <1>1, <1>2, CountedKept, Bounds DEF Types
  <1> QED
    BY <1>1, <1>2, <1>3 DEF Kept

\* A step with which the request is over.
LEMMA Leaves ==
  ASSUME IInv, Types', NEW c \in Client, Leave(c), Later, inodes' = inodes, ops' = ops
  PROVE  Local' /\ Counted' /\ Others(c) /\ Over(c) /\ req'[c].op = "none" /\ pc'[c] = "idle"
  <1>1. Types /\ Local /\ Counted
    BY DEF IInv
  <1>2. Local' /\ Others(c) /\ Over(c)
    BY <1>1, ClientLeaves
  <1>3. req'[c].op = "none" /\ pc'[c] = "idle"
    BY <1>2, NothingHeld DEF Over
  <1>4. Counted'
    BY <1>1, <1>2, <1>3, CountedKept, Bounds DEF Types
  <1> QED
    BY <1>2, <1>3, <1>4

\* Return and Die without a change of a key.
LEMMA ReturnKeeps ==
  ASSUME IInv, NEW c \in Client, pc[c] # "idle", pc[c] \notin Bare, Return(c),
         SameKeys, UNCHANGED counters
  PROVE  IInv'
  <1>1. Leave(c) /\ broken' = broken
    BY DEF Return
  <1>2. Types' /\ Later /\ inodes' = inodes /\ ops' = ops
    BY <1>1 DEF IInv, Types, SameKeys, counters, Known, Later
  <1>3. Local' /\ Counted' /\ Others(c) /\ Over(c)
    BY <1>1, <1>2, Leaves
  <1> QED
    BY <1>1, <1>2, <1>3, LeaveKeeps

LEMMA DieKeeps ==
  ASSUME IInv, NEW c \in Client, pc[c] # "idle", Die(c), SameKeys,
         inodes' = inodes, versions' = versions, ops' = ops, crashes' \in 0 .. MaxCrashes
  PROVE  IInv'
  <1>1. Leave(c) /\ broken' = TRUE
    BY DEF Die
  <1>2. Types' /\ Later
    BY <1>1 DEF IInv, Types, SameKeys, Known, Later
  <1>3. Local' /\ Counted' /\ Others(c) /\ Over(c)
    BY <1>1, <1>2, Leaves
  <1> QED
    BY <1>1, <1>2, <1>3, LeaveKeeps

-----------------------------------------------------------------------------
(* Synchronization point: a new entry, of a create or a rename.            *)

LEMMA EntryAdded ==
  ASSUME IInv, Types', Counted', Local', NEW c \in Client, req[c].op # "fsck", pc[c] # "idle",
         Others(c), Kept(c), KeptNames(c), NEW n \in Name, n \notin entries, md[n] = Missing,
         md' = md, entries' = entries \cup {n}, recovery' = recovery, live' = live, broken' = broken,
         \/ pc[c] = "entry" /\ pc'[c] = "create" /\ req[c].from = n
         \/ pc[c] = "newentry" /\ pc'[c] = "recovery" /\ req[c].to = n /\ Renaming(c),
         \A p \in recovery : p[2] # n,
         \A y \in Client : Renaming(y) => req[y].from # n
  PROVE  IInv'
  <1>1. /\ Types /\ Local /\ Apart /\ RecoveryOwned /\ RecoveryDistinct /\ InFsckAlone
        /\ EntryHasMetadata /\ MetadataHasEntry /\ Between /\ Renames /\ Versions /\ Claimed
        /\ CopyOfFile /\ OneCopy /\ CopyWithoutEntry /\ OneName /\ LiveNamed
    BY DEF IInv
  <1>2. \A x \in Client : /\ req'[x].op = req[x].op /\ req'[x].from = req[x].from
                          /\ req'[x].to = req[x].to /\ req'[x].source = req[x].source
    BY DEF Others, Kept, KeptNames
  <1>3. \A x \in Client : /\ Renaming(x)' <=> Renaming(x)
                          /\ \A p : Holds(x, p)' <=> Holds(x, p)
    BY <1>2 DEF Renaming, Holds, Recovery
  <1>4. /\ pc'[c] \notin {"unentry", "copy", "remove", "finish", "newentry"} \cup After
        /\ pc[c] \notin {"unentry", "create", "copy", "remove"} \cup After \cup Entered
    BY DEF After, Entered
  <1>5. Apart' /\ RecoveryOwned' /\ RecoveryDistinct'
    BY <1>1, <1>4, NamesKept DEF RecoveryDistinct
  <1>6. InFsckAlone'
    <2>1. req'[c].op # "fsck"
      BY <1>2
    <2> QED
      BY <1>1, <2>1, NoFsck
  <1>7. \A k : Moved(k) => Moved(k)'
    BY <1>3, <1>4 DEF Moved, Others
  <1>8. ~Moved(n) /\ \A x \in Client : ~Unlinking(x, n) /\ ~Making(x, n)
    BY <1>1 DEF Moved, Between
  <1>9. EntryHasMetadata'
    <2>1. \A x \in Client, k \in Name :
             Unlinking(x, k) \/ Making(x, k) \/ Entering(x, k)
                 => (Unlinking(x, k) \/ Making(x, k) \/ Entering(x, k))'
      BY <1>2, <1>3, <1>4 DEF Unlinking, Making, Entering, Others
    <2>2. (Making(c, n) \/ Entering(c, n))'
      BY <1>2, <1>3 DEF Making, Entering, Entered
    <2> QED
      BY <1>1, <2>1, <2>2 DEF EntryHasMetadata, Types
  <1>10. MetadataHasEntry'
    BY <1>1, <1>7 DEF MetadataHasEntry
  <1>11. Between'
    <2>1. \A x \in Client, k \in Name : Unlinking(x, k)' <=> x # c /\ Unlinking(x, k)
      BY <1>4 DEF Unlinking, Others
    <2>2. \A x \in Client, k \in Name : Making(x, k)' => IF x = c THEN k = n ELSE Making(x, k)
      BY <1>2, <1>4 DEF Making, Others
    <2> QED
      BY <1>1, <1>7, <1>8, <2>1, <2>2 DEF Between
  <1>12. Renames'
    <2>1. ASSUME NEW x \in Client, Renaming(x), x # c
          PROVE  (pc'[x] = pc[x] /\ req'[x] = req[x] /\ req[x].from # n)
      BY <2>1 DEF Others
    <2>2. Renaming(c) => pc'[c] = "recovery" /\ req[c].to = n /\ req[c].from # n
      BY <1>1, LabelsTell DEF Renaming
    <2> QED
      BY <1>1, <1>2, <1>3, <2>1, <2>2 DEF Renames
  <1>13. Versions'
    BY <1>1, <1>2 DEF Versions, SameVersion
  <1>14. Claimed'
    <2>1. \A x \in Client : Claims(x)' <=> Claims(x)
      BY <1>2, <1>3, <1>4 DEF Claims, Others
    <2> QED
      BY <1>1, <1>2, <1>3, <1>4, <2>1 DEF Claimed, Others
  <1>15. OneCopy' /\ CopyOfFile' /\ OneName' /\ LiveNamed'
    BY <1>1, <1>2, <1>3, <1>4 DEF OneCopy, CopyOfFile, OneName, LiveNamed, Others
  <1>16. CopyWithoutEntry'
    BY <1>1, <1>2 DEF CopyWithoutEntry, Busy
  <1> QED
    BY <1>5, <1>6, <1>9, <1>10, <1>11, <1>12, <1>13, <1>14, <1>15, <1>16 DEF IInv

LEMMA CreateEntryKeeps ==
  ASSUME IInv, NEW c \in Client, CreateEntry(c)
  PROVE  IInv'
  <1> DEFINE n == req[c].from
  <1>1. /\ Types /\ Local /\ Apart /\ MetadataHasEntry /\ pc[c] = "entry"
        /\ md' = md /\ recovery' = recovery /\ live' = live /\ UNCHANGED counters
    BY DEF IInv, CreateEntry
  <1>2. req[c].op = "create" /\ n \in Name /\ pc[c] \notin Bare
    BY <1>1, LabelsTell DEF Bare, After
  <1>3. CASE n \in entries
    <2>1. Return(c) /\ SameKeys
      BY <1>1, <1>3 DEF CreateEntry, SameKeys
    <2> QED
      BY <1>1, <1>2, <2>1, ReturnKeeps
  <1>4. CASE n \notin entries
    <2>1. To(c, "create") /\ entries' = entries \cup {n}
      BY <1>4 DEF CreateEntry
    <2>2. Types' /\ Later /\ inodes' = inodes /\ ops' = ops
      BY <1>1, <1>2, <2>1 DEF Types, counters, Known, Later, To
    <2>3. "create" \in Label /\ LabelOf(req[c].op, "create")
      BY <1>2 DEF Label, LabelOf
    <2>4. /\ Local' /\ Counted' /\ Others(c) /\ Kept(c) /\ KeptNames(c) /\ pc'[c] = "create" /\ broken' = broken
      BY <1>2, <2>1, <2>2, <2>3, GoesTo
    <2>5. /\ \A p \in recovery : p[2] # n
          /\ \A y \in Client : Renaming(y) => req[y].from # n
      BY <1>1, <1>2, CreateApart
    <2>6. md[n] = Missing
      BY <1>1, <1>2, <1>4, <2>5 DEF MetadataHasEntry, Moved
    <2> QED
      BY <1>1, <1>2, <1>4, <2>1, <2>2, <2>4, <2>5, <2>6, EntryAdded
  <1> QED
    BY <1>3, <1>4

LEMMA NewEntryKeeps ==
  ASSUME IInv, NEW c \in Client, NewEntry(c)
  PROVE  IInv'
  <1> DEFINE n == req[c].to
  <1>1. /\ Types /\ Local /\ Apart /\ Renames /\ pc[c] = "newentry"
        /\ md' = md /\ recovery' = recovery /\ live' = live /\ UNCHANGED counters
    BY DEF IInv, NewEntry
  <1>2. Renaming(c) /\ pc[c] \notin Bare /\ pc[c] \notin After
    BY <1>1, LabelsTell DEF Bare, After
  <1>3. CASE n \in entries
    <2>1. Return(c) /\ SameKeys
      BY <1>1, <1>3 DEF NewEntry, SameKeys
    <2> QED
      BY <1>1, <1>2, <2>1, ReturnKeeps
  <1>4. CASE n \notin entries
    <2>1. To(c, "recovery") /\ entries' = entries \cup {n}
      BY <1>2, <1>4 DEF NewEntry, Renaming
    <2>2. /\ n \in Name /\ req[c].from # n
          /\ \A p \in recovery : p[2] # n
          /\ \A y \in Client \ {c} : Renaming(y) => req[y].from # n
      BY <1>1, <1>2, RenameApart
    <2>3. Types' /\ Later /\ inodes' = inodes /\ ops' = ops
      BY <1>1, <2>1, <2>2 DEF Types, counters, Known, Later, To
    <2>4. "recovery" \in Label /\ LabelOf(req[c].op, "recovery")
      BY <1>2 DEF Label, LabelOf, Renaming
    <2>5. /\ Local' /\ Counted' /\ Others(c) /\ Kept(c) /\ KeptNames(c) /\ pc'[c] = "recovery" /\ broken' = broken
      BY <1>1, <2>1, <2>3, <2>4, GoesTo
    <2>6. md[n] = Missing
      BY <1>1, <1>2 DEF Renames
    <2>7. \A y \in Client : Renaming(y) => req[y].from # n
      BY <2>2
    <2>8. req[c].op # "fsck"
      BY <1>2 DEF Renaming
    <2> QED
      BY <1>1, <1>2, <1>4, <2>1, <2>2, <2>3, <2>5, <2>6, <2>7, <2>8, EntryAdded
  <1> QED
    BY <1>3, <1>4

-----------------------------------------------------------------------------
(* The metadata of a new file.                                             *)

LEMMA CreateCounted ==
  ASSUME Types, Counted, NEW c \in Client, Others(c), req[c].op = "create", req'[c].op = "none",
         inodes' = inodes + 1, ops' = ops
  PROVE  Counted'
  <1>1. Creating' = Creating \ {c} /\ c \in Creating /\ IsFiniteSet(Creating)
    BY DEF Creating, Counted, Others
  <1>2. IsFiniteSet(Creating') /\ Cardinality(Creating') = Cardinality(Creating) - 1
    BY <1>1, FS_RemoveElement
  <1>3. Cardinality(Creating) \in Nat /\ Cardinality(Files) \in Nat
    BY <1>1, FS_Subset, FS_CardinalityType
  <1> QED
    BY <1>2, <1>3, Bounds DEF Counted, Types

LEMMA CreateMetadataKeeps ==
  ASSUME IInv, NEW c \in Client, CreateMetadata(c)
  PROVE  IInv'
  <1> DEFINE n == req[c].from
             m == [type |-> "POSIX", ino |-> inodes + 1, links |-> 1, version |-> versions + 1]
  <1>1. /\ Types /\ Counted /\ Local /\ Apart /\ RecoveryOwned /\ RecoveryDistinct /\ InFsckAlone
        /\ EntryHasMetadata /\ MetadataHasEntry /\ Between /\ Renames /\ Versions /\ Claimed
        /\ CopyOfFile /\ OneCopy /\ CopyWithoutEntry /\ OneName /\ LiveNamed
    BY DEF IInv
  <1>2. /\ pc[c] = "create" /\ entries' = entries /\ recovery' = recovery /\ ops' = ops
        /\ crashes' = crashes
    BY DEF CreateMetadata
  <1>3. req[c].op = "create" /\ n \in Name /\ req[c].source.key = n
    BY <1>1, <1>2, LabelsTell DEF Local, LocalOf
  <1>4. md[n] = Missing /\ n \in entries /\ \A x \in Client \ {c} : ~Unlinking(x, n) /\ ~Making(x, n)
    BY <1>1, <1>2, <1>3 DEF Between, Making
  <1>5. /\ md' = [md EXCEPT ![n] = m] /\ versions' = versions + 1 /\ inodes' = inodes + 1
        /\ live' = live \cup {inodes + 1} /\ Leave(c) /\ broken' = broken
    BY <1>3, <1>4 DEF CreateMetadata, Free, NewVersion, Return
  <1>6. m \in Md /\ m.ino = inodes + 1 /\ m.version = versions + 1 /\ m # Missing /\ m.type = "POSIX"
    BY <1>1, NothingHeld DEF Md, Types
  <1> HIDE DEF m
  <1>7. /\ \A k \in Name : md'[k] = IF k = n THEN m ELSE md[k]
        /\ md' \in [Key -> Md] /\ \A i \in Inode : md'[i] = Missing
    BY <1>1, <1>3, <1>5, <1>6 DEF Types, Key
  <1>8. Later
    BY <1>1, <1>5 DEF Types, Later
  <1>9. Types'
    <2>1. \A k \in Name : Known(md[k])'
      <3> SUFFICES ASSUME NEW k \in Name PROVE Known(md[k])'
        OBVIOUS
      <3>1. CASE k = n
        BY <1>1, <1>5, <1>6, <1>7, <3>1 DEF Known, Types
      <3>2. CASE k # n
        <4>1. md[k] \in Md /\ Known(md[k]) /\ md'[k] = md[k]
          BY <1>1, <1>7, <3>2 DEF Types, Key
        <4> QED
          BY <1>1, <1>8, <4>1, KnownStays DEF Known
      <3> QED BY <3>1, <3>2
    <2>2. live' \subseteq 1 .. inodes'
      BY <1>1, <1>5 DEF Types
    <2> QED
      BY <1>1, <1>2, <1>5, <1>7, <2>1, <2>2 DEF Types
  <1>10. Local' /\ Others(c) /\ Over(c) /\ req'[c].op = "none" /\ pc'[c] = "idle"
    <2>1. Local' /\ Others(c) /\ Over(c)
      BY <1>1, <1>5, <1>8, ClientLeaves
    <2> QED
      BY <2>1, NothingHeld DEF Over
  <1>11. Counted'
    BY <1>1, <1>2, <1>3, <1>5, <1>10, CreateCounted
  <1>12. Apart' /\ RecoveryOwned' /\ RecoveryDistinct'
    <2>1. pc[c] \notin After
      BY <1>2 DEF After
    <2> QED
      BY <1>1, <1>2, <1>5, <1>10, <2>1, NamesLeft DEF RecoveryDistinct
  <1>13. InFsckAlone'
    BY <1>1, <1>2, <1>3, <1>10, NoFsck
  <1>14. /\ \A p \in recovery : p[1] # n /\ p[2] # n
         /\ \A y \in Client : Renaming(y) => req[y].from # n /\ req[y].to # n
    BY <1>1, <1>3, CreateApart
  <1>15. \A k : Moved(k) => Moved(k)'
    BY <1>2, <1>10 DEF Moved, Holds, Renaming, Others, Recovery
  <1>16. EntryHasMetadata'
    <2>1. \A x \in Client, k \in Name : k # n /\ (Unlinking(x, k) \/ Making(x, k) \/ Entering(x, k))
                => (Unlinking(x, k) \/ Making(x, k) \/ Entering(x, k))'
      BY <1>2, <1>3, <1>10 DEF Unlinking, Making, Entering, Renaming, Others
    <2> QED
      BY <1>1, <1>2, <1>5, <1>6, <1>7, <2>1 DEF EntryHasMetadata, Types
  <1>17. MetadataHasEntry'
    BY <1>1, <1>2, <1>4, <1>7, <1>15 DEF MetadataHasEntry
  <1>18. Between'
    <2>1. \A x \in Client, k \in Name : /\ Unlinking(x, k)' <=> x # c /\ Unlinking(x, k)
                                        /\ Making(x, k)' <=> x # c /\ Making(x, k)
      BY <1>10 DEF Unlinking, Making, Others
    <2> QED
      BY <1>1, <1>2, <1>4, <1>7, <1>15, <2>1 DEF Between
  <1>19. \A x \in Client : Renaming(x)' => x # c /\ Renaming(x) /\ req'[x] = req[x] /\ pc'[x] = pc[x]
    BY <1>10 DEF Renaming, Others
  <1>20. Renames'
    <2>1. \A x \in Client : Renaming(x) =>
              /\ md'[req[x].from] = md[req[x].from] /\ md'[req[x].to] = md[req[x].to]
      BY <1>1, <1>7, <1>14 DEF Local, LocalOf, Renaming
    <2> QED
      BY <1>1, <1>2, <1>19, <2>1 DEF Renames
  <1>21. Versions'
    <2>1. ASSUME NEW x \in Client, req'[x].op = "setattr",
                 SameVersion(req[x].from, req[x].source.md.version)'
          PROVE  md'[req'[x].from].ino = req'[x].source.md.ino
      <3>1. x # c /\ req'[x] = req[x] /\ req[x].from \in Name /\ req[x].op = "setattr"
        BY <1>1, <1>10, <2>1 DEF Others, Local, LocalOf
      <3>2. req[x].source.md \in Md /\ req[x].source.md.version <= versions
        BY <1>1 DEF Local, LocalOf, Known, Request, Info
      <3>3. req[x].source.md.version # versions + 1
        BY <1>1, <3>2 DEF Types, Md
      <3>4. req[x].from # n
        BY <1>6, <1>7, <2>1, <3>1, <3>3 DEF SameVersion
      <3> QED
        BY <1>1, <1>7, <2>1, <3>1, <3>4 DEF Versions, SameVersion
    <2> QED
      BY <2>1 DEF Versions
  <1>22. Claimed'
    <2>1. \A x \in Client : Claims(x)' => Claims(x)
      BY <1>2, <1>19 DEF Claims
    <2>2. \A x \in Client : m.ino # req[x].source.md.ino
      <3> SUFFICES ASSUME NEW x \in Client PROVE m.ino # req[x].source.md.ino
        OBVIOUS
      <3>1. req[x].source.md.ino \in Nat /\ req[x].source.md.ino <= inodes
        BY <1>1 DEF Local, LocalOf, Known, Request, Info, Md
      <3> QED
        BY <1>1, <1>6, <3>1 DEF Types
    <2> QED
      BY <1>1, <1>7, <1>19, <2>1, <2>2 DEF Claimed, Claims
  <1>23. CopyOfFile' /\ OneCopy' /\ CopyWithoutEntry'
    <2>1. \A p \in recovery : md'[p[1]] = md[p[1]] /\ md'[p[2]] = md[p[2]]
      BY <1>1, <1>7, <1>14 DEF Types
    <2>2. CopyOfFile' /\ OneCopy'
      BY <1>1, <1>2, <1>19, <2>1 DEF CopyOfFile, OneCopy
    <2>3. CopyWithoutEntry'
      BY <1>1, <1>2, <1>3, <2>1 DEF CopyWithoutEntry, Busy
    <2> QED BY <2>2, <2>3
  <1>24. \A k \in Name : md[k].ino \in Nat /\ md[k].ino <= inodes
    BY <1>1 DEF Types, Known, Md, Key
  <1>25. OneName'
    BY <1>1, <1>2, <1>6, <1>7, <1>24 DEF OneName, Types
  <1>26. LiveNamed'
    <2>1. ASSUME NEW i \in live' PROVE \E k \in Name : md'[k].ino = i
      <3>1. CASE i = inodes + 1
        BY <1>3, <1>6, <1>7, <3>1
      <3>2. CASE i \in live /\ i # inodes + 1
        <4>1. PICK k \in Name : md[k].ino = i
          BY <1>1, <3>2 DEF LiveNamed
        <4>2. md[n].ino = 0 /\ i \in 1 .. inodes
          BY <1>1, <1>4, <3>2, NothingHeld DEF Types
        <4>3. k # n
          BY <1>1, <4>1, <4>2 DEF Types
        <4> QED
          BY <1>7, <4>1, <4>3
      <3> QED
        BY <1>5, <2>1, <3>1, <3>2
    <2> QED
      BY <2>1 DEF LiveNamed
  <1> QED
    BY <1>9, <1>10, <1>11, <1>12, <1>13, <1>16, <1>17, <1>18, <1>20, <1>21, <1>22, <1>23, <1>25, <1>26 DEF IInv

-----------------------------------------------------------------------------
(* Metadata is deleted: by an unlink, or at the old name of a rename.      *)

LEMMA DeletedTypes ==
  ASSUME Types, NEW n \in Name, md' = [md EXCEPT ![n] = Missing], entries' = entries,
         recovery' = recovery, UNCHANGED counters, live' \subseteq live, broken' \in BOOLEAN
  PROVE  /\ Types' /\ Later /\ inodes' = inodes /\ ops' = ops
         /\ \A k \in Name : md'[k] = IF k = n THEN Missing ELSE md[k]
  <1>1. /\ \A k \in Name : md'[k] = IF k = n THEN Missing ELSE md[k]
        /\ md' \in [Key -> Md] /\ \A i \in Inode : md'[i] = Missing
    BY NothingHeld DEF Types, Key
  <1>2. inodes' = inodes /\ versions' = versions /\ ops' = ops /\ crashes' = crashes
    BY DEF counters
  <1>3. \A k \in Name : Known(md[k])'
    BY <1>1, <1>2, NothingHeld DEF Types, Known
  <1> QED
    BY <1>1, <1>2, <1>3 DEF Types, Later

LEMMA MetadataRemoved ==
  ASSUME IInv, Types', Counted', Local', NEW c \in Client, req[c].op # "fsck", pc[c] # "idle",
         Others(c), Kept(c), KeptNames(c), NEW n \in Name, md[n] # Missing,
         \A k \in Name : md'[k] = IF k = n THEN Missing ELSE md[k],
         entries' = entries, recovery' = recovery, broken' = broken,
         \/ pc[c] = "delete" /\ pc'[c] = "unentry" /\ req'[c].name = n
         \/ pc[c] = "remove" /\ pc'[c] = "finish" /\ req[c].from = n /\ Renaming(c),
         \A p \in recovery : p[1] # n,
         \A y \in Client \ {c} : Renaming(y) => req[y].to # n,
         LiveNamed'
  PROVE  IInv'
  <1>1. /\ Types /\ Local /\ Apart /\ RecoveryOwned /\ RecoveryDistinct /\ InFsckAlone
        /\ EntryHasMetadata /\ MetadataHasEntry /\ Between /\ Renames /\ Versions /\ Claimed
        /\ CopyOfFile /\ OneCopy /\ CopyWithoutEntry /\ OneName
    BY DEF IInv
  <1>2. \A x \in Client : /\ req'[x].op = req[x].op /\ req'[x].from = req[x].from
                          /\ req'[x].to = req[x].to /\ req'[x].source = req[x].source
    BY DEF Others, Kept, KeptNames
  <1>3. \A x \in Client : /\ Renaming(x)' <=> Renaming(x)
                          /\ \A p : Holds(x, p)' <=> Holds(x, p)
    BY <1>2 DEF Renaming, Holds, Recovery
  <1>4. /\ pc'[c] \notin {"create", "copy", "remove", "newentry"} \cup Entered
        /\ pc[c] \notin {"unentry", "create", "copy"} \cup Entered
        /\ pc[c] \in After <=> pc'[c] \in After
    BY DEF After, Entered
  <1>5. Apart' /\ RecoveryOwned' /\ RecoveryDistinct'
    BY <1>1, <1>4, NamesKept DEF RecoveryDistinct
  <1>6. InFsckAlone'
    <2>1. req'[c].op # "fsck"
      BY <1>2
    <2> QED
      BY <1>1, <2>1, NoFsck
  <1>7. \A k : Moved(k) /\ (k # n \/ pc[c] = "delete") => Moved(k)'
    <2> SUFFICES ASSUME NEW k, Moved(k), k # n \/ pc[c] = "delete" PROVE Moved(k)'
      OBVIOUS
    <2>1. PICK p \in recovery : p[2] = k /\ \A z \in Client : Holds(z, p) => pc[z] \in {"copy", "remove"}
      BY DEF Moved
    <2>2. ~Holds(c, p)
      BY <2>1 DEF Holds, Recovery
    <2> QED
      BY <1>3, <2>1, <2>2 DEF Moved, Others
  <1>8. \A x \in Client : ~Unlinking(x, n) /\ ~Making(x, n)
    BY <1>1 DEF Between
  <1>9. EntryHasMetadata'
    <2>1. \A x \in Client, k \in Name :
             Unlinking(x, k) \/ Making(x, k) \/ Entering(x, k)
                 => (Unlinking(x, k) \/ Making(x, k) \/ Entering(x, k))'
      BY <1>2, <1>3, <1>4 DEF Unlinking, Making, Entering, Others
    <2>2. n \in entries => Unlinking(c, n)'
      BY <1>1 DEF Unlinking, Renames
    <2> QED
      BY <1>1, <2>1, <2>2 DEF EntryHasMetadata, Types
  <1>10. MetadataHasEntry'
    BY <1>1, <1>7 DEF MetadataHasEntry
  <1>11. Between'
    <2>1. \A x \in Client, k \in Name : Unlinking(x, k)' =>
             \/ x # c /\ k # n /\ Unlinking(x, k)
             \/ x = c /\ k = n /\ pc[c] = "delete"
      BY <1>4, <1>8 DEF Unlinking, Others
    <2>2. \A x \in Client, k \in Name : Making(x, k)' => x # c /\ k # n /\ Making(x, k)
      BY <1>2, <1>4, <1>8 DEF Making, Others
    <2>3. n \notin entries => Moved(n)
      BY <1>1 DEF MetadataHasEntry
    <2> QED
      BY <1>1, <1>7, <2>1, <2>2, <2>3 DEF Between
  <1>12. Renames'
    <2>1. ASSUME NEW x \in Client, Renaming(x), x # c
          PROVE  /\ pc'[x] = pc[x] /\ req'[x] = req[x] /\ req[x].to \in Name /\ req[x].from \in Name
                 /\ md'[req[x].to] = md[req[x].to]
      BY <1>1, <2>1 DEF Others, Local, LocalOf, Renaming
    <2>2. Renaming(c) => req[c].from \in Name /\ req[c].to \in Name
      BY <1>1 DEF Local, LocalOf, Renaming
    <2> QED
      BY <1>1, <1>2, <1>3, <1>4, <2>1, <2>2 DEF Renames
  <1>13. Versions'
    BY <1>1, <1>2 DEF Versions, SameVersion, Local, LocalOf
  <1>14. Claimed'
    <2>1. \A x \in Client : Claims(x)' <=> Claims(x)
      BY <1>2, <1>3, <1>4 DEF Claims, Others
    <2>2. \A x \in Client : Claims(x) => req[x].source.md.ino # 0
      BY <1>1 DEF Claims, Renaming, Local, LocalOf
    <2> QED
      BY <1>1, <1>2, <1>3, <1>4, <2>1, <2>2, NothingHeld DEF Claimed, Others
  <1>15. CopyOfFile' /\ OneCopy' /\ CopyWithoutEntry'
    <2>1. \A p \in recovery : p[1] \in Name /\ p[2] \in Name /\ md'[p[1]] = md[p[1]]
      BY <1>1 DEF Types
    <2>2. CopyOfFile'
      BY <1>1, <2>1 DEF CopyOfFile
    <2>3. OneCopy'
      BY <1>1, <1>2, <1>3, <1>4, <2>1 DEF OneCopy, Others
    <2>4. CopyWithoutEntry'
      BY <1>1, <1>2, <2>1 DEF CopyWithoutEntry, Busy
    <2> QED BY <2>2, <2>3, <2>4
  <1>16. OneName'
    BY <1>1, NothingHeld DEF OneName
  <1> QED
    BY <1>5, <1>6, <1>9, <1>10, <1>11, <1>12, <1>13, <1>14, <1>15, <1>16 DEF IInv

LEMMA DeleteMetadataKeeps ==
  ASSUME IInv, NEW c \in Client, DeleteMetadata(c)
  PROVE  IInv'
  <1> DEFINE n == req[c].name
             info == req[c].removed
  <1>1. /\ Types /\ Local /\ Apart /\ LiveNamed /\ pc[c] = "delete"
        /\ entries' = entries /\ recovery' = recovery /\ UNCHANGED counters
    BY DEF IInv, DeleteMetadata
  <1>2. /\ info.key = n /\ n \in Name /\ req[c].op \in {"unlink", "rename"}
        /\ pc[c] \notin Bare /\ pc[c] \notin After /\ pc[c] # "idle"
        /\ req[c].op = "unlink" => n = req[c].from
        /\ req[c].op = "rename" => n = req[c].to
    BY <1>1, LabelsTell DEF Local, LocalOf, Bare, After, Renaming
  <1>3. CASE /\ SameVersion(info.key, info.md.version)
             /\ Del(info.key) /\ live' = live \ {md[info.key].ino} /\ To(c, "unentry")
    <2>1. md' = [md EXCEPT ![n] = Missing] /\ live' = live \ {md[n].ino} /\ md[n] # Missing /\ broken' = broken
      BY <1>2, <1>3 DEF Del, SameVersion, To
    <2>2. /\ Types' /\ Later /\ inodes' = inodes /\ ops' = ops
          /\ \A k \in Name : md'[k] = IF k = n THEN Missing ELSE md[k]
      <3>1. broken' \in BOOLEAN /\ live' \subseteq live
        BY <1>1, <2>1 DEF Types
      <3> QED
        BY <1>1, <1>2, <2>1, <3>1, DeletedTypes
    <2>3. "unentry" \in Label /\ LabelOf(req[c].op, "unentry")
      BY <1>2 DEF Label, LabelOf
    <2>4. /\ Local' /\ Counted' /\ Others(c) /\ Kept(c) /\ KeptNames(c) /\ pc'[c] = "unentry" /\ req' = req
      BY <1>1, <1>3, <2>2, <2>3, GoesTo
    <2>5. /\ \A p \in recovery : p[1] # n
          /\ \A y \in Client \ {c} : Renaming(y) => req[y].to # n
      BY <1>1, <1>2, UnlinkApart, RenameApart DEF Renaming
    <2>6. LiveNamed'
      BY <1>1, <2>1, <2>2 DEF LiveNamed
    <2>7. req[c].op # "fsck" /\ req'[c].name = n
      BY <1>2, <2>4
    <2> HIDE DEF n
    <2> QED
      BY <1>1, <1>2, <2>1, <2>2, <2>4, <2>5, <2>6, <2>7, MetadataRemoved
  <1>4. CASE md[info.key] = Missing /\ Return(c) /\ UNCHANGED <<md, live>>
    BY <1>1, <1>2, <1>4, ReturnKeeps DEF SameKeys
  <1>5. CASE To(c, "lookup") /\ UNCHANGED <<md, live>>
    <2>1. Types' /\ Later /\ inodes' = inodes /\ ops' = ops /\ SameKeys
      BY <1>1, <1>5 DEF Types, counters, Known, Later, To, SameKeys
    <2>2. "lookup" \in Label /\ LabelOf(req[c].op, "lookup")
      BY <1>2 DEF Label, LabelOf
    <2>3. /\ Local' /\ Counted' /\ Others(c) /\ Kept(c) /\ KeptNames(c) /\ pc'[c] = "lookup" /\ broken' = broken
      BY <1>1, <1>5, <2>1, <2>2, GoesTo
    <2>4. req[c].op # "fsck"
      BY <1>2
    <2> QED
      BY <1>1, <1>2, <2>1, <2>3, <2>4, GoKeeps DEF Kept
  <1> QED
    BY <1>3, <1>4, <1>5 DEF DeleteMetadata

LEMMA RemoveOldKeeps ==
  ASSUME IInv, NEW c \in Client, RemoveOld(c)
  PROVE  IInv'
  <1> DEFINE n == req[c].from
  <1>1. /\ Types /\ Local /\ Apart /\ Renames /\ LiveNamed /\ pc[c] = "remove"
        /\ entries' = entries /\ recovery' = recovery /\ live' = live /\ UNCHANGED counters
    BY DEF IInv, RemoveOld
  <1>2. Renaming(c) /\ pc[c] \in After /\ pc[c] # "idle"
    BY <1>1, LabelsTell DEF After
  <1>3. n \in Name /\ req[c].source.key = n /\ req[c].to \in Name /\ req[c].to # n
    BY <1>1, <1>2 DEF Local, LocalOf, Renaming
  <1>4. Require(c, md[n] # Missing, "finish") /\ md' = [md EXCEPT ![n] = Missing]
    BY <1>3 DEF RemoveOld, Del
  <1>5. CASE md[n] = Missing
    <2>1. Die(c) /\ md' = md
      BY <1>1, <1>3, <1>4, <1>5 DEF Require, Types, Key
    <2> QED
      BY <1>1, <1>2, <2>1, DieKeeps DEF SameKeys, counters, Types
  <1>6. CASE md[n] # Missing
    <2>1. To(c, "finish") /\ broken' = broken
      BY <1>4, <1>6 DEF Require, To
    <2>2. /\ Types' /\ Later /\ inodes' = inodes /\ ops' = ops
          /\ \A k \in Name : md'[k] = IF k = n THEN Missing ELSE md[k]
      <3>1. broken' \in BOOLEAN /\ live' \subseteq live
        BY <1>1, <2>1 DEF Types
      <3> QED
        BY <1>1, <1>3, <1>4, <3>1, DeletedTypes
    <2>3. "finish" \in Label /\ LabelOf(req[c].op, "finish")
      BY <1>2 DEF Label, LabelOf, Renaming
    <2>4. /\ Local' /\ Counted' /\ Others(c) /\ Kept(c) /\ KeptNames(c) /\ pc'[c] = "finish" /\ req' = req
      BY <1>1, <2>1, <2>2, <2>3, GoesTo
    <2>5. /\ \A p \in recovery : p[1] # n
          /\ \A y \in Client \ {c} : Renaming(y) => req[y].to # n
      BY <1>1, <1>2, RenameApart DEF Recovery
    <2>6. LiveNamed'
      <3>1. md[n].ino = md[req[c].to].ino
        BY <1>1, <1>2, <1>6 DEF Renames
      <3> QED
        BY <1>1, <1>3, <2>2, <3>1 DEF LiveNamed
    <2>7. req[c].op # "fsck"
      BY <1>2 DEF Renaming
    <2> QED
      BY <1>1, <1>2, <1>3, <1>6, <2>1, <2>2, <2>4, <2>5, <2>6, <2>7, MetadataRemoved
  <1> QED
    BY <1>5, <1>6

-----------------------------------------------------------------------------
(* An entry without metadata is deleted: by an unlink, or when a rename    *)
(* gives up.                                                               *)

LEMMA EntryRemoved ==
  ASSUME IInv, Types', Counted', Local', NEW c \in Client, req[c].op # "fsck",
         Others(c), NEW n \in Name, md[n] = Missing,
         md' = md, entries' = entries \ {n}, recovery' = recovery, live' = live, broken' = broken,
         Renaming(c) => req[c].to = n,
         \/ pc[c] = "unentry" /\ pc'[c] = "newentry" /\ Kept(c) /\ req[c].name = n
         \/ pc[c] = "rollback" /\ pc'[c] = "finish" /\ Kept(c)
         \/ pc[c] = "unentry" /\ Over(c) /\ req[c].name = n,
         \A x \in Client \ {c} : /\ ~Unlinking(x, n) /\ ~Making(x, n)
                                 /\ Renaming(x) => req[x].to # n
  PROVE  IInv'
  <1>1. /\ Types /\ Local /\ Apart /\ RecoveryOwned /\ RecoveryDistinct /\ InFsckAlone
        /\ EntryHasMetadata /\ MetadataHasEntry /\ Between /\ Renames /\ Versions /\ Claimed
        /\ CopyOfFile /\ OneCopy /\ CopyWithoutEntry /\ OneName /\ LiveNamed
    BY DEF IInv
  <1>2. \/ Kept(c) /\ pc'[c] \in {"newentry", "finish"}
        \/ req'[c].op = "none" /\ pc'[c] = "idle"
    BY NothingHeld DEF Over
  <1>3. \A x \in Client : Renaming(x)' => /\ Renaming(x) /\ req'[x].from = req[x].from
                                          /\ req'[x].to = req[x].to /\ req'[x].source = req[x].source
    BY <1>2 DEF Others, Kept, KeptNames, Renaming
  <1>4. \A x \in Client : \A p : Holds(x, p)' => Holds(x, p)
    BY <1>3 DEF Holds, Recovery
  <1>5. Apart' /\ RecoveryOwned' /\ RecoveryDistinct'
    <2>1. CASE Kept(c) /\ KeptNames(c)
      <3>1. pc[c] \in After <=> pc'[c] \in After
        BY <2>1, <1>2, NothingHeld DEF After, Over
      <3> QED
        BY <1>1, <2>1, <3>1, NamesKept DEF RecoveryDistinct
    <2>2. CASE pc[c] = "unentry" /\ Over(c)
      <3>1. pc[c] \notin After
        BY <2>2 DEF After
      <3> QED
        BY <1>1, <2>2, <3>1, NamesLeft DEF RecoveryDistinct
    <2> QED BY <2>1, <2>2 DEF Kept
  <1>6. InFsckAlone'
    <2>1. req'[c].op # "fsck" /\ pc[c] # "idle"
      BY <1>2 DEF Kept, KeptNames
    <2> QED
      BY <1>1, <2>1, NoFsck
  <1>7. \A k : Moved(k) => Moved(k)'
    <2> SUFFICES ASSUME NEW k, Moved(k) PROVE Moved(k)'
      OBVIOUS
    <2>1. PICK p \in recovery : p[2] = k /\ \A z \in Client : Holds(z, p) => pc[z] \in {"copy", "remove"}
      BY DEF Moved
    <2>2. ~Holds(c, p)
      BY <2>1
    <2> QED
      BY <1>4, <2>1, <2>2 DEF Moved, Others
  <1>8. EntryHasMetadata'
    <2>1. \A x \in Client, k \in Name :
             k # n /\ (Unlinking(x, k) \/ Making(x, k) \/ Entering(x, k))
                 => (Unlinking(x, k) \/ Making(x, k) \/ Entering(x, k))'
      BY DEF Unlinking, Making, Entering, Renaming, Others
    <2> QED
      BY <1>1, <2>1 DEF EntryHasMetadata, Types
  <1>9. MetadataHasEntry'
    BY <1>1, <1>7 DEF MetadataHasEntry
  <1>10. Between'
    <2>1. \A x \in Client, k \in Name : Unlinking(x, k)' => x # c /\ k # n /\ Unlinking(x, k)
      BY <1>2 DEF Unlinking, Others
    <2>2. \A x \in Client, k \in Name : Making(x, k)' => x # c /\ k # n /\ Making(x, k)
      BY <1>2 DEF Making, Others
    <2> QED
      BY <1>1, <1>7, <2>1, <2>2 DEF Between
  <1>11. Renames'
    <2>1. pc'[c] \notin Entered
      BY <1>2 DEF Entered
    <2> QED
      BY <1>1, <1>2, <1>3, <2>1 DEF Renames, Others, Renaming
  <1>12. Versions'
    <2>1. \A x \in Client : req'[x].op = "setattr" => req[x].op = "setattr" /\ x # c /\ req'[x] = req[x]
      BY <1>1, <1>2, LabelsTell DEF Others, Kept, KeptNames, After, Renaming
    <2> QED
      BY <1>1, <2>1 DEF Versions, SameVersion
  <1>13. Claimed'
    <2>1. \A x \in Client : Claims(x)' => Claims(x)
      BY <1>2, <1>3 DEF Claims, Others
    <2> QED
      BY <1>1, <1>2, <1>3, <2>1 DEF Claimed, Claims, Others
  <1>14. OneCopy'
    BY <1>1, <1>2, <1>3 DEF OneCopy, Others
  <1>15. CopyOfFile' /\ OneName' /\ LiveNamed'
    BY <1>1 DEF CopyOfFile, OneName, LiveNamed
  <1>16. CopyWithoutEntry'
    <2>1. pc[c] # "idle"
      OBVIOUS
    <2>2. Busy
      BY <1>1, <2>1, LabelsTell DEF Busy
    <2> QED
      BY <1>1, <2>2 DEF CopyWithoutEntry
  <1> QED
    BY <1>5, <1>6, <1>8, <1>9, <1>10, <1>11, <1>12, <1>13, <1>14, <1>15, <1>16 DEF IInv

LEMMA DeleteEntryKeeps ==
  ASSUME IInv, NEW c \in Client, DeleteEntry(c)
  PROVE  IInv'
  <1> DEFINE n == req[c].name
  <1>1. /\ Types /\ Local /\ Apart /\ Between /\ pc[c] = "unentry" /\ entries' = entries \ {n}
        /\ md' = md /\ recovery' = recovery /\ live' = live /\ UNCHANGED counters
    BY DEF IInv, DeleteEntry
  <1>2. /\ n \in Name /\ req[c].op \in {"unlink", "rename"} /\ pc[c] # "idle"
        /\ req[c].op = "unlink" => n = req[c].from
        /\ req[c].op = "rename" => n = req[c].to
    BY <1>1, LabelsTell DEF Renaming
  <1>3. /\ md[n] = Missing
        /\ \A x \in Client \ {c} : ~Unlinking(x, n) /\ ~Making(x, n)
    BY <1>1, <1>2 DEF Between, Unlinking
  <1>4. \A x \in Client \ {c} : Renaming(x) => req[x].to # n
    BY <1>1, <1>2, UnlinkApart, RenameApart DEF Renaming
  <1>5. CASE n \notin entries /\ Die(c)
    <2>1. entries' = entries
      BY <1>1, <1>5
    <2> QED
      BY <1>1, <1>2, <1>5, <2>1, DieKeeps DEF SameKeys, counters, Types
  <1>6. CASE n \in entries /\ req[c].op = "unlink" /\ Return(c)
    <2>1. Leave(c) /\ broken' = broken /\ Types' /\ Later /\ inodes' = inodes /\ ops' = ops
      BY <1>1, <1>6 DEF Return, Types, Known, Later, counters
    <2>2. Local' /\ Counted' /\ Others(c) /\ Over(c)
      BY <2>1, Leaves
    <2>3. ~Renaming(c) /\ req[c].op # "fsck"
      BY <1>6 DEF Renaming
    <2> QED
      BY <1>1, <1>2, <1>3, <1>4, <2>1, <2>2, <2>3, EntryRemoved
  <1>7. CASE /\ n \in entries /\ req[c].op = "rename"
             /\ Hold(c, IF req[c].target.md.type = "T"
                        THEN [req[c] EXCEPT !.target = lookup(n)] ELSE req[c])
             /\ Goto(c, "newentry") /\ UNCHANGED broken
    <2>1. req[c].target.md.type # "T"
      BY <1>1 DEF Local, Request, Info, Md
    <2>2. To(c, "newentry")
      BY <1>1, <1>7, <2>1 DEF Hold, To, Local
    <2>3. Types' /\ Later /\ inodes' = inodes /\ ops' = ops
      BY <1>1, <1>7 DEF Types, Known, Later, counters
    <2>4. "newentry" \in Label /\ LabelOf(req[c].op, "newentry")
      BY <1>7 DEF Label, LabelOf
    <2>5. /\ Local' /\ Counted' /\ Others(c) /\ Kept(c) /\ KeptNames(c) /\ pc'[c] = "newentry" /\ broken' = broken
      BY <1>1, <2>2, <2>3, <2>4, GoesTo
    <2>6. req[c].op # "fsck" /\ req[c].to = n
      BY <1>2, <1>7
    <2> QED
      BY <1>1, <1>2, <1>3, <1>4, <2>3, <2>5, <2>6, EntryRemoved
  <1> QED
    BY <1>5, <1>6, <1>7 DEF DeleteEntry

LEMMA RollbackKeeps ==
  ASSUME IInv, NEW c \in Client, Rollback(c)
  PROVE  IInv'
  <1> DEFINE n == req[c].to
  <1>1. /\ Types /\ Local /\ Apart /\ Renames /\ pc[c] = "rollback" /\ entries' = entries \ {n}
        /\ md' = md /\ recovery' = recovery /\ live' = live /\ UNCHANGED counters
    BY DEF IInv, Rollback
  <1>2. Renaming(c) /\ n \in Name
    BY <1>1, LabelsTell, RenameApart DEF After
  <1>3. n \in entries /\ md[n] = Missing
    BY <1>1, <1>2 DEF Renames, Entered
  <1>4. To(c, "finish")
    BY <1>3 DEF Rollback, Require, To
  <1>5. Types' /\ Later /\ inodes' = inodes /\ ops' = ops
    BY <1>1, <1>4 DEF Types, Known, Later, counters, To
  <1>6. "finish" \in Label /\ LabelOf(req[c].op, "finish")
    BY <1>2 DEF Label, LabelOf, Renaming
  <1>7. /\ Local' /\ Counted' /\ Others(c) /\ Kept(c) /\ KeptNames(c) /\ pc'[c] = "finish" /\ broken' = broken
    BY <1>1, <1>4, <1>5, <1>6, GoesTo
  <1>8. \A x \in Client \ {c} : /\ ~Unlinking(x, n) /\ ~Making(x, n)
                                /\ Renaming(x) => req[x].to # n
    <2> SUFFICES ASSUME NEW x \in Client \ {c}
                 PROVE  /\ ~Unlinking(x, n) /\ ~Making(x, n)
                        /\ Renaming(x) => req[x].to # n
      OBVIOUS
    <2>1. /\ req[x].op = "create" => req[x].from # n
          /\ req[x].op = "unlink" => req[x].from # n
          /\ Renaming(x) => req[x].to # n
      BY <1>1, <1>2, RenameApart
    <2> QED
      BY <1>1, <2>1, LabelsTell DEF Unlinking, Making
  <1>9. req[c].op # "fsck"
    BY <1>2 DEF Renaming
  <1> QED
    BY <1>1, <1>2, <1>3, <1>5, <1>7, <1>8, <1>9, EntryRemoved

-----------------------------------------------------------------------------
(* The recovery entry of a rename.                                         *)

\* The recovery entry is stored, which nobody has done before.
LEMMA RecoveryEntryKeeps ==
  ASSUME IInv, NEW c \in Client, RecoveryEntry(c)
  PROVE  IInv'
  <1>0. PICK p0 : p0 = Recovery(c)
    OBVIOUS
  <1>1. /\ Types /\ Local /\ Apart /\ RecoveryOwned /\ RecoveryDistinct /\ InFsckAlone
        /\ EntryHasMetadata /\ MetadataHasEntry /\ Between /\ Renames /\ Versions /\ Claimed
        /\ CopyOfFile /\ OneCopy /\ CopyWithoutEntry /\ OneName /\ LiveNamed
    BY DEF IInv
  <1>2. /\ pc[c] = "recovery" /\ recovery' = recovery \cup {p0}
        /\ md' = md /\ entries' = entries /\ live' = live /\ UNCHANGED counters
    BY <1>0 DEF RecoveryEntry
  <1>3. Renaming(c) /\ pc[c] \notin After
    BY <1>1, <1>2, LabelsTell DEF After
  <1>4. /\ req[c].from \in Name /\ req[c].to \in Name /\ req[c].from # req[c].to
        /\ \A p \in recovery : p[1] # req[c].to /\ p[2] # req[c].to /\ p[1] # req[c].from
    BY <1>1, <1>3, RenameApart
  <1>5. /\ p0 \in Name \X Name /\ p0[1] = req[c].to /\ p0[2] = req[c].from
        /\ p0 \notin recovery
    BY <1>0, <1>4 DEF Recovery
  <1>6. To(c, "oldentry")
    BY <1>0, <1>5 DEF RecoveryEntry, Require, To
  <1>7. Types' /\ Later /\ inodes' = inodes /\ ops' = ops
    BY <1>1, <1>2, <1>5, <1>6 DEF Types, Known, Later, counters, To
  <1>8. "oldentry" \in Label /\ LabelOf(req[c].op, "oldentry")
    BY <1>3 DEF Label, LabelOf, Renaming
  <1>9. /\ Local' /\ Counted' /\ Others(c) /\ Kept(c) /\ KeptNames(c) /\ pc'[c] = "oldentry" /\ broken' = broken
        /\ req' = req
    BY <1>2, <1>6, <1>7, <1>8, GoesTo
  <1>10. /\ md[req[c].to] = Missing
    BY <1>1, <1>2, <1>3 DEF Renames, Entered
  <1>11. \A x \in Client : /\ Renaming(x)' <=> Renaming(x)
                           /\ \A p : Holds(x, p)' <=> Holds(x, p)
    BY <1>9 DEF Renaming, Holds, Recovery
  <1>12. \A x \in Client : \A p : Owns(x, p) => Owns(x, p)'
    BY <1>3, <1>9, <1>11 DEF Owns, Others
  <1>13. Owns(c, p0)'
    BY <1>0, <1>3, <1>9 DEF Owns, Holds, Renaming, Recovery, After
  <1>14. Apart'
    <2>1. \A x \in Client : x # c => Clear(req[x], p0[1], p0[2])
      BY <1>1, <1>3, <1>5 DEF Apart
    <2> QED
      BY <1>1, <1>2, <1>9, <1>11, <1>12, <1>13, <2>1 DEF Apart
  <1>15. RecoveryOwned'
    <2>1. ASSUME NEW x \in Client, Renaming(x)', pc'[x] \in After PROVE Recovery(x)' \in recovery'
      BY <1>0, <1>1, <1>2, <1>9, <1>11, <2>1 DEF RecoveryOwned, Others, Recovery
    <2>2. ASSUME NEW p \in recovery', ~broken' PROVE \E x \in Client : Owns(x, p)'
      BY <1>1, <1>2, <1>9, <1>12, <1>13, <2>2 DEF RecoveryOwned
    <2> QED
      BY <2>1, <2>2 DEF RecoveryOwned
  <1>16. RecoveryDistinct'
    BY <1>1, <1>2, <1>4, <1>5 DEF RecoveryDistinct
  <1>17. InFsckAlone'
    <2>1. req[c].op # "fsck" /\ req'[c].op # "fsck" /\ pc[c] # "idle"
      BY <1>2, <1>3, <1>9 DEF Renaming
    <2> QED
      BY <1>1, <1>9, <2>1, NoFsck
  <1>18. \A k : Moved(k) => Moved(k)'
    <2> SUFFICES ASSUME NEW k, Moved(k) PROVE Moved(k)'
      OBVIOUS
    <2>1. PICK p \in recovery : p[2] = k /\ \A z \in Client : Holds(z, p) => pc[z] \in {"copy", "remove"}
      BY DEF Moved
    <2>2. ~Holds(c, p)
      BY <1>2, <2>1
    <2> QED
      BY <1>2, <1>9, <1>11, <2>1, <2>2 DEF Moved, Others
  <1>19. EntryHasMetadata'
    <2>1. \A x \in Client, k \in Name :
             Unlinking(x, k) \/ Making(x, k) \/ Entering(x, k)
                 => (Unlinking(x, k) \/ Making(x, k) \/ Entering(x, k))'
      BY <1>2, <1>9, <1>11 DEF Unlinking, Making, Entering, Others, Entered
    <2> QED
      BY <1>1, <1>2, <1>9, <2>1 DEF EntryHasMetadata, Types
  <1>20. MetadataHasEntry'
    BY <1>1, <1>2, <1>18 DEF MetadataHasEntry
  <1>21. Between'
    <2>1. \A x \in Client, k \in Name : /\ Unlinking(x, k)' <=> Unlinking(x, k)
                                        /\ Making(x, k)' <=> Making(x, k)
      BY <1>2, <1>9 DEF Unlinking, Making, Others
    <2> QED
      BY <1>1, <1>2, <1>18, <2>1 DEF Between
  <1>22. Renames'
    <2>1. pc[c] \in Entered
      BY <1>2 DEF Entered
    <2> QED
      BY <1>1, <1>2, <1>9, <1>11, <2>1 DEF Renames, Others
  <1>23. Versions' /\ Claimed'
    <2>1. \A x \in Client : Claims(x)' <=> Claims(x)
      BY <1>2, <1>9, <1>11 DEF Claims, Others
    <2>2. Claimed'
      BY <1>1, <1>2, <1>9, <1>11, <2>1 DEF Claimed, Others
    <2> QED
      BY <1>1, <1>2, <1>9, <2>2 DEF Versions, SameVersion
  <1>24. CopyOfFile' /\ CopyWithoutEntry'
    BY <1>1, <1>2, <1>5, <1>9, <1>10 DEF CopyOfFile, CopyWithoutEntry, Busy
  <1>25. OneCopy'
    BY <1>1, <1>2, <1>5, <1>9, <1>10, <1>11 DEF OneCopy, Others
  <1>26. OneName' /\ LiveNamed'
    BY <1>1, <1>2 DEF OneName, LiveNamed
  <1> QED
    BY <1>7, <1>9, <1>14, <1>15, <1>16, <1>17, <1>19, <1>20, <1>21, <1>22, <1>23, <1>24, <1>25, <1>26 DEF IInv

\* The recovery entry is deleted, when the file has one name.
LEMMA FinishKeeps ==
  ASSUME IInv, NEW c \in Client, Finish(c)
  PROVE  IInv'
  <1> DEFINE p0 == Recovery(c)
  <1>1. /\ Types /\ Local /\ Apart /\ RecoveryOwned /\ RecoveryDistinct /\ InFsckAlone
        /\ EntryHasMetadata /\ MetadataHasEntry /\ Between /\ Renames /\ Versions /\ Claimed
        /\ CopyOfFile /\ OneCopy /\ CopyWithoutEntry /\ OneName /\ LiveNamed
    BY DEF IInv
  <1>2. /\ pc[c] = "finish" /\ recovery' = recovery \ {p0}
        /\ md' = md /\ entries' = entries /\ live' = live /\ UNCHANGED counters
    BY DEF Finish
  <1>3. Renaming(c) /\ pc[c] \in After
    BY <1>1, <1>2, LabelsTell DEF After
  <1>4. p0 \in recovery
    BY <1>1, <1>3 DEF RecoveryOwned
  <1>5. Leave(c) /\ broken' = broken
    BY <1>4 DEF Finish, Return
  <1>6. Types' /\ Later /\ inodes' = inodes /\ ops' = ops
    BY <1>1, <1>2, <1>5 DEF Types, Known, Later, counters
  <1>7. Local' /\ Counted' /\ Others(c) /\ Over(c) /\ req'[c].op = "none" /\ pc'[c] = "idle"
    BY <1>5, <1>6, Leaves
  <1>8. \A x \in Client : Renaming(x)' => x # c /\ Renaming(x) /\ req'[x] = req[x] /\ pc'[x] = pc[x]
    BY <1>7 DEF Renaming, Others
  <1>9. \A x \in Client : \A p : x # c => (Owns(x, p)' <=> Owns(x, p)) /\ (Holds(x, p)' <=> Holds(x, p))
    BY <1>7 DEF Owns, Holds, Renaming, Recovery, Others
  <1>10. \A x \in Client : x # c /\ Renaming(x) => Recovery(x) # p0
    BY <1>1, <1>3, RenameApart DEF Recovery
  <1> HIDE DEF p0
  <1>11. Apart'
    <2>1. \A m, n : Clear(req'[c], m, n)
      BY <1>7, NothingIsClear
    <2> QED
      BY <1>1, <1>2, <1>7, <1>8, <1>9, <2>1 DEF Apart, Others
  <1>12. RecoveryOwned'
    <2>1. ASSUME NEW p \in recovery', ~broken' PROVE \E x \in Client : Owns(x, p)'
      <3>1. PICK x \in Client : Owns(x, p)
        BY <1>1, <1>2, <1>5, <2>1 DEF RecoveryOwned
      <3>2. x # c
        BY <1>2, <2>1, <3>1 DEF Owns, Holds, p0
      <3> QED
        BY <1>9, <3>1, <3>2
    <2>2. ASSUME NEW x \in Client, Renaming(x)', pc'[x] \in After PROVE Recovery(x)' \in recovery'
      <3>1. Recovery(x)' = Recovery(x) /\ Recovery(x) \in recovery /\ Recovery(x) # p0
        BY <1>1, <1>8, <1>10, <2>2 DEF RecoveryOwned, Recovery
      <3> QED
        BY <1>2, <3>1
    <2> QED
      BY <2>1, <2>2 DEF RecoveryOwned
  <1>13. RecoveryDistinct'
    BY <1>1, <1>2 DEF RecoveryDistinct
  <1>14. InFsckAlone'
    <2>1. req[c].op # "fsck" /\ req'[c].op # "fsck" /\ pc[c] # "idle"
      BY <1>2, <1>3, <1>7 DEF Renaming
    <2> QED
      BY <1>1, <1>7, <2>1, NoFsck
  <1>15. \A k : Moved(k) => Moved(k)'
    <2> SUFFICES ASSUME NEW k, Moved(k) PROVE Moved(k)'
      OBVIOUS
    <2>1. PICK p \in recovery : p[2] = k /\ \A z \in Client : Holds(z, p) => pc[z] \in {"copy", "remove"}
      BY DEF Moved
    <2>2. ~Holds(c, p)
      BY <1>2, <2>1
    <2>3. p # p0
      BY <1>3, <2>2 DEF Holds, p0
    <2>4. \A z \in Client : Holds(z, p)' => z # c /\ Holds(z, p) /\ pc'[z] = pc[z]
      BY <1>8, <1>9 DEF Holds
    <2> QED
      BY <1>2, <2>1, <2>3, <2>4 DEF Moved
  <1>16. EntryHasMetadata'
    <2>1. \A x \in Client, k \in Name :
             Unlinking(x, k) \/ Making(x, k) \/ Entering(x, k)
                 => (Unlinking(x, k) \/ Making(x, k) \/ Entering(x, k))'
      BY <1>2, <1>7 DEF Unlinking, Making, Entering, Others, Entered, Renaming
    <2> QED
      BY <1>1, <1>2, <1>5, <2>1 DEF EntryHasMetadata, Types
  <1>17. MetadataHasEntry'
    BY <1>1, <1>2, <1>15 DEF MetadataHasEntry
  <1>18. Between'
    <2>1. \A x \in Client, k \in Name : /\ Unlinking(x, k)' => Unlinking(x, k)
                                        /\ Making(x, k)' => Making(x, k)
      BY <1>2, <1>7 DEF Unlinking, Making, Others
    <2> QED
      BY <1>1, <1>2, <1>15, <2>1 DEF Between
  <1>19. Renames'
    BY <1>1, <1>2, <1>8 DEF Renames
  <1>20. Versions'
    <2>1. \A x \in Client : req'[x].op = "setattr" => x # c /\ req'[x] = req[x]
      BY <1>7 DEF Others
    <2> QED
      BY <1>1, <1>2, <2>1 DEF Versions, SameVersion
  <1>21. Claimed'
    BY <1>1, <1>2, <1>8 DEF Claimed, Claims
  <1>22. CopyOfFile' /\ OneCopy' /\ LiveNamed'
    BY <1>1, <1>2, <1>8 DEF CopyOfFile, OneCopy, LiveNamed
  <1>23. CopyWithoutEntry'
    <2>1. Busy
      BY <1>3 DEF Busy, Renaming
    <2> QED
      BY <1>1, <1>2, <2>1 DEF CopyWithoutEntry
  <1>24. OneName'
    <2>1. md[req[c].to] = Missing \/ md[req[c].from] = Missing
      BY <1>1, <1>2, <1>3 DEF Renames
    <2>2. md[req[c].to].ino = 0 \/ md[req[c].from].ino = 0
      BY <2>1, NothingHeld
    <2> QED
      BY <1>1, <1>2, <2>2 DEF OneName, p0, Recovery
  <1> QED
    BY <1>6, <1>7, <1>11, <1>12, <1>13, <1>14, <1>16, <1>17, <1>18, <1>19, <1>20, <1>21, <1>22, <1>23, <1>24 DEF IInv

-----------------------------------------------------------------------------
(* Synchronization point: the old entry of a rename.                       *)

LEMMA OldEntryKeeps ==
  ASSUME IInv, NEW c \in Client, OldEntry(c)
  PROVE  IInv'
  <1> DEFINE n == req[c].from
  <1>1. /\ Types /\ Local /\ Apart /\ RecoveryOwned /\ RecoveryDistinct /\ InFsckAlone
        /\ EntryHasMetadata /\ MetadataHasEntry /\ Between /\ Renames /\ Versions /\ Claimed
        /\ CopyOfFile /\ OneCopy /\ CopyWithoutEntry /\ OneName /\ LiveNamed
    BY DEF IInv
  <1>2. /\ pc[c] = "oldentry" /\ entries' = entries \ {n}
        /\ md' = md /\ recovery' = recovery /\ live' = live /\ UNCHANGED counters
    BY DEF OldEntry
  <1>3. Renaming(c) /\ pc[c] \in After /\ pc[c] # "idle" /\ req[c].op # "fsck"
    BY <1>1, <1>2, LabelsTell DEF After, Renaming
  <1>4. req[c].source.md.type # "T"
    BY <1>1 DEF Local, Request, Info, Md
  <1>5. Later /\ inodes' = inodes /\ ops' = ops
    BY <1>1, <1>2 DEF Types, Later, counters
  <1>6. CASE n \notin entries
    <2>1. To(c, "rollback") /\ SameKeys
      BY <1>2, <1>6 DEF OldEntry, SameKeys
    <2>2. Types'
      BY <1>1, <1>2, <2>1 DEF Types, Known, counters, To, SameKeys
    <2>3. "rollback" \in Label /\ LabelOf(req[c].op, "rollback")
      BY <1>3 DEF Label, LabelOf, Renaming
    <2>4. /\ Local' /\ Counted' /\ Others(c) /\ Kept(c) /\ KeptNames(c) /\ pc'[c] = "rollback" /\ broken' = broken
      BY <1>2, <1>5, <2>1, <2>2, <2>3, GoesTo
    <2> QED
      BY <1>2, <1>3, <2>1, <2>2, <2>4, GoKeeps DEF Kept
  <1>7. CASE n \in entries
    <2>1. To(c, "copy")
      BY <1>4, <1>7 DEF OldEntry
    <2>2. Types'
      BY <1>1, <1>2, <2>1 DEF Types, Known, counters, To
    <2>3. "copy" \in Label /\ LabelOf(req[c].op, "copy")
      BY <1>3 DEF Label, LabelOf, Renaming
    <2>4. /\ Local' /\ Counted' /\ Others(c) /\ Kept(c) /\ KeptNames(c) /\ pc'[c] = "copy" /\ broken' = broken
          /\ req' = req
      BY <1>2, <1>5, <2>1, <2>2, <2>3, GoesTo
    <2>5. \A x \in Client : /\ Renaming(x)' <=> Renaming(x)
                            /\ \A p : Holds(x, p)' <=> Holds(x, p)
      BY <2>4 DEF Renaming, Holds, Recovery
    <2>6. /\ n \in Name /\ req[c].to \in Name /\ n # req[c].to
          /\ \A x \in Client \ {c} :
                /\ req[x].op = "create" => req[x].from # n
                /\ Renaming(x) => req[x].to # n /\ req[x].to # req[c].to
      BY <1>1, <1>3, RenameApart
    <2>7. Apart' /\ RecoveryOwned' /\ RecoveryDistinct'
      <3>1. pc'[c] \in After
        BY <2>4 DEF After
      <3> QED
        BY <1>1, <1>2, <1>3, <2>4, <3>1, NamesKept DEF RecoveryDistinct
    <2>8. InFsckAlone'
      BY <1>1, <1>3, <2>4, NoFsck
    <2>9. \A k : Moved(k) => Moved(k)'
      BY <1>2, <2>4, <2>5 DEF Moved, Others
    <2>10. ASSUME NEW k, k = n PROVE Moved(k)'
      <3>1. PICK p : p = Recovery(c)
        OBVIOUS
      <3>2. p \in recovery /\ p[1] = req[c].to /\ p[2] = n
        BY <1>1, <1>3, <3>1 DEF RecoveryOwned, Recovery
      <3>3. \A z \in Client : Holds(z, p) => z = c
        BY <2>6, <3>2 DEF Holds, Recovery
      <3> QED
        BY <1>2, <2>4, <2>5, <2>10, <3>2, <3>3 DEF Moved
    <2>11. EntryHasMetadata'
      <3>1. \A x \in Client, k \in Name :
               Unlinking(x, k) \/ Making(x, k) \/ Entering(x, k)
                   => (Unlinking(x, k) \/ Making(x, k) \/ Entering(x, k))'
        BY <1>2, <2>4, <2>5 DEF Unlinking, Making, Entering, Others, Entered
      <3> QED
        BY <1>1, <1>2, <2>4, <3>1 DEF EntryHasMetadata, Types
    <2>12. MetadataHasEntry'
      <3> HIDE DEF n
      <3>1. \A k \in Name : k \notin entries' => k = n \/ k \notin entries
        BY <1>2
      <3>2. ASSUME NEW k \in Name, md'[k] # Missing, k \notin entries' PROVE Moved(k)'
        <4>1. CASE k = n
          BY <2>10, <4>1
        <4>2. CASE k # n
          BY <1>1, <1>2, <2>9, <3>1, <3>2, <4>2 DEF MetadataHasEntry
        <4> QED BY <4>1, <4>2
      <3> QED
        BY <3>2 DEF MetadataHasEntry
    <2>13. Between'
      <3>1. \A x \in Client, k \in Name : /\ Unlinking(x, k)' <=> Unlinking(x, k)
                                          /\ Making(x, k)' <=> Making(x, k)
        BY <1>2, <2>4 DEF Unlinking, Making, Others
      <3>2. \A x \in Client : ~Making(x, n)
        BY <1>1, <1>2, <2>6, LabelsTell DEF Making
      <3>3. ASSUME NEW k \in Name, k \in entries \/ Moved(k) PROVE k \in entries' \/ Moved(k)'
        <4>1. CASE k = n
          BY <2>10, <4>1
        <4>2. CASE k # n
          BY <1>2, <2>9, <3>3, <4>2
        <4> QED BY <4>1, <4>2
      <3>4. \A x \in Client, k \in Name : Making(x, k)' => k \in entries' /\ md'[k] = Missing
        BY <1>1, <1>2, <3>1, <3>2 DEF Between
      <3>5. \A x \in Client, k \in Name : Unlinking(x, k)' => md'[k] = Missing /\ (k \in entries' \/ Moved(k)')
        BY <1>1, <1>2, <3>1, <3>3 DEF Between
      <3> QED
        BY <1>1, <3>1, <3>4, <3>5 DEF Between
    <2>14. Renames'
      <3>1. pc[c] \in Entered
        BY <1>2 DEF Entered
      <3>2. \A x \in Client : Renaming(x) => req[x].to # n
        BY <2>6
      <3> QED
        BY <1>1, <1>2, <2>4, <2>5, <2>6, <3>1, <3>2 DEF Renames, Others
    <2>15. Versions'
      BY <1>1, <1>2, <2>4 DEF Versions, SameVersion
    <2>16. Claimed'
      <3>1. \A x \in Client : Claims(x)' => Claims(x)
        BY <1>2, <1>3, <1>7, <2>4, <2>5 DEF Claims, Others
      <3>2. \A x \in Client : Renaming(x) /\ pc[x] = "copy" => req[x].from # n
        BY <1>1, <1>7 DEF Renames
      <3> QED
        BY <1>1, <1>2, <2>4, <2>5, <3>1, <3>2 DEF Claimed, Others
    <2>17. CopyOfFile' /\ OneName' /\ LiveNamed'
      BY <1>1, <1>2 DEF CopyOfFile, OneName, LiveNamed
    <2>18. Busy
      BY <1>3 DEF Busy, Renaming
    <2>19. CopyWithoutEntry'
      BY <1>1, <1>2, <2>18 DEF CopyWithoutEntry
    <2>20. OneCopy'
      <3>1. \A p \in recovery : p[2] = n => md[p[1]] = Missing
        BY <1>1, <1>7, <2>18 DEF CopyWithoutEntry
      <3> QED
        BY <1>1, <1>2, <2>4, <2>5, <3>1 DEF OneCopy, Others
    <2> QED
      BY <2>2, <2>4, <2>7, <2>8, <2>11, <2>12, <2>13, <2>14, <2>15, <2>16, <2>17, <2>19, <2>20 DEF IInv
  <1> QED
    BY <1>6, <1>7

-----------------------------------------------------------------------------
(* The metadata is stored at the new name.                                 *)

LEMMA CopyKeeps ==
  ASSUME IInv, NEW c \in Client, Copy(c)
  PROVE  IInv'
  <1>0. PICK n, f, i : n = req[c].to /\ f = req[c].from /\ i = req[c].source.md.ino
    OBVIOUS
  <1>1. /\ Types /\ Local /\ Apart /\ RecoveryOwned /\ RecoveryDistinct /\ InFsckAlone
        /\ EntryHasMetadata /\ MetadataHasEntry /\ Between /\ Renames /\ Versions /\ Claimed
        /\ CopyOfFile /\ OneCopy /\ CopyWithoutEntry /\ OneName /\ LiveNamed
    BY DEF IInv
  <1>2. /\ pc[c] = "copy" /\ entries' = entries /\ recovery' = recovery /\ live' = live
        /\ UNCHANGED counters
    BY DEF Copy
  <1>3. Renaming(c) /\ pc[c] \in After /\ pc[c] # "idle" /\ req[c].op # "fsck"
    BY <1>1, <1>2, LabelsTell DEF After, Renaming
  <1>4. /\ n \in Name /\ f \in Name /\ n # f /\ req[c].target.key = n /\ i # 0
        /\ req[c].source.md \in Md /\ req[c].target.md \in Md
        /\ Known(req[c].source.md) /\ Known(req[c].target.md)
    BY <1>0, <1>1, <1>2, <1>3 DEF Local, LocalOf, Renaming, Request, Info
  <1>5. md[n] = Missing /\ n \in entries /\ f \notin entries
    BY <1>0, <1>1, <1>2, <1>3 DEF Renames, Entered
  <1>6. PICK m : m = [req[c].source.md EXCEPT !.version = req[c].target.md.version]
    OBVIOUS
  <1>7. m \in Md /\ m.ino = i /\ m.version <= versions /\ m.type = "POSIX" /\ i <= inodes
    BY <1>0, <1>4, <1>6 DEF Md, Known
  <1>8. To(c, "remove") /\ md' = [md EXCEPT ![n] = m]
    BY <1>4, <1>5, <1>6 DEF Copy, Require, To, Free
  <1>9. /\ \A k \in Name : md'[k] = IF k = n THEN m ELSE md[k]
        /\ md' \in [Key -> Md] /\ (\A j \in Inode : md'[j] = Missing)
        /\ m # Missing
    BY <1>1, <1>4, <1>7, <1>8, NothingHeld DEF Types, Key
  <1>10. Types' /\ Later /\ inodes' = inodes /\ ops' = ops
    <2>1. inodes' = inodes /\ versions' = versions /\ ops' = ops /\ crashes' = crashes /\ broken' = broken
      BY <1>2, <1>8 DEF counters, To
    <2>2. \A k \in Name : Known(md[k])'
      BY <1>1, <1>4, <1>7, <1>9, <2>1 DEF Types, Known
    <2> QED
      BY <1>1, <1>2, <1>9, <2>1, <2>2 DEF Types, Later
  <1>11. "remove" \in Label /\ LabelOf(req[c].op, "remove")
    BY <1>3 DEF Label, LabelOf, Renaming
  <1>12. /\ Local' /\ Counted' /\ Others(c) /\ Kept(c) /\ KeptNames(c) /\ pc'[c] = "remove" /\ broken' = broken
         /\ req' = req
    BY <1>2, <1>8, <1>10, <1>11, GoesTo
  <1>13. \A x \in Client : /\ Renaming(x)' <=> Renaming(x)
                           /\ \A p : Holds(x, p)' <=> Holds(x, p)
    BY <1>12 DEF Renaming, Holds, Recovery
  <1>14. /\ \A x \in Client \ {c} :
               /\ req[x].op = "create" => req[x].from # n
               /\ req[x].op = "unlink" => req[x].from # n
               /\ req[x].op = "setattr" => req[x].from # n
               /\ Renaming(x) => req[x].to # n /\ req[x].from # n
         /\ \A p \in recovery : p # <<n, f>> => p[1] # n /\ p[2] # n
    BY <1>0, <1>1, <1>3, RenameApart DEF Recovery
  <1>15. <<n, f>> \in recovery
    BY <1>0, <1>1, <1>3 DEF RecoveryOwned, Recovery
  <1>16. Apart' /\ RecoveryOwned' /\ RecoveryDistinct'
    <2>1. pc'[c] \in After
      BY <1>12 DEF After
    <2> QED
      BY <1>1, <1>2, <1>3, <1>12, <2>1, NamesKept DEF RecoveryDistinct
  <1>17. InFsckAlone'
    BY <1>1, <1>3, <1>12, NoFsck
  <1>18. \A k : Moved(k) => Moved(k)'
    BY <1>2, <1>12, <1>13 DEF Moved, Others
  <1>19. \A x \in Client, k \in Name : /\ Unlinking(x, k)' <=> Unlinking(x, k)
                                       /\ Making(x, k)' <=> Making(x, k)
    BY <1>2, <1>12 DEF Unlinking, Making, Others
  <1>20. \A x \in Client : ~Unlinking(x, n) /\ ~Making(x, n)
    <2> SUFFICES ASSUME NEW x \in Client PROVE ~Unlinking(x, n) /\ ~Making(x, n)
      OBVIOUS
    <2>1. CASE x = c
      BY <1>2, <2>1 DEF Unlinking, Making
    <2>2. CASE x # c
      BY <1>1, <1>14, <2>2, LabelsTell DEF Unlinking, Making
    <2> QED BY <2>1, <2>2
  <1>21. EntryHasMetadata'
    <2>1. \A x \in Client, k \in Name : k # n /\ Entering(x, k) => Entering(x, k)'
      BY <1>0, <1>12, <1>13 DEF Entering, Others
    <2> QED
      BY <1>1, <1>2, <1>9, <1>12, <1>19, <2>1 DEF EntryHasMetadata, Types
  <1>22. MetadataHasEntry'
    BY <1>1, <1>2, <1>5, <1>9, <1>18 DEF MetadataHasEntry
  <1>23. Between'
    BY <1>1, <1>2, <1>9, <1>18, <1>19, <1>20 DEF Between
  <1>24. Renames'
    <2>1. ASSUME NEW x \in Client, Renaming(x), x # c
          PROVE  /\ pc'[x] = pc[x] /\ md'[req[x].to] = md[req[x].to] /\ md'[req[x].from] = md[req[x].from]
      BY <1>1, <1>9, <1>12, <1>14, <2>1 DEF Others, Local, LocalOf, Renaming
    <2>2. pc'[c] \notin Entered /\ md'[n].ino = i /\ md'[f] = md[f]
      BY <1>4, <1>7, <1>9, <1>12 DEF Entered
    <2> QED
      BY <1>0, <1>1, <1>2, <1>3, <1>5, <1>12, <1>13, <2>1, <2>2 DEF Renames
  <1>25. Versions'
    <2>1. \A x \in Client : req[x].op = "setattr" => md'[req[x].from] = md[req[x].from]
      BY <1>1, <1>3, <1>9, <1>14 DEF Local, LocalOf, Renaming
    <2> QED
      BY <1>1, <1>12, <2>1 DEF Versions, SameVersion
  <1>26. Claims(c) /\ \A k \in Name : k # f => md[k].ino # i
    BY <1>0, <1>1, <1>2, <1>3 DEF Claims, Claimed
  <1>27. Claimed'
    <2>1. \A x \in Client : Claims(x)' => x # c /\ Claims(x)
      BY <1>0, <1>2, <1>3, <1>5, <1>12, <1>13 DEF Claims, Others
    <2>2. \A x \in Client : x # c /\ Claims(x) => req[x].source.md.ino # i
      <3> SUFFICES ASSUME NEW x \in Client, x # c, Claims(x), req[x].source.md.ino = i PROVE FALSE
        OBVIOUS
      <3>1. req[x].from = f
        BY <1>0, <1>1, <1>26 DEF Claimed
      <3>2. pc[x] = "copy" /\ Renaming(x)
        BY <1>5, <3>1 DEF Claims
      <3> QED
        BY <1>0, <1>1, <1>2, <1>3, <3>1, <3>2 DEF Claimed
    <2> QED
      BY <1>1, <1>7, <1>9, <1>12, <1>13, <2>1, <2>2 DEF Claimed, Others
  <1>28. \A p \in recovery : p[1] \in Name /\ p[2] \in Name /\ (p # <<n, f>> => md'[p[1]] = md[p[1]] /\ md'[p[2]] = md[p[2]])
    BY <1>1, <1>9, <1>14 DEF Types
  <1>29. md'[n] = m /\ md'[f] = md[f] /\ (md[f] # Missing => md[f].ino = i)
    BY <1>0, <1>1, <1>3, <1>4, <1>9 DEF Renames
  <1>30. CopyOfFile'
    BY <1>1, <1>2, <1>7, <1>28, <1>29 DEF CopyOfFile
  <1>31. OneCopy'
    <2>1. \A p \in recovery : p[2] = f => md[p[1]] = Missing
      BY <1>0, <1>1, <1>2, <1>3 DEF OneCopy
    <2>2. \A p, q \in recovery : p # q /\ p[2] = q[2] => md'[p[1]] = Missing \/ md'[q[1]] = Missing
      BY <1>1, <1>28, <2>1 DEF OneCopy
    <2>3. \A x \in Client : x # c /\ Renaming(x) /\ pc[x] = "copy" => req[x].from # f
      BY <1>0, <1>1, <1>2, <1>3 DEF Claimed
    <2>4. \A x \in Client, p \in recovery :
             Renaming(x)' /\ pc'[x] = "copy" /\ p[2] = req'[x].from => md'[p[1]] = Missing
      BY <1>1, <1>12, <1>13, <1>28, <2>3 DEF OneCopy, Others
    <2> QED
      BY <1>2, <2>2, <2>4 DEF OneCopy
  <1>32. CopyWithoutEntry'
    <2>1. Busy
      BY <1>3 DEF Busy, Renaming
    <2> QED
      BY <1>1, <1>2, <1>5, <1>28, <2>1 DEF CopyWithoutEntry
  <1>33. OneName'
    BY <1>1, <1>2, <1>4, <1>7, <1>9, <1>15, <1>26 DEF OneName
  <1>34. LiveNamed'
    <2>1. \A j \in live : j # 0
      BY <1>1 DEF Types
    <2> QED
      BY <1>1, <1>2, <1>5, <1>9, <2>1, NothingHeld DEF LiveNamed
  <1> QED
    BY <1>10, <1>12, <1>16, <1>17, <1>21, <1>22, <1>23, <1>24, <1>25, <1>27, <1>30, <1>31, <1>32, <1>33, <1>34 DEF IInv

-----------------------------------------------------------------------------
(* Attributes, and the lookups that requests make on the way.              *)

LEMMA SetattrKeeps ==
  ASSUME IInv, NEW c \in Client, Setattr(c)
  PROVE  IInv'
  <1>0. PICK n : n = req[c].from
    OBVIOUS
  <1>1. /\ Types /\ Counted /\ Local /\ Apart /\ RecoveryOwned /\ RecoveryDistinct /\ InFsckAlone
        /\ EntryHasMetadata /\ MetadataHasEntry /\ Between /\ Renames /\ Versions /\ Claimed
        /\ CopyOfFile /\ OneCopy /\ CopyWithoutEntry /\ OneName /\ LiveNamed
    BY DEF IInv
  <1>2. pc[c] = "setattr" /\ entries' = entries /\ recovery' = recovery /\ live' = live
    BY DEF Setattr
  <1>3. /\ req[c].op = "setattr" /\ n \in Name /\ req[c].source.key = n /\ pc[c] # "idle"
        /\ req[c].source.md \in Md /\ Known(req[c].source.md) /\ req[c].source.md.ino # 0
        /\ pc[c] \notin Bare
    BY <1>0, <1>1, <1>2, LabelsTell DEF Local, LocalOf, Request, Info, Bare, After
  <1>4. CASE ~SameVersion(n, req[c].source.md.version)
    <2>1. To(c, "again") /\ md' = md /\ UNCHANGED counters
      BY <1>3, <1>4 DEF Setattr
    <2>2. Types' /\ Later /\ inodes' = inodes /\ ops' = ops /\ SameKeys
      BY <1>1, <1>2, <2>1 DEF Types, Known, Later, counters, To, SameKeys
    <2>3. "again" \in Label /\ LabelOf(req[c].op, "again")
      BY <1>3 DEF Label, LabelOf
    <2>4. /\ Local' /\ Counted' /\ Others(c) /\ Kept(c) /\ KeptNames(c) /\ pc'[c] = "again" /\ broken' = broken
      BY <1>2, <1>3, <2>1, <2>2, <2>3, GoesTo
    <2>5. req'[c].source = req[c].source /\ req[c].op # "fsck"
      BY <1>3, <2>4 DEF Kept
    <2> QED
      BY <1>3, <2>2, <2>4, <2>5, GoKeeps
  <1>5. CASE SameVersion(n, req[c].source.md.version)
    <2>1. PICK m : m = [req[c].source.md EXCEPT !.version = versions + 1]
      OBVIOUS
    <2>2. /\ md' = [md EXCEPT ![n] = m] /\ versions' = versions + 1 /\ Leave(c) /\ broken' = broken
          /\ inodes' = inodes /\ ops' = ops /\ crashes' = crashes
      BY <1>3, <1>5, <2>1 DEF Setattr, Put, Stored, NewVersion, Return
    <2>3. md[n] # Missing /\ md[n].ino = req[c].source.md.ino
      BY <1>0, <1>1, <1>3, <1>5 DEF Versions, SameVersion
    <2>4. /\ m \in Md /\ m.ino = md[n].ino /\ m.version = versions + 1 /\ m.type = "POSIX"
          /\ m.ino # 0 /\ m # Missing /\ m.ino <= inodes
      BY <1>1, <1>3, <2>1, <2>3, NothingHeld DEF Md, Types, Known
    <2>5. /\ \A k \in Name : md'[k] = IF k = n THEN m ELSE md[k]
          /\ md' \in [Key -> Md] /\ (\A j \in Inode : md'[j] = Missing)
      BY <1>1, <1>3, <2>2, <2>4 DEF Types, Key
    <2>6. Later
      BY <1>1, <2>2 DEF Later, Types
    <2>7. Types'
      <3>1. \A k \in Name : Known(md[k])'
        <4> SUFFICES ASSUME NEW k \in Name PROVE Known(md[k])'
          OBVIOUS
        <4>1. CASE k = n
          BY <1>1, <2>2, <2>4, <2>5, <4>1 DEF Known, Types
        <4>2. CASE k # n
          <5>1. md[k] \in Md /\ Known(md[k]) /\ md'[k] = md[k]
            BY <1>1, <2>5, <4>2 DEF Types, Key
          <5> QED
            BY <1>1, <2>6, <5>1, KnownStays DEF Known
        <4> QED BY <4>1, <4>2
      <3> QED
        BY <1>1, <1>2, <2>2, <2>5, <3>1 DEF Types
    <2>8. Local' /\ Counted' /\ Others(c) /\ Over(c) /\ req'[c].op = "none" /\ pc'[c] = "idle"
      BY <2>2, <2>6, <2>7, Leaves
    <2>9. \A k \in Name : md'[k].ino = md[k].ino /\ (md'[k] = Missing <=> md[k] = Missing)
      BY <2>3, <2>4, <2>5
    <2>10. \A x \in Client : Renaming(x)' => x # c /\ Renaming(x) /\ req'[x] = req[x] /\ pc'[x] = pc[x]
                                             /\ req[x].from \in Name /\ req[x].to \in Name
      BY <1>1, <2>8 DEF Renaming, Others, Local, LocalOf
    <2>11. Apart' /\ RecoveryOwned' /\ RecoveryDistinct'
      <3>1. pc[c] \notin After
        BY <1>2 DEF After
      <3> QED
        BY <1>1, <1>2, <2>2, <2>8, <3>1, NamesLeft DEF RecoveryDistinct
    <2>12. InFsckAlone'
      BY <1>1, <1>3, <2>8, NoFsck
    <2>13. \A k : Moved(k) => Moved(k)'
      BY <1>2, <2>8 DEF Moved, Holds, Renaming, Others, Recovery
    <2>14. \A x \in Client, k \in Name : /\ Unlinking(x, k)' <=> Unlinking(x, k)
                                         /\ Making(x, k)' <=> Making(x, k)
                                         /\ Entering(x, k) => Entering(x, k)'
      BY <1>2, <1>3, <2>8 DEF Unlinking, Making, Entering, Renaming, Others
    <2>15. EntryHasMetadata' /\ MetadataHasEntry'
      BY <1>1, <1>2, <2>2, <2>9, <2>13, <2>14 DEF EntryHasMetadata, MetadataHasEntry, Types
    <2>16. Between'
      BY <1>1, <1>2, <2>9, <2>13, <2>14 DEF Between
    <2>17. Renames'
      BY <1>1, <1>2, <2>9, <2>10 DEF Renames
    <2>18. Versions'
      <3>1. ASSUME NEW x \in Client, req'[x].op = "setattr",
                   SameVersion(req[x].from, req[x].source.md.version)'
            PROVE  md'[req'[x].from].ino = req'[x].source.md.ino
        <4>1. x # c /\ req'[x] = req[x] /\ req[x].from \in Name /\ req[x].op = "setattr"
          BY <1>1, <2>8, <3>1 DEF Others, Local, LocalOf
        <4>2. req[x].source.md \in Md /\ req[x].source.md.version <= versions
          BY <1>1 DEF Local, LocalOf, Known, Request, Info
        <4>3. req[x].source.md.version # versions + 1
          BY <1>1, <4>2 DEF Types, Md
        <4>4. req[x].from # n
          BY <2>4, <2>5, <3>1, <4>1, <4>3 DEF SameVersion
        <4> QED
          BY <1>1, <2>5, <3>1, <4>1, <4>4 DEF Versions, SameVersion
      <3> QED
        BY <3>1 DEF Versions
    <2>19. Claimed'
      BY <1>1, <1>2, <2>9, <2>10 DEF Claimed, Claims
    <2>20. CopyOfFile' /\ OneCopy' /\ CopyWithoutEntry'
      <3>1. \A p \in recovery : p[1] \in Name /\ p[2] \in Name
        BY <1>1 DEF Types
      <3>2. Busy
        BY <1>3 DEF Busy
      <3> QED
        BY <1>1, <1>2, <2>9, <2>10, <3>1, <3>2 DEF CopyOfFile, OneCopy, CopyWithoutEntry
    <2>21. OneName' /\ LiveNamed'
      BY <1>1, <1>2, <2>9 DEF OneName, LiveNamed
    <2> QED
      BY <2>7, <2>8, <2>11, <2>12, <2>15, <2>16, <2>17, <2>18, <2>19, <2>20, <2>21 DEF IInv
  <1> QED
    BY <1>4, <1>5

\* A step that only changes what the client holds.
LEMMA HoldKeeps ==
  ASSUME IInv, NEW c \in Client, NEW r \in Request, NEW label \in Label,
         Hold(c, r), Goto(c, label), SameKeys, UNCHANGED <<counters, broken>>,
         LabelOf(r.op, label), r.op = req[c].op, r.from = req[c].from, r.to = req[c].to,
         r.op # "fsck", r.op # "none", pc[c] \notin Bare,
         label \in {"lookup", "delete", "newentry", "setattr"},
         \/ r.source = req[c].source
         \/ r.op = "setattr" /\ r.source.key = r.from /\ r.source.md = md[r.from] /\ r.source.md.ino # 0,
         r.target = req[c].target \/ (r.to \in Name /\ r.target.md = md[r.to]),
         r.op = "unlink" => r.name = r.from,
         r.op = "rename" => r.name = r.to /\ r.target.key = r.to,
         label = "delete" => r.removed.key = r.name,
         label = "newentry" => md[r.to] = Missing
  PROVE  IInv'
  <1>1. Types /\ Local /\ Counted
    BY DEF IInv
  <1>2. Types' /\ Later /\ inodes' = inodes /\ versions' = versions /\ ops' = ops /\ broken' = broken
    BY <1>1 DEF Types, Known, Later, counters, SameKeys
  <1>3. req'[c] = r /\ pc'[c] = label
    BY <1>1 DEF Local, Hold, Goto
  <1>4. req[c].op # "none" /\ pc[c] # "idle"
    BY <1>1, LabelsTell
  <1>5. LocalOf(c)
    BY <1>1 DEF Local
  <1>6. /\ r.from \in Name /\ (r.op = "rename" => r.to \in Name /\ r.from # r.to)
        /\ r.op \in {"rename", "setattr"} => r.source.key = r.from /\ r.source.md.ino # 0
        /\ r.op = "create" => r.source.key = r.from
    BY <1>5 DEF LocalOf, Request
  <1>7. LocalOf(c)'
    <2>1. Known(r.source.md)
      BY <1>1, <1>5, <1>6 DEF LocalOf, Types
    <2>2. Known(r.target.md)
      BY <1>1, <1>5 DEF LocalOf, Types
    <2>3. Known(req[c].source.md)' /\ Known(req[c].target.md)'
      BY <1>2, <1>3, <2>1, <2>2 DEF Known
    <2> QED
      BY <1>3, <1>6, <2>3 DEF LocalOf
  <1>8. Local' /\ Others(c)
    BY <1>1, <1>2, <1>7, ClientMoves
  <1>9. Counted'
    BY <1>1, <1>2, <1>3, <1>8, CountedKept, Bounds DEF Types
  <1>10. KeptNames(c) /\ req[c].op # "fsck"
    BY <1>3 DEF KeptNames
  <1>11. \/ req'[c].source = req[c].source
         \/ req[c].op = "setattr" /\ req'[c].source.md = md[req[c].from]
    <2>1. CASE r.source = req[c].source
      BY <1>3, <2>1
    <2>2. CASE r.op = "setattr" /\ r.source.md = md[r.from]
      BY <1>3, <2>2
    <2> QED BY <2>1, <2>2
  <1>12. label = "newentry" => md[req[c].to] = Missing
    OBVIOUS
  <1> QED
    BY <1>2, <1>3, <1>4, <1>8, <1>9, <1>10, <1>11, <1>12, GoKeeps

LEMMA UnlinkLookupKeeps ==
  ASSUME IInv, NEW c \in Client, UnlinkLookup(c)
  PROVE  IInv'
  <1> DEFINE n == req[c].name
  <1>1. Types /\ Local /\ pc[c] = "lookup" /\ SameKeys /\ UNCHANGED counters
    BY DEF IInv, UnlinkLookup, SameKeys, keys
  <1>2. /\ n \in Name /\ req[c].op \in {"unlink", "rename"} /\ pc[c] # "idle" /\ pc[c] \notin Bare
        /\ req[c].op = "unlink" => n = req[c].from
        /\ req[c].op = "rename" => n = req[c].to /\ req[c].target.key = req[c].to
    BY <1>1, LabelsTell DEF Renaming, Bare, After, Local, LocalOf
  <1>3. /\ lookup(n) \in Info /\ lookup(n).key = n /\ lookup(n).md = md[n]
        /\ md[n].type # "T"
    BY <1>1, <1>2, LookupIsRaw DEF Md
  <1>4. CASE ~Found(lookup(n))
    <2>1. Return(c)
      BY <1>4 DEF UnlinkLookup
    <2> QED
      BY <1>1, <1>2, <2>1, ReturnKeeps
  <1>5. CASE Found(lookup(n))
    <2>1. PICK r : r = [req[c] EXCEPT !.removed = lookup(n)]
      OBVIOUS
    <2>2. /\ r \in Request /\ r.op = req[c].op /\ r.from = req[c].from /\ r.to = req[c].to
          /\ r.name = n /\ r.source = req[c].source /\ r.target = req[c].target
          /\ r.removed = lookup(n)
      <3>1. req[c] \in Request
        BY <1>1 DEF Local
      <3> QED
        BY <1>3, <2>1, <3>1 DEF Request
    <2>3. Hold(c, r) /\ Goto(c, "delete") /\ UNCHANGED <<counters, broken>>
      BY <1>1, <1>3, <1>5, <2>1 DEF UnlinkLookup
    <2>4. "delete" \in Label /\ LabelOf(r.op, "delete")
      BY <1>2, <2>2 DEF Label, LabelOf
    <2>5. /\ r.op # "fsck" /\ r.op # "none" /\ (r.op = "unlink" => r.name = r.from)
          /\ (r.op = "rename" => r.name = r.to /\ r.target.key = r.to) /\ r.removed.key = r.name
      BY <1>2, <1>3, <2>2
    <2> QED
      BY <1>1, <1>2, <2>2, <2>3, <2>4, <2>5, HoldKeeps
  <1> QED
    BY <1>4, <1>5

LEMMA RenameTargetKeeps ==
  ASSUME IInv, NEW c \in Client, RenameTarget(c)
  PROVE  IInv'
  <1> DEFINE n == req[c].to
             label == IF md[n].ino # 0 THEN "lookup" ELSE "newentry"
  <1>1. Types /\ Local /\ pc[c] = "target" /\ SameKeys /\ UNCHANGED <<counters, broken>>
    BY DEF IInv, RenameTarget, SameKeys, keys
  <1>2. /\ n \in Name /\ req[c].op = "rename" /\ pc[c] \notin Bare
    BY <1>1, LabelsTell DEF Renaming, Bare, After, Local, LocalOf
  <1>3. /\ lookup(n) \in Info /\ lookup(n).key = n /\ lookup(n).md = md[n]
        /\ md[n].ino = 0 => md[n] = Missing
    BY <1>1, <1>2, LookupIsRaw DEF Known
  <1>4. PICK r : r = [req[c] EXCEPT !.target = lookup(n), !.name = n]
    OBVIOUS
  <1>5. /\ r \in Request /\ r.op = req[c].op /\ r.from = req[c].from /\ r.to = req[c].to
        /\ r.name = n /\ r.source = req[c].source /\ r.target = lookup(n)
    <2>1. req[c] \in Request
      BY <1>1 DEF Local
    <2> QED
      BY <1>2, <1>3, <1>4, <2>1 DEF Request
  <1>6. Hold(c, r) /\ Goto(c, label)
    BY <1>3, <1>4 DEF RenameTarget, Found
  <1>7. label \in Label /\ LabelOf(r.op, label) /\ label \in {"lookup", "newentry"}
    BY <1>2, <1>5 DEF Label, LabelOf
  <1>8. /\ r.op = "rename" /\ r.to \in Name /\ r.target.md = md[r.to] /\ r.name = r.to
        /\ r.target.key = r.to /\ (label = "newentry" => md[r.to] = Missing)
    BY <1>2, <1>3, <1>5
  <1> HIDE DEF label
  <1> QED
    BY <1>1, <1>2, <1>5, <1>6, <1>7, <1>8, HoldKeeps

LEMMA RetryKeeps ==
  ASSUME IInv, NEW c \in Client, Retry(c)
  PROVE  IInv'
  <1> DEFINE n == req[c].from
  <1>1. Types /\ Local /\ pc[c] = "again" /\ SameKeys /\ UNCHANGED counters
    BY DEF IInv, Retry, SameKeys, keys
  <1>2. n \in Name /\ req[c].op = "setattr" /\ pc[c] # "idle" /\ pc[c] \notin Bare
    BY <1>1, LabelsTell DEF Bare, After
  <1>3. lookup(n) \in Info /\ lookup(n).key = n /\ lookup(n).md = md[n]
    BY <1>1, <1>2, LookupIsRaw
  <1>4. CASE ~Found(lookup(n))
    <2>1. Return(c)
      BY <1>4 DEF Retry
    <2> QED
      BY <1>1, <1>2, <2>1, ReturnKeeps
  <1>5. CASE Found(lookup(n))
    <2>1. PICK r : r = [req[c] EXCEPT !.source = lookup(n)]
      OBVIOUS
    <2>2. /\ r \in Request /\ r.op = req[c].op /\ r.from = req[c].from /\ r.to = req[c].to
          /\ r.source = lookup(n) /\ r.target = req[c].target
      <3>1. req[c] \in Request
        BY <1>1 DEF Local
      <3> QED
        BY <1>3, <2>1, <3>1 DEF Request
    <2>3. Hold(c, r) /\ Goto(c, "setattr") /\ UNCHANGED <<counters, broken>>
      BY <1>1, <1>2, <1>5, <2>1 DEF Retry
    <2>4. "setattr" \in Label /\ LabelOf(r.op, "setattr")
      BY <1>2, <2>2 DEF Label, LabelOf
    <2>5. /\ r.op = "setattr" /\ r.source.key = r.from /\ r.source.md = md[r.from]
          /\ r.source.md.ino # 0
      BY <1>2, <1>3, <1>5, <2>2 DEF Found
    <2> QED
      BY <1>1, <1>2, <2>2, <2>3, <2>4, <2>5, HoldKeeps
  <1> QED
    BY <1>4, <1>5

-----------------------------------------------------------------------------
(* fsck_directory.                                                         *)

\* A step of fsck.
LEMMA FsckKeeps ==
  ASSUME Types', Counted', Local', OnlyFsck', broken', FsckData', InFsckAlone'
  PROVE  IInv'
  <1>1. OnlyFsck' /\ Local' => OnlyData'
    BY FsckHasNoNames, PTL
  <1> QED
    BY <1>1 DEF IInv, OnlyData

\* Where fsck is, nobody else is at work.
LEMMA FsckIsAlone ==
  ASSUME IInv, NEW c \in Client,
         pc[c] \in {"scan", "dangling", "restore", "untarget", "reentry", "unrecover"}
  PROVE  /\ req[c].op = "fsck" /\ broken /\ AtFsck(c) /\ OnlyFsck /\ FsckData
         /\ Types /\ Local /\ Counted
         /\ \A x \in Client \ {c} : pc[x] = "idle" /\ req[x].op = "none"
  <1>1. Types /\ Local /\ Counted /\ InFsckAlone
    BY DEF IInv
  <1>2. req[c].op = "fsck"
    BY <1>1, LabelsTell
  <1>3. broken /\ AtFsck(c) /\ \A x \in Client \ {c} : pc[x] = "idle"
    BY <1>1, <1>2 DEF InFsckAlone
  <1>4. \A x \in Client \ {c} : req[x].op = "none"
    BY <1>1, <1>3, LabelsTell
  <1>5. OnlyFsck
    BY <1>2, <1>4 DEF OnlyFsck
  <1>6. FsckData
    BY <1>1, <1>5, FsckHasNoNames DEF OnlyData, IInv
  <1> QED
    BY <1>1, <1>2, <1>3, <1>4, <1>5, <1>6

\* fsck goes on.
LEMMA FsckGoes ==
  ASSUME IInv, NEW c \in Client,
         pc[c] \in {"scan", "dangling", "restore", "untarget", "reentry", "unrecover"},
         NEW label \in {"scan", "reentry", "untarget", "unrecover"},
         To(c, label), UNCHANGED counters, Types', AtFsck(c)', FsckData'
  PROVE  IInv'
  <1>1. /\ req[c].op = "fsck" /\ broken /\ Types /\ Local /\ Counted
        /\ \A x \in Client \ {c} : pc[x] = "idle" /\ req[x].op = "none"
    BY FsckIsAlone
  <1>2. Later /\ inodes' = inodes /\ ops' = ops
    BY <1>1 DEF Types, Later, counters
  <1>3. label \in Label /\ LabelOf(req[c].op, label) /\ label # "delete" /\ label # "target"
    BY <1>1 DEF Label, LabelOf
  <1>4. Local' /\ Counted' /\ Others(c) /\ pc'[c] = label /\ req' = req /\ broken' = broken
    BY <1>1, <1>2, <1>3, GoesTo
  <1>5. OnlyFsck' /\ broken'
    BY <1>1, <1>4 DEF OnlyFsck
  <1>6. InFsckAlone'
    BY <1>1, <1>4 DEF InFsckAlone, Others
  <1> QED
    BY <1>4, <1>5, <1>6, FsckKeeps

\* fsck returns.
LEMMA FsckReturns ==
  ASSUME IInv, NEW c \in Client,
         pc[c] \in {"scan", "dangling", "restore", "untarget", "reentry", "unrecover"},
         Return(c), UNCHANGED counters, Types', FsckData'
  PROVE  IInv'
  <1>1. /\ req[c].op = "fsck" /\ broken /\ Types /\ Local /\ Counted
        /\ \A x \in Client \ {c} : pc[x] = "idle" /\ req[x].op = "none"
    BY FsckIsAlone
  <1>2. Later /\ inodes' = inodes /\ ops' = ops /\ Leave(c) /\ broken' = broken
    BY <1>1 DEF Types, Later, counters, Return
  <1>3. Local' /\ Counted' /\ Others(c) /\ req'[c].op = "none"
    BY <1>2, Leaves
  <1>4. \A x \in Client : req'[x].op = "none"
    BY <1>1, <1>3 DEF Others
  <1>5. OnlyFsck' /\ InFsckAlone'
    BY <1>4 DEF OnlyFsck, InFsckAlone
  <1> QED
    BY <1>1, <1>2, <1>3, <1>5, FsckKeeps

\* fsck begins, or has found what it repairs next.
LEMMA FsckHolds ==
  ASSUME IInv, NEW c \in Client, \A x \in Client \ {c} : pc[x] = "idle", OnlyFsck, broken,
         NEW r \in Request, NEW label \in {"scan", "dangling", "restore"}, r.op = "fsck",
         Known(r.source.md), Known(r.target.md),
         Hold(c, r), Goto(c, label), SameKeys, UNCHANGED <<counters, broken>>, AtFsck(c)'
  PROVE  IInv'
  <1>1. Types /\ Local /\ Counted
    BY DEF IInv
  <1>2. Types' /\ Later /\ inodes' = inodes /\ versions' = versions /\ ops' = ops /\ broken' = broken
    BY <1>1 DEF Types, Known, Later, counters, SameKeys
  <1>3. req'[c] = r /\ pc'[c] = label
    BY <1>1 DEF Local, Hold, Goto
  <1>4. LocalOf(c)'
    BY <1>2, <1>3 DEF LocalOf, LabelOf, Known
  <1>5. Local' /\ Others(c)
    <2>1. label \in Label
      BY DEF Label
    <2> QED
      BY <1>1, <1>2, <1>4, <2>1, ClientMoves
  <1>6. Counted'
    BY <1>1, <1>2, <1>3, <1>5, CountedKept, Bounds DEF Types
  <1>7. OnlyFsck' /\ broken'
    BY <1>2, <1>3, <1>5 DEF OnlyFsck, Others
  <1>8. InFsckAlone'
    <2>1. \A x \in Client \ {c} : req[x].op = "none" /\ req'[x] = req[x] /\ pc'[x] = "idle"
      BY <1>1, <1>5, LabelsTell DEF Others
    <2> QED
      BY <1>2, <2>1 DEF InFsckAlone
  <1>9. FsckData'
    <2>1. FsckData
      BY <1>1, FsckHasNoNames DEF OnlyData, IInv
    <2> QED
      BY <2>1 DEF FsckData, SameKeys, RecoveryDistinct, CopyOfFile, OneName, LiveNamed
  <1> QED
    BY <1>2, <1>5, <1>6, <1>7, <1>8, <1>9, FsckKeeps

LEMMA BeginFsckKeeps ==
  ASSUME IInv, WithoutLinks, NEW c \in Client, BeginFsck(c)
  PROVE  IInv'
  <1>1. Types /\ Local /\ SameKeys /\ UNCHANGED <<counters, broken>>
    BY DEF IInv, BeginFsck, SameKeys, keys
  <1>2. ~(~Quiet)
    BY Zenon DEF BeginFsck, Avoided, WithoutLinks
  <1>3. broken /\ \A x \in Client : pc[x] = "idle"
    BY <1>2 DEF BeginFsck, Quiet, Active
  <1>4. OnlyFsck
    BY <1>1, <1>3, LabelsTell DEF OnlyFsck
  <1>5. PICK r : r = [NoRequest EXCEPT !.op = "fsck"]
    OBVIOUS
  <1>6. r \in Request /\ r.op = "fsck" /\ r.source.md = Missing /\ r.target.md = Missing
    BY <1>5, NothingHeld DEF NoRequest, Request, NoInfo
  <1>7. Known(Missing)
    BY <1>1, NothingHeld DEF Known, Types
  <1>8. Hold(c, r) /\ Goto(c, "scan")
    BY <1>5 DEF BeginFsck
  <1>9. AtFsck(c)'
    <2>1. pc'[c] = "scan"
      BY <1>1, <1>8 DEF Goto, Local
    <2> QED
      BY <2>1 DEF AtFsck
  <1> QED
    BY <1>1, <1>3, <1>4, <1>6, <1>7, <1>8, <1>9, FsckHolds

LEMMA ScanEntryKeeps ==
  ASSUME IInv, WithoutLinks, NEW c \in Client, NEW n \in Name, ScanEntry(c, n)
  PROVE  IInv'
  <1>1. pc[c] = "scan" /\ SameKeys /\ UNCHANGED <<counters, broken>>
    BY DEF ScanEntry, SameKeys, keys
  <1>2. /\ req[c].op = "fsck" /\ broken /\ OnlyFsck /\ Types /\ Local
        /\ \A x \in Client \ {c} : pc[x] = "idle"
    BY <1>1, FsckIsAlone
  <1>3. md[n] = Missing
    <2>1. Root = TRUE
      BY Zenon DEF WithoutLinks
    <2> QED
      BY <1>2, <2>1, LookupIsRaw DEF ScanEntry, ScanFails, Dangling, Found, Known
  <1>4. PICK r : r = [req[c] EXCEPT !.from = n]
    OBVIOUS
  <1>5. r \in Request /\ r.op = "fsck" /\ r.from = n /\ r.source = req[c].source /\ r.target = req[c].target
    <2>1. req[c] \in Request
      BY <1>2 DEF Local
    <2> QED
      BY <1>2, <1>4, <2>1 DEF Request
  <1>6. Known(r.source.md) /\ Known(r.target.md)
    BY <1>2, <1>5 DEF Local, LocalOf
  <1>7. Hold(c, r) /\ Goto(c, "dangling")
    BY <1>4 DEF ScanEntry
  <1>8. AtFsck(c)'
    <2>1. pc'[c] = "dangling" /\ req'[c] = r
      BY <1>2, <1>7 DEF Goto, Hold, Local
    <2> QED
      BY <1>1, <1>3, <1>5, <2>1 DEF AtFsck, SameKeys
  <1> QED
    BY <1>1, <1>2, <1>5, <1>6, <1>7, <1>8, FsckHolds

LEMMA ScanRecoveryKeeps ==
  ASSUME IInv, NEW c \in Client, NEW n \in Name, NEW f \in Name, ScanRecovery(c, <<n, f>>)
  PROVE  IInv'
  <1>1. pc[c] = "scan" /\ SameKeys /\ UNCHANGED <<counters, broken>> /\ <<n, f>> \in recovery
    BY DEF ScanRecovery, SameKeys, keys
  <1>2. /\ req[c].op = "fsck" /\ broken /\ OnlyFsck /\ Types /\ Local
        /\ \A x \in Client \ {c} : pc[x] = "idle"
    BY <1>1, FsckIsAlone
  <1>3. /\ Raw(n) \in Info /\ Raw(n).key = n /\ Raw(n).md = md[n] /\ Known(md[n])
        /\ Raw(f) \in Info /\ Raw(f).key = f /\ Raw(f).md = md[f] /\ Known(md[f])
    BY <1>2, LookupIsRaw
  <1>4. PICK r : r = [req[c] EXCEPT !.to = n, !.from = f, !.target = Raw(n), !.source = Raw(f)]
    OBVIOUS
  <1>5. r \in Request /\ r.op = "fsck" /\ r.from = f /\ r.to = n /\ r.source = Raw(f) /\ r.target = Raw(n)
    <2>1. req[c] \in Request
      BY <1>2 DEF Local
    <2> QED
      BY <1>2, <1>3, <1>4, <2>1 DEF Request
  <1>6. Known(r.source.md) /\ Known(r.target.md)
    BY <1>3, <1>5
  <1>7. Hold(c, r) /\ Goto(c, "restore")
    BY <1>4 DEF ScanRecovery
  <1>8. AtFsck(c)'
    <2>1. pc'[c] = "restore" /\ req'[c] = r
      BY <1>2, <1>7 DEF Goto, Hold, Local
    <2> QED
      BY <1>1, <1>3, <1>5, <2>1 DEF AtFsck, SameKeys, Recovery
  <1> QED
    BY <1>1, <1>2, <1>5, <1>6, <1>7, <1>8, FsckHolds

\* When nothing is left, every file has one name and an entry.
LEMMA ScanDoneKeeps ==
  ASSUME IInv, WithoutLinks, NEW c \in Client, ScanDone(c)
  PROVE  IInv'
  <1>1. /\ pc[c] = "scan" /\ SameKeys /\ UNCHANGED counters /\ recovery = {} /\ Leave(c) /\ broken' = FALSE
    BY DEF ScanDone, SameKeys, keys
  <1>2. /\ req[c].op = "fsck" /\ Types /\ Local /\ FsckData
        /\ \A x \in Client \ {c} : pc[x] = "idle" /\ req[x].op = "none"
    BY <1>1, FsckIsAlone
  <1>3. \A n \in entries : md[n] # Missing
    <2> SUFFICES ASSUME NEW n \in entries, md[n] = Missing PROVE FALSE
      OBVIOUS
    <2>1. n \in Name
      BY <1>2 DEF Types
    <2>2. ~Found(lookup(n))
      BY <1>2, <2>1, LookupIsRaw, NothingHeld DEF Found
    <2>3. Dangling(n)
      BY <2>2 DEF Dangling
    <2> QED
      BY <2>1, <2>3 DEF ScanDone, ScanFails
  <1>4. Types' /\ Later /\ inodes' = inodes /\ ops' = ops
    <2>1. /\ versions' = versions /\ inodes' = inodes /\ ops' = ops /\ crashes' = crashes
          /\ md' = md /\ entries' = entries /\ recovery' = recovery /\ live' = live
      BY <1>1 DEF counters, SameKeys
    <2>2. broken' \in BOOLEAN
      BY <1>1
    <2>3. \A n \in Name : Known(md[n])'
      BY <1>2, <2>1 DEF Types, Known
    <2> QED
      BY <1>2, <2>1, <2>2, <2>3 DEF Types, Later
  <1>5. Local' /\ Counted' /\ Others(c) /\ req'[c].op = "none"
    BY <1>1, <1>4, Leaves
  <1>6. \A x \in Client : req'[x].op = "none"
    BY <1>2, <1>5 DEF Others
  <1>7. OnlyFsck' /\ InFsckAlone'
    BY <1>6 DEF OnlyFsck, InFsckAlone
  <1>8. FsckData'
    BY <1>1, <1>2 DEF FsckData, SameKeys, RecoveryDistinct, CopyOfFile, OneName, LiveNamed
  <1>9. OnlyFsck' /\ Local' => OnlyData'
    BY FsckHasNoNames, PTL
  <1>10. RecoveryOwned' /\ EntryHasMetadata' /\ CopyWithoutEntry'
    <2>1. recovery' = {} /\ \A x \in Client : ~Renaming(x)'
      BY <1>1, <1>6 DEF SameKeys, Renaming
    <2> QED
      BY <1>1, <1>3, <2>1 DEF RecoveryOwned, EntryHasMetadata, CopyWithoutEntry, SameKeys
  <1> QED
    BY <1>4, <1>5, <1>7, <1>8, <1>9, <1>10 DEF IInv, OnlyData

LEMMA DeleteDanglingKeeps ==
  ASSUME IInv, NEW c \in Client, DeleteDangling(c)
  PROVE  IInv'
  <1>0. PICK f : f = req[c].from
    OBVIOUS
  <1>1. /\ pc[c] = "dangling" /\ entries' = entries \ {f} /\ md' = md /\ recovery' = recovery
        /\ live' = live /\ UNCHANGED counters
    BY <1>0 DEF DeleteDangling
  <1>2. req[c].op = "fsck" /\ AtFsck(c) /\ FsckData /\ Types
    BY <1>1, FsckIsAlone
  <1>3. md[f] = Missing
    BY <1>0, <1>1, <1>2 DEF AtFsck
  <1>4. FsckData'
    BY <1>1, <1>2, <1>3 DEF FsckData, RecoveryDistinct, CopyOfFile, OneName, LiveNamed
  <1>5. CASE To(c, "scan")
    <2>1. Types'
      BY <1>1, <1>2, <1>5 DEF Types, Known, counters, To
    <2>2. AtFsck(c)'
      <3>1. pc'[c] = "scan"
        BY <1>5 DEF To, Goto, IInv, Local
      <3> QED
        BY <3>1 DEF AtFsck
    <2> QED
      BY <1>1, <1>4, <1>5, <2>1, <2>2, FsckGoes
  <1>6. CASE Return(c)
    <2>1. Types'
      BY <1>1, <1>2, <1>6 DEF Types, Known, counters, Return
    <2> QED
      BY <1>1, <1>4, <1>6, <2>1, FsckReturns
  <1> QED
    BY <1>5, <1>6 DEF DeleteDangling

\* What recover_rename works with.
LEMMA Restoring ==
  ASSUME IInv, NEW c \in Client, pc[c] \in {"restore", "untarget", "reentry", "unrecover"},
         NEW f, f = req[c].from, NEW t, t = req[c].to
  PROVE  /\ f \in Name /\ t \in Name /\ f # t /\ <<t, f>> \in recovery /\ Recovery(c) = <<t, f>>
         /\ req[c].target.key = t /\ req[c].source.key = f
         /\ \A p \in recovery : p[1] # f /\ (p # <<t, f>> => p[1] # t /\ p[2] # t)
  <1>1. AtFsck(c) /\ FsckData /\ Types
    BY FsckIsAlone
  <1>2. <<t, f>> \in recovery /\ Recovery(c) = <<t, f>> /\ req[c].target.key = t /\ req[c].source.key = f
    BY <1>1 DEF AtFsck, Recovery
  <1>3. f \in Name /\ t \in Name
    BY <1>1, <1>2 DEF Types
  <1>4. f # t /\ \A p \in recovery : p # <<t, f>> => p[1] # t /\ p[1] # f /\ p[2] # t
    BY <1>1, <1>2 DEF FsckData, RecoveryDistinct
  <1> QED
    BY <1>2, <1>3, <1>4

\* Metadata that goes back to the old name is of the file that was moved.
LEMMA RestoredData ==
  ASSUME FsckData, Types, NEW f \in Name, NEW t \in Name, f # t, <<t, f>> \in recovery,
         \A p \in recovery : p[1] # f /\ (p # <<t, f>> => p[1] # t /\ p[2] # t),
         md[f] = Missing, md[t] # Missing, md' = [md EXCEPT ![f] = md[t]],
         entries' = entries, recovery' = recovery, live' = live
  PROVE  FsckData'
  <1>1. \A n \in Name : md'[n] = IF n = f THEN md[t] ELSE md[n]
    BY DEF Types, Key
  <1>2. \A p \in recovery : p[1] \in Name /\ p[2] \in Name /\ md'[p[1]] = md[p[1]]
    BY <1>1 DEF Types
  <1>3. \A n \in Name : md'[n] # Missing /\ n \notin entries' => \E p \in recovery' : p[2] = n
    BY <1>1 DEF FsckData
  <1>4. \A p, q \in recovery : p # q /\ p[2] = q[2] => md'[p[1]] = Missing \/ md'[q[1]] = Missing
    BY <1>2 DEF FsckData
  <1>5. RecoveryDistinct'
    BY DEF FsckData, RecoveryDistinct
  <1>6. CopyOfFile'
    <2> SUFFICES ASSUME NEW p \in recovery, md'[p[1]] # Missing, md'[p[2]] # Missing
                 PROVE  md'[p[1]].ino = md'[p[2]].ino
      BY DEF CopyOfFile
    <2>1. CASE p[2] # f
      BY <1>1, <1>2, <2>1 DEF FsckData, CopyOfFile
    <2>2. CASE p[2] = f
      <3>1. p = <<t, f>>
        BY <1>2, <2>2 DEF FsckData
      <3> QED
        BY <1>1, <1>2, <2>2, <3>1
    <2> QED
      BY <2>1, <2>2
  <1>7. OneName'
    <2> SUFFICES ASSUME NEW n \in Name, NEW x \in Name, n # x, md'[n].ino = md'[x].ino, md'[n].ino # 0
                 PROVE  <<n, x>> \in recovery \/ <<x, n>> \in recovery
      BY DEF OneName
    <2>0. \A k \in Name : k # t /\ md[k].ino = md[t].ino => md[k].ino = 0
      <3> SUFFICES ASSUME NEW k \in Name, k # t, md[k].ino = md[t].ino, md[k].ino # 0
                   PROVE  FALSE
        OBVIOUS
      <3>1. k # f
        BY NothingHeld
      <3>2. <<k, t>> \in recovery \/ <<t, k>> \in recovery
        BY DEF FsckData, OneName
      <3> QED
        BY <3>1, <3>2
    <2>1. CASE n # f /\ x # f
      BY <1>1, <2>1 DEF FsckData, OneName
    <2>2. CASE n = f
      BY <1>1, <2>0, <2>2
    <2>3. CASE x = f
      BY <1>1, <2>0, <2>3
    <2> QED
      BY <2>1, <2>2, <2>3
  <1>8. LiveNamed'
    <2> SUFFICES ASSUME NEW i \in live PROVE \E n \in Name : md'[n].ino = i
      BY DEF LiveNamed
    <2>1. i # 0
      BY DEF Types
    <2>2. PICK n \in Name : md[n].ino = i
      BY DEF FsckData, LiveNamed
    <2> QED
      BY <1>1, <2>1, <2>2, NothingHeld
  <1> QED
    BY <1>3, <1>4, <1>5, <1>6, <1>7, <1>8 DEF FsckData

LEMMA RestoreKeeps ==
  ASSUME IInv, NEW c \in Client, Restore(c)
  PROVE  IInv'
  <1>0. PICK f, t : f = req[c].from /\ t = req[c].to
    OBVIOUS
  <1>1. pc[c] = "restore" /\ entries' = entries /\ recovery' = recovery /\ live' = live /\ UNCHANGED counters
    BY DEF Restore
  <1>2. /\ f \in Name /\ t \in Name /\ f # t /\ <<t, f>> \in recovery /\ Recovery(c) = <<t, f>>
        /\ req[c].target.key = t /\ req[c].source.key = f
        /\ \A p \in recovery : p[1] # f /\ (p # <<t, f>> => p[1] # t /\ p[2] # t)
    BY <1>0, <1>1, Restoring
  <1>3. req[c].op = "fsck" /\ AtFsck(c) /\ FsckData /\ Types /\ Local
    BY <1>1, FsckIsAlone
  <1>4. req[c].source.md = md[f] /\ req[c].target.md = md[t]
    BY <1>0, <1>1, <1>3 DEF AtFsck
  <1>5. (md[f] = Missing <=> md[f].ino = 0) /\ (md[t] = Missing <=> md[t].ino = 0)
    BY <1>2, <1>3 DEF Types, Known
  <1>6. ASSUME To(c, "untarget"), Types', FsckData', md'[f] # Missing, md'[t] = md[t] PROVE IInv'
    <2>1. pc'[c] = "untarget" /\ req' = req
      BY <1>3, <1>6 DEF To, Goto, Local
    <2>2. AtFsck(c)'
      BY <1>0, <1>1, <1>2, <1>4, <1>6, <2>1 DEF AtFsck, Recovery
    <2> QED
      BY <1>1, <1>6, <2>2, FsckGoes
  <1>7. CASE Found(req[c].source) /\ To(c, "untarget") /\ md' = md
    <2>1. Types'
      BY <1>1, <1>3, <1>7 DEF Types, Known, counters, To
    <2>2. FsckData'
      BY <1>1, <1>3, <1>7 DEF FsckData, RecoveryDistinct, CopyOfFile, OneName, LiveNamed
    <2>3. md'[f] # Missing /\ md'[t] = md[t]
      BY <1>4, <1>5, <1>7 DEF Found
    <2> QED
      BY <1>6, <1>7, <2>1, <2>2, <2>3
  <1>8. CASE /\ ~Found(req[c].source) /\ Found(req[c].target) /\ To(c, "untarget")
             /\ md' = [md EXCEPT ![f] = md[t]]
    <2>1. md[f] = Missing /\ md[t] # Missing
      BY <1>4, <1>5, <1>8 DEF Found
    <2>2. /\ md' \in [Key -> Md] /\ md'[f] = md[t] /\ md'[t] = md[t]
          /\ \A k \in Key : k # f => md'[k] = md[k]
      BY <1>2, <1>3, <1>8 DEF Types, Key
    <2>3. Types'
      <3>1. /\ versions' = versions /\ inodes' = inodes /\ ops' = ops /\ crashes' = crashes
            /\ broken' = broken
        BY <1>1, <1>8 DEF counters, To
      <3>2. \A i \in Inode : md'[i] = Missing
        BY <1>2, <1>3, <2>2 DEF Types, Key
      <3>3. \A n \in Name : Known(md[n])'
        BY <1>2, <1>3, <2>2, <3>1 DEF Types, Key, Known
      <3> QED
        BY <1>1, <1>3, <2>2, <3>1, <3>2, <3>3 DEF Types
    <2>4. FsckData'
      BY <1>1, <1>2, <1>3, <1>8, <2>1, RestoredData
    <2> QED
      BY <1>6, <1>8, <2>1, <2>2, <2>3, <2>4
  <1>9. CASE Die(c) /\ md' = md
    <2>1. SameKeys /\ pc[c] # "idle"
      BY <1>1, <1>9 DEF SameKeys
    <2>2. inodes' = inodes /\ versions' = versions /\ ops' = ops /\ crashes' \in 0 .. MaxCrashes
      BY <1>1, <1>3 DEF counters, Types
    <2> QED
      BY <1>9, <2>1, <2>2, DieKeeps
  <1>10. ~(~Found(req[c].source) /\ ~Free(f))
    BY <1>4, <1>5 DEF Found, Free
  <1> QED
    BY <1>2, <1>4, <1>7, <1>8, <1>9, <1>10 DEF Restore

\* The copy is deleted where the file is back at its old name.
LEMMA RemoveTargetKeeps ==
  ASSUME IInv, NEW c \in Client, RemoveTarget(c)
  PROVE  IInv'
  <1>0. PICK f, t : f = req[c].from /\ t = req[c].to
    OBVIOUS
  <1>1. pc[c] = "untarget" /\ entries' = entries /\ recovery' = recovery /\ live' = live /\ UNCHANGED counters
    BY DEF RemoveTarget
  <1>2. /\ f \in Name /\ t \in Name /\ f # t /\ <<t, f>> \in recovery /\ Recovery(c) = <<t, f>>
        /\ req[c].target.key = t /\ req[c].source.key = f
    BY <1>0, <1>1, Restoring
  <1>3. req[c].op = "fsck" /\ AtFsck(c) /\ FsckData /\ Types /\ Local
    BY <1>1, FsckIsAlone
  <1>4. req[c].target.md = md[t] /\ md[f] # Missing
    BY <1>0, <1>1, <1>3 DEF AtFsck
  <1>5. md[t] = Missing <=> md[t].ino = 0
    BY <1>2, <1>3 DEF Types, Known
  <1>6. To(c, "reentry") /\ md' = [md EXCEPT ![t] = Missing]
    <2>1. CASE Found(req[c].target)
      BY <1>2, <1>4, <1>5, <2>1 DEF RemoveTarget, Found
    <2>2. CASE ~Found(req[c].target)
      <3>1. md[t] = Missing /\ md' = md /\ To(c, "reentry")
        BY <1>4, <1>5, <2>2 DEF RemoveTarget, Found
      <3>2. md = [md EXCEPT ![t] = Missing]
        BY <1>3, <3>1 DEF Types
      <3> QED
        BY <3>1, <3>2
    <2> QED
      BY <2>1, <2>2
  <1>7. Types' /\ \A k \in Name : md'[k] = IF k = t THEN Missing ELSE md[k]
    <2>1. broken' \in BOOLEAN
      BY <1>3, <1>6 DEF To, Types
    <2> QED
      BY <1>1, <1>2, <1>3, <1>6, <2>1, DeletedTypes
  <1>8. FsckData'
    <2>0. \A p \in recovery : p[1] \in Name /\ p[2] \in Name
      BY <1>3 DEF Types
    <2>1. /\ \A n \in Name : md'[n] # Missing /\ n \notin entries' => \E p \in recovery' : p[2] = n
          /\ \A p, q \in recovery : p # q /\ p[2] = q[2] => md'[p[1]] = Missing \/ md'[q[1]] = Missing
      BY <1>1, <1>3, <1>7, <2>0 DEF FsckData
    <2>2. RecoveryDistinct' /\ CopyOfFile'
      BY <1>1, <1>3, <1>7, <2>0 DEF FsckData, RecoveryDistinct, CopyOfFile
    <2>3. OneName'
      BY <1>1, <1>3, <1>7, NothingHeld DEF FsckData, OneName
    <2>4. LiveNamed'
      <3> SUFFICES ASSUME NEW i \in live PROVE \E n \in Name : md'[n].ino = i
        BY <1>1 DEF LiveNamed
      <3>1. PICK n \in Name : md[n].ino = i
        BY <1>3 DEF FsckData, LiveNamed
      <3>2. i # 0
        BY <1>3 DEF Types
      <3>3. CASE n = t
        <4>1. md[t].ino = md[f].ino
          BY <1>2, <1>3, <1>4, <1>5, <3>1, <3>2, <3>3 DEF FsckData, CopyOfFile
        <4> QED
          BY <1>2, <1>7, <3>1, <3>3, <4>1
      <3> QED
        BY <1>7, <3>1, <3>3
    <2> QED
      BY <1>1, <2>1, <2>2, <2>3, <2>4 DEF FsckData
  <1>9. AtFsck(c)'
    <2>1. pc'[c] = "reentry" /\ req' = req
      BY <1>3, <1>6 DEF To, Goto, Local
    <2> QED
      BY <1>0, <1>1, <1>2, <1>4, <1>7, <2>1 DEF AtFsck, Recovery
  <1> QED
    BY <1>1, <1>6, <1>7, <1>8, <1>9, FsckGoes

LEMMA RestoreEntryKeeps ==
  ASSUME IInv, NEW c \in Client, RestoreEntry(c)
  PROVE  IInv'
  <1>0. PICK f, t : f = req[c].from /\ t = req[c].to
    OBVIOUS
  <1>1. /\ pc[c] = "reentry" /\ entries' = entries \cup {f} /\ md' = md /\ recovery' = recovery
        /\ live' = live /\ UNCHANGED counters /\ To(c, "unrecover")
    BY <1>0 DEF RestoreEntry
  <1>2. /\ f \in Name /\ t \in Name /\ f # t /\ <<t, f>> \in recovery /\ Recovery(c) = <<t, f>>
        /\ req[c].target.key = t /\ req[c].source.key = f
    BY <1>0, <1>1, Restoring
  <1>3. req[c].op = "fsck" /\ AtFsck(c) /\ FsckData /\ Types /\ Local
    BY <1>1, FsckIsAlone
  <1>4. Types'
    BY <1>1, <1>2, <1>3 DEF Types, Known, counters, To
  <1>5. FsckData'
    BY <1>1, <1>3 DEF FsckData, RecoveryDistinct, CopyOfFile, OneName, LiveNamed
  <1>6. AtFsck(c)'
    <2>1. pc'[c] = "unrecover" /\ req' = req
      BY <1>1, <1>3 DEF To, Goto, Local
    <2> QED
      BY <1>0, <1>1, <1>2, <1>3, <2>1 DEF AtFsck, Recovery
  <1> QED
    BY <1>1, <1>4, <1>5, <1>6, FsckGoes

LEMMA DeleteRecoveryKeeps ==
  ASSUME IInv, NEW c \in Client, DeleteRecovery(c)
  PROVE  IInv'
  <1>0. PICK f, t : f = req[c].from /\ t = req[c].to
    OBVIOUS
  <1>1. pc[c] = "unrecover" /\ md' = md /\ entries' = entries /\ live' = live /\ UNCHANGED counters
    BY DEF DeleteRecovery
  <1>2. /\ f \in Name /\ t \in Name /\ <<t, f>> \in recovery /\ Recovery(c) = <<t, f>>
    BY <1>0, <1>1, Restoring
  <1>3. req[c].op = "fsck" /\ AtFsck(c) /\ FsckData /\ Types /\ Local
    BY <1>1, FsckIsAlone
  <1>4. To(c, "scan") /\ recovery' = recovery \ {<<t, f>>}
    BY <1>2 DEF DeleteRecovery
  <1>5. md[t] = Missing /\ f \in entries
    BY <1>0, <1>1, <1>3 DEF AtFsck
  <1>6. Types'
    BY <1>1, <1>3, <1>4 DEF Types, Known, counters, To
  <1>7. FsckData'
    <2>1. \A n \in Name : md'[n] # Missing /\ n \notin entries' => \E p \in recovery' : p[2] = n
      BY <1>1, <1>3, <1>4, <1>5 DEF FsckData
    <2>2. OneName'
      BY <1>1, <1>3, <1>4, <1>5, NothingHeld DEF FsckData, OneName
    <2> QED
      BY <1>1, <1>3, <1>4, <2>1, <2>2 DEF FsckData, RecoveryDistinct, CopyOfFile, LiveNamed
  <1>8. AtFsck(c)'
    <2>1. pc'[c] = "scan"
      BY <1>3, <1>4 DEF To, Goto, Local
    <2> QED
      BY <2>1 DEF AtFsck
  <1> QED
    BY <1>1, <1>4, <1>6, <1>7, <1>8, FsckGoes

-----------------------------------------------------------------------------
(* The invariant is inductive.                                             *)

\* The files of the start have different inode numbers, and all of them.
LEMMA Numbered ==
  /\ Cardinality(Files) \in Nat /\ Number \in [Files -> 1 .. Cardinality(Files)]
  /\ \A a, b \in Files : Number[a] = Number[b] => a = b
  /\ \A i \in 1 .. Cardinality(Files) : \E a \in Files : Number[a] = i
  <1> DEFINE N == Cardinality(Files)
  <1>1. IsFiniteSet(Files)
    BY FS_Subset
  <1>2. N \in Nat /\ ExistsBijection(1 .. N, Files)
    BY <1>1, FS_CardinalityType
  <1>3. PICK g \in Bijection(1 .. N, Files) : TRUE
    BY <1>2 DEF ExistsBijection
  <1> HIDE DEF N
  <1>4. g \in [1 .. N -> Files] /\ \A a \in Files : \E i \in 1 .. N : g[i] = a
    BY <1>3 DEF Bijection, Injection, Surjection
  <1>5. PICK f : f = [a \in Files |-> CHOOSE i \in 1 .. N : g[i] = a]
    OBVIOUS
  <1>6. \A a \in Files : f[a] \in 1 .. N /\ g[f[a]] = a
    BY <1>4, <1>5
  <1>7. f \in [Files -> 1 .. N] /\ \A a, b \in Files : f[a] = f[b] => a = b
    BY <1>5, <1>6
  <1>8. Number \in [Files -> 1 .. N] /\ \A a, b \in Files : Number[a] = Number[b] => a = b
    BY <1>7 DEF Number, N
  <1>9. Number \in Injection(Files, 1 .. N)
    BY <1>8 DEF Injection, IsInjective
  <1>10. IsFiniteSet(1 .. N) /\ Cardinality(1 .. N) = N
    BY <1>2, FS_Interval
  <1>11. Number \in Surjection(Files, 1 .. N)
    BY <1>9, <1>10, FS_Injection DEF N
  <1> QED
    BY <1>2, <1>8, <1>11 DEF Surjection, N

LEMMA InitHolds == Init => IInv
  <1> SUFFICES ASSUME Init PROVE IInv
    OBVIOUS
  <1>1. /\ entries = Files /\ recovery = {} /\ versions = 1 /\ inodes = Cardinality(Files)
        /\ broken = FALSE /\ ops = 0 /\ crashes = 0 /\ live = 1 .. Cardinality(Files)
        /\ \A c \in Client : pc[c] = "idle" /\ req[c] = NoRequest
    BY DEF Init
  <1>2. \A c \in Client : req[c].op = "none"
    BY <1>1, NothingHeld
  <1>3. Files \subseteq Key /\ \A i \in Inode : i \notin Files
    BY DEF Key
  <1>4. /\ \A n \in Files : md[n] = [type |-> "POSIX", ino |-> Number[n], links |-> 1, version |-> 1]
        /\ \A k \in Key : k \notin Files => md[k] = Missing
        /\ DOMAIN md = Key
    BY <1>3 DEF Init
  <1>5. \A n \in Files : /\ md[n] \in Md /\ md[n].ino = Number[n] /\ md[n].ino \in 1 .. Cardinality(Files)
                         /\ md[n].type = "POSIX" /\ md[n].version = 1 /\ md[n] # Missing
    <2> SUFFICES ASSUME NEW n \in Files
                 PROVE  /\ md[n] \in Md /\ md[n].ino = Number[n] /\ md[n].ino \in 1 .. Cardinality(Files)
                        /\ md[n].type = "POSIX" /\ md[n].version = 1 /\ md[n] # Missing
      OBVIOUS
    <2>1. Number[n] \in 1 .. Cardinality(Files) /\ Number[n] \in Nat
      BY Numbered
    <2>2. md[n] = [type |-> "POSIX", ino |-> Number[n], links |-> 1, version |-> 1]
      BY <1>4
    <2>3. md[n] # Missing
      BY <2>2, NothingHeld
    <2> QED
      BY <2>1, <2>2, <2>3 DEF Md
  <1>6. \A n \in Name : n \notin Files => md[n] = Missing
    BY <1>4 DEF Key
  <1>7. Types
    <2>1. \A k \in Key : md[k] \in Md
      BY <1>4, <1>5, NothingHeld
    <2>2. md \in [Key -> Md]
      BY <2>1 DEF Init
    <2>3. \A n \in Name : Known(md[n])
      BY <1>1, <1>5, <1>6, NothingHeld, Numbered DEF Known
    <2>4. \A i \in Inode : md[i] = Missing
      BY <1>3, <1>4 DEF Key
    <2>5. broken \in BOOLEAN /\ recovery \subseteq Name \X Name /\ entries \subseteq Name
      BY <1>1
    <2>6. /\ versions \in Nat /\ inodes \in Nat /\ live \subseteq 1 .. inodes
          /\ ops \in 0 .. MaxOps /\ crashes \in 0 .. MaxCrashes
      BY <1>1, Numbered, Bounds
    <2> QED
      BY <2>2, <2>3, <2>4, <2>5, <2>6 DEF Types
  <1>8. Counted
    <2>1. Creating = {}
      BY <1>2 DEF Creating
    <2> QED
      BY <1>1, <2>1, FS_EmptySet, Numbered DEF Counted
  <1>9. Local
    <2>1. pc \in [Client -> Label] /\ req \in [Client -> Request]
      BY NothingHeld DEF Init, Label
    <2>2. \A c \in Client : LocalOf(c)
      BY <1>1, <1>2, NothingHeld, Numbered DEF LocalOf, LabelOf, Known
    <2> QED
      BY <2>1, <2>2 DEF Local
  <1>10. /\ OnlyFsck /\ RecoveryOwned /\ EntryHasMetadata /\ CopyWithoutEntry /\ InFsckAlone
    BY <1>1, <1>2, <1>5 DEF OnlyFsck, RecoveryOwned, EntryHasMetadata, CopyWithoutEntry, InFsckAlone, Renaming
  <1>11. FsckData
    <2>1. RecoveryDistinct /\ CopyOfFile
      BY <1>1 DEF RecoveryDistinct, CopyOfFile
    <2>2. OneName
      BY <1>5, <1>6, NothingHeld, Numbered DEF OneName
    <2>3. LiveNamed
      BY <1>1, <1>5, Numbered DEF LiveNamed
    <2> QED
      BY <1>1, <1>6, <2>1, <2>2, <2>3 DEF FsckData
  <1> QED
    BY <1>7, <1>8, <1>9, <1>10, <1>11, FsckHasNoNames DEF IInv, OnlyData

\* Requests begin.
LEMMA BeginsKeep ==
  ASSUME IInv, WithoutLinks, NEW c \in Client, NEW n \in Name, NEW x \in Name,
         BeginCreate(c, n) \/ BeginUnlink(c, n) \/ BeginSetattr(c, n) \/ BeginRename(c, n, x)
  PROVE  IInv'
  <1>1. lookup(n).md = md[n]
    BY LookupIsRaw DEF IInv
  <1>2. {"entry", "lookup", "setattr", "target"} \subseteq Label
    BY DEF Label
  <1>3. CASE BeginCreate(c, n)
    BY <1>2, <1>3, BeginKeeps DEF BeginCreate
  <1>4. CASE BeginUnlink(c, n)
    BY <1>2, <1>4, BeginKeeps DEF BeginUnlink
  <1>5. CASE BeginSetattr(c, n)
    BY <1>1, <1>2, <1>5, BeginKeeps DEF BeginSetattr, Found
  <1>6. CASE BeginRename(c, n, x)
    BY <1>1, <1>2, <1>6, BeginKeeps DEF BeginRename, Found
  <1> QED
    BY <1>3, <1>4, <1>5, <1>6

\* Without links no request comes to the steps that deal with them.
LEMMA NoLinks ==
  ASSUME IInv, WithoutLinks, NEW c \in Client
  PROVE  /\ \A n, x : ~BeginLink(c, n, x)
         /\ ~GetSource(c) /\ ~Claim(c) /\ ~CountDown(c) /\ ~Unclaim(c) /\ ~Unlink(c)
         /\ ~RenameSource(c) /\ ~LinkOrigin(c) /\ ~Forward(c) /\ ~MoveMetadata(c) /\ ~CountUp(c)
         /\ ~NoEntry(c) /\ ~Link(c)
  <1>1. pc[c] \in Label
    BY DEF IInv, Local
  <1>2. "link" \notin Ops
    BY Zenon DEF WithoutLinks
  <1>3. \A n, x : ~BeginLink(c, n, x)
    BY <1>2 DEF BeginLink, Begin
  <1>4. ~GetSource(c) /\ ~Claim(c) /\ ~CountDown(c) /\ ~Unclaim(c) /\ ~Unlink(c) /\ ~RenameSource(c)
    BY <1>1 DEF GetSource, Claim, CountDown, Unclaim, Unlink, RenameSource, Label
  <1>5. /\ ~LinkOrigin(c) /\ ~Forward(c) /\ ~MoveMetadata(c) /\ ~CountUp(c) /\ ~NoEntry(c) /\ ~Link(c)
    BY <1>1 DEF LinkOrigin, Forward, MoveMetadata, CountUp, NoEntry, Link, Label
  <1> QED
    BY <1>3, <1>4, <1>5

LEMMA CrashKeeps ==
  ASSUME IInv, NEW c \in Client, Crash(c)
  PROVE  IInv'
  <1>1. /\ pc[c] # "idle" /\ Die(c) /\ SameKeys /\ inodes' = inodes /\ versions' = versions /\ ops' = ops
        /\ crashes < MaxCrashes /\ crashes' = crashes + 1
    BY DEF Crash, Active, SameKeys, keys
  <1>2. crashes' \in 0 .. MaxCrashes
    BY <1>1, Bounds DEF IInv, Types
  <1> QED
    BY <1>1, <1>2, DieKeeps

LEMMA NextKeeps ==
  ASSUME IInv, WithoutLinks, Next
  PROVE  IInv'
  <1>0. PICK c \in Client :
            \/ \E n \in Name : BeginCreate(c, n) \/ BeginUnlink(c, n) \/ BeginSetattr(c, n) \/ ScanEntry(c, n)
            \/ \E n, x \in Name : BeginRename(c, n, x) \/ BeginLink(c, n, x) \/ ScanRecovery(c, <<n, x>>)
            \/ CreateStep(c) \/ UnlinkStep(c) \/ RenameStep(c) \/ LinkStep(c)
            \/ BeginFsck(c) \/ FsckStep(c) \/ Crash(c)
    BY DEF Next
  <1>1. CASE \E n \in Name : BeginCreate(c, n) \/ BeginUnlink(c, n) \/ BeginSetattr(c, n) \/ ScanEntry(c, n)
    BY <1>1, BeginsKeep, ScanEntryKeeps
  <1>2. CASE \E n, x \in Name : BeginRename(c, n, x) \/ BeginLink(c, n, x) \/ ScanRecovery(c, <<n, x>>)
    BY <1>2, BeginsKeep, NoLinks, ScanRecoveryKeeps
  <1>3. CASE CreateStep(c)
    BY <1>3, CreateEntryKeeps, CreateMetadataKeeps DEF CreateStep
  <1>4. CASE UnlinkStep(c)
    BY <1>4, UnlinkLookupKeeps, DeleteMetadataKeeps, DeleteEntryKeeps, NoLinks DEF UnlinkStep
  <1>5. CASE RenameStep(c)
    BY <1>5, RenameTargetKeeps, NewEntryKeeps, RecoveryEntryKeeps, OldEntryKeeps, RollbackKeeps,
       CopyKeeps, RemoveOldKeeps, FinishKeeps, NoLinks DEF RenameStep
  <1>6. CASE LinkStep(c)
    BY <1>6, SetattrKeeps, RetryKeeps, NoLinks DEF LinkStep
  <1>7. CASE BeginFsck(c)
    BY <1>7, BeginFsckKeeps
  <1>8. CASE FsckStep(c)
    BY <1>8, ScanDoneKeeps, DeleteDanglingKeeps, RestoreKeeps, RemoveTargetKeeps, RestoreEntryKeeps,
       DeleteRecoveryKeeps DEF FsckStep
  <1>9. CASE Crash(c)
    BY <1>9, CrashKeeps
  <1> QED
    BY <1>0, <1>1, <1>2, <1>3, <1>4, <1>5, <1>6, <1>7, <1>8, <1>9

LEMMA StutterKeeps ==
  ASSUME IInv, UNCHANGED vars
  PROVE  IInv'
  <1>1. /\ md' = md /\ entries' = entries /\ recovery' = recovery /\ versions' = versions
        /\ inodes' = inodes /\ ops' = ops /\ crashes' = crashes /\ pc' = pc /\ req' = req
        /\ broken' = broken /\ live' = live
    BY DEF vars, keys, counters
  <1>2. Types' /\ Counted' /\ Local'
    BY <1>1 DEF IInv, Types, Counted, Creating, Local, LocalOf, Known
  <1>3. Apart' /\ RecoveryOwned' /\ RecoveryDistinct'
    BY <1>1 DEF IInv, Apart, RecoveryOwned, RecoveryDistinct, Owns, Holds, Renaming, Recovery
  <1>4. InFsckAlone'
    BY <1>1 DEF IInv, InFsckAlone, AtFsck, Recovery
  <1>5. EntryHasMetadata' /\ MetadataHasEntry' /\ Between'
    BY <1>1 DEF IInv, EntryHasMetadata, MetadataHasEntry, Between, Unlinking, Making, Entering, Moved,
                Holds, Renaming, Recovery
  <1>6. Renames' /\ Versions' /\ Claimed'
    BY <1>1 DEF IInv, Renames, Versions, Claimed, Claims, Renaming, SameVersion
  <1>7. CopyOfFile' /\ OneCopy' /\ CopyWithoutEntry' /\ OneName' /\ LiveNamed'
    BY <1>1 DEF IInv, CopyOfFile, OneCopy, CopyWithoutEntry, Busy, OneName, LiveNamed, Renaming
  <1> QED
    BY <1>2, <1>3, <1>4, <1>5, <1>6, <1>7 DEF IInv

\* The inductive invariant holds throughout: what the keys of a directory and
\* what the clients hold have to do with each other after every request to a
\* drive of hflat_create, hflat_unlink, hflat_rename, put_metadata and
\* fsck_directory, and after every crash between two of them.
THEOREM InvariantHolds ==
  ASSUME WithoutLinks
  PROVE  Spec => []IInv
  <1>1. Init => IInv
    BY InitHolds
  <1>2. IInv /\ [Next]_vars => IInv'
    BY NextKeeps, StutterKeeps
  <1> QED
    BY <1>1, <1>2, PTL DEF Spec

-----------------------------------------------------------------------------
(* What follows from it.                                                   *)

\* The inode numbers are those of the files of the start and of the creates.
LEMMA InodesSuffice ==
  ASSUME IInv
  PROVE  inodes \in Inode \cup {0} /\ 1 .. inodes \subseteq Inode /\ inodes \in Nat
  <1>1. Types /\ Counted
    BY DEF IInv
  <1>2. /\ Cardinality(Files) \in Nat /\ Cardinality(Name) \in Nat
        /\ Cardinality(Files) <= Cardinality(Name)
    BY FS_Subset, FS_CardinalityType
  <1>3. Cardinality(Creating) \in Nat
    BY <1>1, FS_CardinalityType DEF Counted
  <1>4. inodes \in Nat /\ inodes <= Cardinality(Name) + MaxOps
    BY <1>1, <1>2, <1>3, Bounds DEF Counted, Types
  <1> QED
    BY <1>2, <1>4, Bounds DEF Inode

LEMMA InvariantTypes == IInv => TypeOK
  <1> SUFFICES ASSUME IInv PROVE TypeOK
    OBVIOUS
  <1>1. Types /\ 1 .. inodes \subseteq Inode /\ inodes \in Inode \cup {0} /\ inodes \in Nat
    BY InodesSuffice DEF IInv
  <1>2. \A n \in Name : /\ md[n] \in Md /\ md[n].ino \in Inode \cup {0} /\ md[n].version <= versions
                        /\ (md[n] = Missing <=> md[n].ino = 0)
    <2> SUFFICES ASSUME NEW n \in Name
                 PROVE  /\ md[n] \in Md /\ md[n].ino \in Inode \cup {0} /\ md[n].version <= versions
                        /\ (md[n] = Missing <=> md[n].ino = 0)
      OBVIOUS
    <2>1. md[n] \in Md /\ Known(md[n])
      BY <1>1, LookupIsRaw
    <2>2. md[n].ino = 0 \/ md[n].ino \in 1 .. inodes
      BY <1>1, <2>1 DEF Md, Known
    <2> QED
      BY <1>1, <2>1, <2>2 DEF Known
  <1>3. \A n \in Name : md[n] \in Metadata /\ md[n].type # "T"
    BY <1>2 DEF Md, Metadata
  <1>4. Missing \in Metadata
    BY DEF Missing, Metadata
  <1>5. \A k \in Key : md[k] \in Metadata /\ md[k].version <= versions
    <2>1. 0 <= versions
      BY <1>1 DEF Types
    <2>2. \A i \in Inode : md[i] \in Metadata /\ md[i].version <= versions
      BY <1>1, <1>4, <2>1, NothingHeld DEF Types
    <2> QED
      BY <1>2, <1>3, <2>2 DEF Key
  <1> QED
    BY <1>1, <1>2, <1>3, <1>5 DEF TypeOK, Types

\* Where there is neither a recovery entry nor a dangling entry, the directory
\* is consistent.
LEMMA InvariantShows ==
  ASSUME IInv, recovery = {}, \A n \in Name : ~Dangling(n)
  PROVE  Consistent
  <1>1. Types /\ MetadataHasEntry /\ OneName
    BY DEF IInv
  <1>2. \A n \in Name : lookup(n).md = md[n] /\ md[n] \in Md /\ Known(md[n])
    BY <1>1, LookupIsRaw
  <1>3. entries = {n \in Name : md[n] # Missing}
    <2>1. \A n \in entries : n \in Name /\ md[n] # Missing
      BY <1>1, <1>2, NothingHeld DEF Dangling, Found, Types
    <2>2. \A n \in Name : md[n] # Missing => n \in entries
      BY <1>1 DEF MetadataHasEntry, Moved
    <2> QED
      BY <2>1, <2>2
  <1>4. ASSUME NEW i \in Inode
        PROVE  md[i] = Missing /\ \A n, x \in NamesOf(i) : md[n].type = "POSIX" /\ n = x
    <2>1. i # 0
      BY FS_CardinalityType, Bounds DEF Inode
    <2>2. ASSUME NEW n \in NamesOf(i), NEW x \in NamesOf(i) PROVE md[n].type = "POSIX" /\ n = x
      <3>1. n \in Name /\ x \in Name /\ md[n].ino = i /\ md[x].ino = i
        BY DEF NamesOf
      <3> QED
        BY <1>1, <1>2, <2>1, <3>1 DEF OneName, Md, Known
    <2>3. md[i] = Missing
      BY <1>1 DEF Types
    <2> QED
      BY <2>2, <2>3
  <1> QED
    BY <1>3, <1>4 DEF Consistent

LEMMA InvariantRepaired == IInv => ConsistentWhenRepaired
  <1> SUFFICES ASSUME IInv, Quiet, ~broken PROVE Consistent
    BY DEF ConsistentWhenRepaired
  <1>1. \A x \in Client : pc[x] = "idle"
    BY DEF Quiet, Active
  <1>2. recovery = {}
    BY <1>1 DEF IInv, RecoveryOwned, Owns, After
  <1>3. \A n \in Name : ~Dangling(n)
    <2> SUFFICES ASSUME NEW n \in Name, Dangling(n) PROVE FALSE
      OBVIOUS
    <2>1. n \in entries /\ md[n] = Missing
      BY LookupIsRaw DEF Dangling, Found, Known, IInv
    <2> QED
      BY <1>1, <2>1 DEF IInv, EntryHasMetadata, Unlinking, Making, Entering, Entered
  <1> QED
    BY <1>2, <1>3, InvariantShows

LEMMA InvariantNames == IInv => DanglingShows /\ NoFileLost
  <1> SUFFICES ASSUME IInv PROVE DanglingShows /\ NoFileLost
    OBVIOUS
  <1>1. DanglingShows
    BY InvariantShows DEF DanglingShows
  <1>2. NoFileLost
    BY LookupIsRaw DEF NoFileLost, IInv, LiveNamed
  <1> QED
    BY <1>1, <1>2

\* Type correctness of the directory's keys and of the numbers that creates take:
\* a create takes one inode number however often clients die.
THEOREM TypeCorrect ==
  ASSUME WithoutLinks
  PROVE  Spec => []TypeOK
  BY InvariantHolds, InvariantTypes, PTL

\* Any number of clients that create, unlink, rename and change attributes at the
\* same time, and die between any two requests to the drives, leave a directory
\* that lists exactly the files it has metadata of once nobody is at work and
\* fsck_directory has finished, with one name for every file.
THEOREM RepairedIsConsistent ==
  ASSUME WithoutLinks
  PROVE  Spec => []ConsistentWhenRepaired
  BY InvariantHolds, InvariantRepaired, PTL

\* "Every invalid file system state can be detected by dangling directory
\* entries": whatever dead clients have left behind shows as an entry without
\* metadata or a recovery entry, which is what scan_direntries looks for.
THEOREM DamageShows ==
  ASSUME WithoutLinks
  PROVE  Spec => []DanglingShows
  BY InvariantHolds, InvariantNames, PTL

\* No crash, and no repair by recover_rename, takes the last name from a file
\* that hflat_create has created and hflat_unlink has not removed.
THEOREM FilesKeepNames ==
  ASSUME WithoutLinks
  PROVE  Spec => []NoFileLost
  BY InvariantHolds, InvariantNames, PTL

=============================================================================
