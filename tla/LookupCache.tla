---------------------------- MODULE LookupCache ----------------------------
(***************************************************************************)
(* The metadata cache of one client and the request threads that use it:   *)
(* class LRUcache, the fill protocol of lookup (get, block, fetch, add),   *)
(* and the requests that read, create, change, write back and delete       *)
(* metadata with the version that the cached object holds.                 *)
(*                                                                         *)
(* Cached objects are shared: a thread that got one from the cache and the *)
(* cache itself hold the same MetadataInfo, so what a request assigns to   *)
(* it is seen by the others before it is stored.  Metadata is abstracted   *)
(* to its key version (0: none, the key does not exist) and to whether it  *)
(* has an inode number; a file has one data block, whose DataInfo has      *)
(* updates that are not stored or has not.  The parent directory is one    *)
(* more key: its lookup and its time stamps are requests of their own.     *)
(*                                                                         *)
(* Each method of LRUcache holds the mutex of the cache and is one step; a *)
(* thread in get waits while its key is blocked.                           *)
(***************************************************************************)
EXTENDS Naturals, Sequences, FiniteSets, SequencesExt

CONSTANTS
    Thread,       \* request threads of the client
    Key,          \* system paths
    Capacity,     \* capacity of the cache, 1000 in the code
    Ops,          \* requests made
    Expiry,       \* is cache_expiration other than 0?
    Foreign,      \* may other clients write?
    Faults,       \* may requests to the drives fail?
    MaxOps,       \* bound: requests started
    MaxWrites     \* bound: versions written

AllOps == {"getattr", "utimens", "create", "unlink", "write", "fsync"}

ASSUME CacheAssumption ==
    /\ Capacity \in Nat \ {0}
    /\ Ops \subseteq AllOps
    /\ Expiry \in BOOLEAN /\ Foreign \in BOOLEAN /\ Faults \in BOOLEAN
    /\ MaxOps \in Nat /\ MaxWrites \in Nat \ {0}
    /\ "none" \notin Key
    /\ IsFiniteSet(Thread) /\ IsFiniteSet(Key)

\* MetadataInfo objects; one that nobody refers to is free again.
Object == 1 .. Cardinality(Thread) + Cardinality(Key) + 1
NoObject == 0

VARIABLES
    store,      \* drives: version of each metadata key, 0 when there is none
    entries,    \* drives: names in the directory
    writes,     \* versions generated so far
    lru,        \* list of cached keys, most recently used first
    item,       \* cached object of each key
    outdated,   \* items that are there for longer than expiration_time
    blocked,    \* blocked_keys
    version,    \* MetadataInfo::keyVersion of each object
    live,       \* objects with an inode number
    dirtyData,  \* MetadataInfo::dirty_data of each object: the key of its file
    updates,    \* keys of the files whose DataInfo has updates
    pc,         \* where each thread is
    op,         \* what its request does
    key,        \* the key it looks up
    mdi,        \* the object it holds
    written,    \* the version its Put stored
    started,    \* history: requests started
    exits       \* REQ_TRUE has ended the process

cacheVars  == <<lru, item, outdated, blocked>>
objectVars == <<version, live, dirtyData, updates>>
threadVars == <<op, key, mdi, written>>
driveVars  == <<store, entries, writes>>
vars == <<driveVars, cacheVars, objectVars, pc, threadVars, started, exits>>

Init ==
    /\ store \in [Key -> {0, 1}]
    /\ entries = {k \in Key : store[k] # 0}
    /\ writes = 1
    /\ lru = <<>>
    /\ item = [k \in Key |-> NoObject]
    /\ outdated = {}
    /\ blocked = {}
    /\ version = [o \in Object |-> 0]
    /\ live = {}
    /\ dirtyData = [o \in Object |-> "none"]
    /\ updates = {}
    /\ pc = [t \in Thread |-> "idle"]
    /\ op = [t \in Thread |-> "none"]
    /\ key = [t \in Thread |-> "none"]
    /\ mdi = [t \in Thread |-> NoObject]
    /\ written = [t \in Thread |-> 0]
    /\ started = 0
    /\ exits = FALSE

-----------------------------------------------------------------------------
(* LRUcache.                                                               *)

Cached(k) == item[k] # NoObject

\* The dirty functor: the object refers to data with updates.
Dirty(o) == dirtyData[o] \in updates

\* Mutant of Expired: dirty items expire like others.
ExpiredDirty(k) == k \in outdated

\* Dirty items do not expire.
Expired(k) == k \in outdated /\ ~Dirty(item[k])

\* The list after cache.erase(lookup[k]).
Without(list, k) ==
    IF k \in Range(list) THEN RemoveAt(list, CHOOSE i \in DOMAIN list : list[i] = k) ELSE list

\* Mutant of RemoveItem: the list keeps the key.
RemoveFromMap(k) ==
    /\ item' = [item EXCEPT ![k] = NoObject]
    /\ outdated' = outdated \ {k}
    /\ UNCHANGED lru

\* remove(k): out of the list and the hash map.
RemoveItem(k) ==
    /\ lru' = Without(lru, k)
    /\ item' = [item EXCEPT ![k] = NoObject]
    /\ outdated' = outdated \ {k}

\* invalidate(k): remove the item and unblock the key, whoever blocked it.
Invalidate(k) == RemoveItem(k) /\ blocked' = blocked \ {k}

\* add(k, o) refuses when an item is there that has not expired.
AddRefused(k) == Cached(k) /\ ~Expired(k)

\* One pass through the loop in add, at an item of the list: a clean item goes
\* while the size is not below the capacity.  Erasing the item that a reverse
\* iterator refers to and incrementing it skips the item in front of it; when
\* the erased item is the first one, the iterator wraps to the end.
Visit(st) ==
    IF st.at = 0 \/ Len(st.list) < Capacity THEN st
    ELSE IF Dirty(item[st.list[st.at]]) THEN [st EXCEPT !.at = @ - 1]
    ELSE [list |-> RemoveAt(st.list, st.at),
          at   |-> IF st.at = 1 THEN Len(st.list) - 1 ELSE st.at - 2]

\* The loop, from the least recently used item on.  Between two wraps the
\* iterator passes each item once, and a wrap makes the list shorter.
MakeRoom(list) ==
    LET loop[n \in Nat] == IF n = 0 THEN [list |-> list, at |-> Len(list)] ELSE Visit(loop[n - 1])
    IN  loop[Len(list) * Len(list)].list

\* Mutant of Add: the key stays blocked.
AddBlocked(k, o) ==
    LET room == MakeRoom(Without(lru, k)) IN
    /\ lru' = <<k>> \o room
    /\ item' = [x \in Key |-> IF x = k THEN o
                              ELSE IF x \in Range(room) THEN item[x]
                              ELSE NoObject]
    /\ outdated' = (outdated \cap Range(room)) \ {k}
    /\ UNCHANGED blocked

\* Otherwise add makes room, puts the item in front and unblocks the key.
Add(k, o) ==
    LET room == MakeRoom(Without(lru, k)) IN
    /\ lru' = <<k>> \o room
    /\ item' = [x \in Key |-> IF x = k THEN o
                              ELSE IF x \in Range(room) THEN item[x]
                              ELSE NoObject]
    /\ outdated' = (outdated \cap Range(room)) \ {k}
    /\ blocked' = blocked \ {k}

-----------------------------------------------------------------------------
(* Requests.                                                               *)

Label == {"idle", "get", "block", "fetch", "add", "put", "putdone", "putstale",
          "putfailed", "entry", "init", "create", "invalidate", "delete",
          "unentry", "write", "setdirty", "sync", "flush", "return"}

Goto(t, label) == pc' = [pc EXCEPT ![t] = label]

\* The request returns and drops its object.
Return(t) ==
    /\ Goto(t, "idle")
    /\ op' = [op EXCEPT ![t] = "none"]
    /\ key' = [key EXCEPT ![t] = "none"]
    /\ mdi' = [mdi EXCEPT ![t] = NoObject]
    /\ written' = [written EXCEPT ![t] = 0]

\* REQ_TRUE or REQ_0 fails: the process ends and only the drives remain.
Exit ==
    /\ exits' = TRUE
    /\ lru' = <<>>
    /\ item' = [k \in Key |-> NoObject]
    /\ outdated' = {} /\ blocked' = {} /\ live' = {} /\ updates' = {}
    /\ version' = [o \in Object |-> 0]
    /\ dirtyData' = [o \in Object |-> "none"]
    /\ pc' = [u \in Thread |-> "idle"]
    /\ op' = [u \in Thread |-> "none"]
    /\ key' = [u \in Thread |-> "none"]
    /\ mdi' = [u \in Thread |-> NoObject]
    /\ written' = [u \in Thread |-> 0]

\* Room for the version that each request in progress may still write.
WritesLeft == writes + Cardinality({t \in Thread : op[t] # "none"}) < MaxWrites

StartRequest(t, k, o) ==
    /\ pc[t] = "idle" /\ ~exits
    /\ started < MaxOps /\ WritesLeft
    /\ started' = started + 1
    /\ op' = [op EXCEPT ![t] = o]
    /\ key' = [key EXCEPT ![t] = k]
    /\ Goto(t, "get")
    /\ UNCHANGED <<driveVars, cacheVars, objectVars, mdi, written, exits>>

\* Where a request goes with the object that lookup found.  fsync writes the
\* metadata first when the file grew or in posix mode FULL.
Proceed(t, o) ==
    IF o \notin live
    THEN IF op[t] = "create" THEN {"entry"} ELSE {"return"}
    ELSE CASE op[t] = "getattr" -> IF Dirty(o) THEN {"sync"} ELSE {"return"}
           [] op[t] = "fsync"   -> IF Dirty(o) THEN {"put", "flush"} ELSE {"return"}
           [] op[t] = "utimens" -> {"put"}
           [] op[t] = "unlink"  -> {"invalidate"}
           [] op[t] = "write"   -> {"write"}
           [] op[t] = "create"  -> {"return"}

\* lookup_cache.get, a hit: the item becomes the most recently used one.
GetHit(t) ==
    LET k == key[t] IN
    /\ pc[t] = "get" /\ k \notin blocked
    /\ Cached(k) /\ ~Expired(k)
    /\ lru' = <<k>> \o Without(lru, k)
    /\ mdi' = [mdi EXCEPT ![t] = item[k]]
    /\ \E label \in Proceed(t, item[k]) : Goto(t, label)
    /\ UNCHANGED <<driveVars, item, outdated, blocked, objectVars, op, key,
                   written, started, exits>>

\* lookup_cache.get, a miss: an expired item is removed.
GetMiss(t) ==
    LET k == key[t] IN
    /\ pc[t] = "get" /\ k \notin blocked
    /\ ~Cached(k) \/ Expired(k)
    /\ RemoveItem(k)
    /\ Goto(t, "block")
    /\ UNCHANGED <<driveVars, blocked, objectVars, threadVars, started, exits>>

\* lookup_cache.block: the first one fetches, the others go back to get.
Block(t) ==
    /\ pc[t] = "block"
    /\ blocked' = blocked \cup {key[t]}
    /\ Goto(t, IF key[t] \in blocked THEN "get" ELSE "fetch")
    /\ UNCHANGED <<driveVars, lru, item, outdated, objectVars, threadVars,
                   started, exits>>

Referenced(o) == (\E k \in Key : item[k] = o) \/ (\E t \in Thread : mdi[t] = o)
FreeObject == CHOOSE o \in Object : ~Referenced(o)

\* get_metadata into a new object; that of a missing key has no inode number.
Fetch(t) ==
    LET found == store[key[t]] IN
    /\ pc[t] = "fetch"
    /\ mdi' = [mdi EXCEPT ![t] = FreeObject]
    /\ version' = [version EXCEPT ![FreeObject] = found]
    /\ live' = IF found = 0 THEN live \ {FreeObject} ELSE live \cup {FreeObject}
    /\ dirtyData' = [dirtyData EXCEPT ![FreeObject] = "none"]
    /\ Goto(t, "add")
    /\ UNCHANGED <<driveVars, cacheVars, updates, op, key, written, started, exits>>

\* Mutant of FetchFails: the error path does not invalidate.
FetchFailsBlocked(t) ==
    /\ pc[t] = "fetch" /\ Faults
    /\ Return(t)
    /\ UNCHANGED <<driveVars, cacheVars, objectVars, started, exits>>

\* get_metadata fails: invalidate, so that waiting threads go on, and return.
FetchFails(t) ==
    /\ pc[t] = "fetch" /\ Faults
    /\ Invalidate(key[t])
    /\ Return(t)
    /\ UNCHANGED <<driveVars, objectVars, started, exits>>

\* REQ_TRUE(lookup_cache.add(key, mdi)).
AddItem(t) ==
    /\ pc[t] = "add"
    /\ ~AddRefused(key[t])
    /\ Add(key[t], mdi[t])
    /\ \E label \in Proceed(t, mdi[t]) : Goto(t, label)
    /\ UNCHANGED <<driveVars, objectVars, threadVars, started, exits>>

AddRefusedExits(t) ==
    /\ pc[t] = "add"
    /\ AddRefused(key[t])
    /\ Exit
    /\ UNCHANGED <<driveVars, started>>

\* The file system is mounted again.
Remount ==
    /\ exits
    /\ exits' = FALSE
    /\ UNCHANGED <<driveVars, cacheVars, objectVars, pc, threadVars, started>>

\* put_metadata: Put that requires the version the object holds, ...
PutRemote(t) ==
    LET k == key[t] IN
    /\ pc[t] = "put"
    /\ \/ /\ store[k] = version[mdi[t]]
          /\ store' = [store EXCEPT ![k] = writes + 1]
          /\ writes' = writes + 1
          /\ written' = [written EXCEPT ![t] = writes + 1]
          /\ Goto(t, "putdone")
       \/ /\ store[k] # version[mdi[t]]
          /\ Goto(t, "putstale")
          /\ UNCHANGED <<store, writes, written>>
       \/ /\ Faults
          /\ Goto(t, "putfailed")
          /\ UNCHANGED <<store, writes, written>>
    /\ UNCHANGED <<entries, cacheVars, objectVars, op, key, mdi, started, exits>>

\* Mutant of PutDone: a Put that succeeded is retried.
PutDoneRetries(t) ==
    /\ pc[t] = "putdone"
    /\ version' = [version EXCEPT ![mdi[t]] = written[t]]
    /\ outdated' = outdated \ {key[t]}
    /\ Goto(t, "get")
    /\ UNCHANGED <<driveVars, lru, item, blocked, live, dirtyData, updates,
                   threadVars, started, exits>>

\* ... then the new version goes into the object and the item is revalidated.
\* fsync goes on to the data.
PutDone(t) ==
    /\ pc[t] = "putdone"
    /\ version' = [version EXCEPT ![mdi[t]] = written[t]]
    /\ outdated' = outdated \ {key[t]}
    /\ \/ op[t] = "fsync" /\ Goto(t, "flush") /\ UNCHANGED threadVars
       \/ op[t] # "fsync" /\ Return(t)
    /\ UNCHANGED <<driveVars, lru, item, blocked, live, dirtyData, updates,
                   started, exits>>

\* The item is invalidated on any failure.  After a version mismatch the
\* request starts again from its lookup.
PutStale(t) ==
    /\ pc[t] = "putstale"
    /\ Invalidate(key[t])
    /\ Goto(t, "get")
    /\ UNCHANGED <<driveVars, objectVars, threadVars, started, exits>>

\* After another failure utimens returns it and fsync goes on regardless.
PutFailed(t) ==
    /\ pc[t] = "putfailed"
    /\ Invalidate(key[t])
    /\ \/ op[t] = "fsync" /\ Goto(t, "flush") /\ UNCHANGED threadVars
       \/ op[t] # "fsync" /\ Return(t)
    /\ UNCHANGED <<driveVars, objectVars, started, exits>>

\* hflat_create: create_directory_entry, which fails when the name is taken, ...
CreateEntry(t) ==
    /\ pc[t] = "entry"
    /\ \/ /\ key[t] \notin entries
          /\ entries' = entries \cup {key[t]}
          /\ Goto(t, "init")
          /\ UNCHANGED threadVars
       \/ /\ key[t] \in entries \/ Faults
          /\ UNCHANGED entries
          /\ Return(t)
    /\ UNCHANGED <<store, writes, cacheVars, objectVars, started, exits>>

\* ... initialize_metadata, on the object that the cache may hold, ...
InitializeMetadata(t) ==
    /\ pc[t] = "init"
    /\ live' = live \cup {mdi[t]}
    /\ Goto(t, "create")
    /\ UNCHANGED <<driveVars, cacheVars, version, dirtyData, updates, threadVars,
                   started, exits>>

\* ... and create_metadata, which requires that there is no such key yet.
CreateMetadata(t) ==
    /\ pc[t] = "create"
    /\ store[key[t]] = 0
    /\ store' = [store EXCEPT ![key[t]] = writes + 1]
    /\ writes' = writes + 1
    /\ version' = [version EXCEPT ![mdi[t]] = writes + 1]
    /\ Return(t)
    /\ UNCHANGED <<entries, cacheVars, live, dirtyData, updates, started, exits>>

\* REQ_0(create_metadata(mdi)).
CreateFails(t) ==
    /\ pc[t] = "create"
    /\ store[key[t]] # 0 \/ Faults
    /\ Exit
    /\ UNCHANGED <<driveVars, started>>

\* hflat_unlink: delete_metadata invalidates first ...
DeleteInvalidate(t) ==
    /\ pc[t] = "invalidate"
    /\ Invalidate(key[t])
    /\ Goto(t, "delete")
    /\ UNCHANGED <<driveVars, objectVars, threadVars, started, exits>>

\* ... and deletes afterwards; a version mismatch starts the request again.
DeleteRemote(t) ==
    LET k == key[t] IN
    /\ pc[t] = "delete"
    /\ \/ /\ store[k] # 0 /\ store[k] = version[mdi[t]]
          /\ store' = [store EXCEPT ![k] = 0]
          /\ Goto(t, "unentry")
          /\ UNCHANGED threadVars
       \/ /\ store[k] # 0 /\ store[k] # version[mdi[t]]
          /\ Goto(t, "get")
          /\ UNCHANGED <<store, threadVars>>
       \/ /\ store[k] = 0 \/ Faults
          /\ Return(t)
          /\ UNCHANGED store
    /\ UNCHANGED <<entries, writes, cacheVars, objectVars, started, exits>>

\* REQ_0(delete_directory_entry(...)).
DeleteEntry(t) ==
    /\ pc[t] = "unentry"
    /\ key[t] \in entries
    /\ entries' = entries \ {key[t]}
    /\ Return(t)
    /\ UNCHANGED <<store, writes, cacheVars, objectVars, started, exits>>

DeleteEntryFails(t) ==
    /\ pc[t] = "unentry"
    /\ key[t] \notin entries \/ Faults
    /\ Exit
    /\ UNCHANGED <<driveVars, started>>

\* hflat_write: do_rw puts the data into the block ...
WriteData(t) ==
    /\ pc[t] = "write"
    /\ updates' = updates \cup {key[t]}
    /\ Goto(t, "setdirty")
    /\ UNCHANGED <<driveVars, cacheVars, version, live, dirtyData, threadVars,
                   started, exits>>

\* ... and setDirtyData ties it to the metadata.  A write up to the end of the
\* block is flushed at once.
SetDirtyData(t) ==
    /\ pc[t] = "setdirty"
    /\ dirtyData' = [dirtyData EXCEPT ![mdi[t]] = key[t]]
    /\ \E label \in {"return", "sync"} : Goto(t, label)
    /\ UNCHANGED <<driveVars, cacheVars, version, live, updates, threadVars,
                   started, exits>>

\* write and getattr call hflat_fsync, which looks the path up again.
CallFsync(t) ==
    /\ pc[t] = "sync"
    /\ op' = [op EXCEPT ![t] = "fsync"]
    /\ Goto(t, "get")
    /\ UNCHANGED <<driveVars, cacheVars, objectVars, key, mdi, written, started, exits>>

\* put_data, of the block that the object referred to.
Flush(t) ==
    /\ pc[t] = "flush"
    /\ \/ updates' = updates \ {key[t]}
       \/ Faults /\ UNCHANGED updates
    /\ Return(t)
    /\ UNCHANGED <<driveVars, cacheVars, version, live, dirtyData, started, exits>>

Done(t) ==
    /\ pc[t] = "return"
    /\ Return(t)
    /\ UNCHANGED <<driveVars, cacheVars, objectVars, started, exits>>

\* Time passes.
Expire(k) ==
    /\ Expiry /\ Cached(k) /\ k \notin outdated
    /\ outdated' = outdated \cup {k}
    /\ UNCHANGED <<driveVars, lru, item, blocked, objectVars, pc, threadVars,
                   started, exits>>

\* Another client changes or deletes the file.
ForeignWrite(k) ==
    /\ Foreign /\ WritesLeft /\ store[k] # 0
    /\ writes' = writes + 1
    /\ \/ store' = [store EXCEPT ![k] = writes + 1] /\ UNCHANGED entries
       \/ store' = [store EXCEPT ![k] = 0] /\ entries' = entries \ {k}
    /\ UNCHANGED <<cacheVars, objectVars, pc, threadVars, started, exits>>

\* The bound on requests is reached and all of them have returned.
AllServed ==
    /\ started = MaxOps \/ ~WritesLeft
    /\ ~exits
    /\ \A t \in Thread : pc[t] = "idle"
    /\ UNCHANGED vars

Step(t) ==
    \/ GetHit(t) \/ GetMiss(t) \/ Block(t) \/ Fetch(t) \/ FetchFails(t)
    \/ AddItem(t) \/ AddRefusedExits(t)
    \/ PutRemote(t) \/ PutDone(t) \/ PutStale(t) \/ PutFailed(t)
    \/ CreateEntry(t) \/ InitializeMetadata(t) \/ CreateMetadata(t) \/ CreateFails(t)
    \/ DeleteInvalidate(t) \/ DeleteRemote(t) \/ DeleteEntry(t) \/ DeleteEntryFails(t)
    \/ WriteData(t) \/ SetDirtyData(t) \/ CallFsync(t) \/ Flush(t) \/ Done(t)

Next ==
    \/ \E t \in Thread, k \in Key, o \in Ops : StartRequest(t, k, o)
    \/ \E t \in Thread : Step(t)
    \/ \E k \in Key : Expire(k) \/ ForeignWrite(k)
    \/ Remount
    \/ AllServed

Spec == Init /\ [][Next]_vars

\* A runnable thread runs and every request to a drive is answered.  Nothing
\* is assumed about the order in which waiting threads get the mutex.
FairSpec == Spec /\ \A t \in Thread : WF_vars(Step(t))

-----------------------------------------------------------------------------
(* Properties.                                                             *)

\* Type invariant of the drives, the cache, the shared objects and the requests.
TypeOK ==
    /\ store \in [Key -> 0 .. MaxWrites]
    /\ entries \subseteq Key
    /\ writes \in 1 .. MaxWrites
    /\ lru \in Seq(Key)
    /\ item \in [Key -> Object \cup {NoObject}]
    /\ outdated \subseteq Key /\ blocked \subseteq Key
    /\ version \in [Object -> 0 .. MaxWrites]
    /\ live \subseteq Object
    /\ dirtyData \in [Object -> Key \cup {"none"}]
    /\ updates \subseteq Key
    /\ pc \in [Thread -> Label]
    /\ op \in [Thread -> AllOps \cup {"none"}]
    /\ key \in [Thread -> Key \cup {"none"}]
    /\ mdi \in [Thread -> Object \cup {NoObject}]
    /\ written \in [Thread -> 0 .. MaxWrites]
    /\ started \in 0 .. MaxOps /\ exits \in BOOLEAN

\* List and hash map agree: no key is in the list twice, and each key in the
\* list has an item.  add, get, remove and invalidate change both.
ListMatchesMap ==
    /\ Range(lru) = {k \in Key : Cached(k)}
    /\ Len(lru) = Cardinality(Range(lru))
    /\ outdated \subseteq Range(lru)

\* A blocked key has a thread that is fetching it and will unblock it: no
\* error path of lookup leaves a key blocked for good.
BlockedIsFetched ==
    \A k \in blocked : \E t \in Thread : pc[t] \in {"fetch", "add"} /\ key[t] = k

\* Every request returns, or the process ends, whatever the others do.
RequestsReturn == \A t \in Thread : pc[t] # "idle" ~> pc[t] = "idle"

\* "Dirty elements cannot be expired from the cache": an item whose object
\* refers to unwritten data leaves the cache only through the invalidate of a
\* failed or deleting request or with the process, never to expiration or to
\* make room for another item.
DirtyNotEvicted ==
    [][\A k \in Key :
          Cached(k) /\ Dirty(item[k]) /\ item'[k] # item[k]
          => exits' \/ \E t \in Thread :
                key[t] = k /\ pc[t] \in {"fetch", "putstale", "putfailed", "invalidate"}
      ]_vars

\* Once no request is in progress, the cache of the only client holds the
\* metadata the drives hold.
CoherentWhenIdle ==
    (\A t \in Thread : pc[t] = "idle") =>
        \A k \in Key : Cached(k) => version[item[k]] = store[k]

\* REQ_TRUE in lookup relies on add never finding an item of a blocked key.
AddAccepted == \A t \in Thread : pc[t] = "add" => ~AddRefused(key[t])

\* REQ_0 in hflat_create relies on the directory entry to keep others from
\* creating the metadata.
CreateAccepted == \A t \in Thread : pc[t] = "create" => store[key[t]] = 0

\* fsync of a file that is there returns only when the data written before it
\* is stored: data and metadata are flushed as a unit.
FsyncFlushes ==
    \A t \in Thread :
        pc[t] = "return" /\ op[t] = "fsync" /\ mdi[t] \in live => key[t] \notin updates

\* After an add the cache is above its capacity only when no other item could
\* be removed.
CapacityHeld ==
    [][\A k \in Key :
          ~Cached(k) /\ item'[k] # NoObject /\ Len(lru') > Capacity
          => \A x \in Range(Tail(lru')) : Dirty(item[x])
      ]_vars
=============================================================================
