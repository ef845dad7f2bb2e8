# h-flat in TLA+

h-flat is a distributed POSIX file system on Kinetic key-value drives. The full
path of a file is the key of its metadata, so lookup needs no directory
traversal; operations that would change many keys (directory moves, links,
permission changes of directories) are recorded in a shared log, which every
client replays into a local path mapping that lookup consults.

This directory holds TLA+ specifications of the parts of h-flat whose
correctness depends on interleavings, failures and long sequences of requests,
the TLC configurations that check them, and TLAPS proofs. `PROJECT.json` maps
every definition to the source lines it models. Source paths below are relative
to `src/src/`.

Check a run with `tlc -config <cfg> <module>`, the proofs of a module with
`tlapm <module>Proofs.tla`.

## 1. Inventory

| Component | State | Operations | Talks to |
|---|---|---|---|
| Path-mapping log (`util.cc`, `namespace/kinetic_helper.cc`, `pathmap_db.cc`) | keys `db_1`, `db_2`, ..., version key, snapshot key; per client `snapshotVersion` and the map | `database_operation`, `database_update`, `put_db_entry`, `updateSnapshot`, `loadSnapshot`, `serializeSnapshot` | the drives; called by rename, link, chmod, unlink, rmdir and by lookup of a FORCE_UPDATE inode |
| Path mapping (`pathmap_db.cc`) | map user path -> MOVE / REUSE / SYMLINK / NONE | `toSystemPath`, `searchPathRecursive`, `addDirectoryMove`, `addSoftLink`, `addUnlink`, `addPermissionChange` | changed only by the log; read by every lookup |
| File and directory operations (`fuseops/*.cc`) | metadata keys, directory entry keys, recovery entries | create, mkdir, unlink, rmdir, rename, readdir | mapping, log, cache, inode numbers |
| Inode numbers (`util.cc`, `main.cc`) | key `inode_generation`; per client base and 16-bit counter | `util_generate_inode_number`, token grab | the drives |
| Metadata and data caches (`lru_cache.h`, `lookup.cc`) | LRU list, hash map, blocked keys; shared `MetadataInfo` / `DataInfo` objects | `get`, `add`, `block`, `invalidate`; `lookup` | all request threads, `get_metadata`, `put_metadata`, `delete_metadata` |
| File data (`fuseops/data.cc`, `data_info.cc`, `fuseops/sync.cc`) | data blocks with a list of unwritten updates | read, write, truncate, fsync | data cache, metadata |
| Replicated keys (`namespace/distributed_kinetic_namespace.cc`) | one record per drive of a partition | `Put`, `Delete`, `Get`, `evaluateWriteOperation`, `readRepair` | the drives |
| Cluster map (same file, `proto/replication.proto`, `main.cc`) | status of each drive, cluster version, log drives | `disableDrive`, `enableDrive`, `synchronizeDrive`, partition updates | replicated keys |
| Permissions (`fuseops/permission.cc`, `metadata_info.cc`) | per-inode path permissions with a time stamp | chmod, chown, staleness check in lookup | log, mapping |
| Links (`fuseops/link.cc`, `fuseops/file.cc`) | SYMLINK mappings, forwarding keys of hard links | symlink, readlink, link, unlink | log, metadata |
| fsck (`fsck/fsck.cc`) | none of its own | `fsck_directory` replays recovery entries | directory entries, metadata |

What is hard:

* **Several clients** append to one log without locks; each works with a local,
  possibly outdated map, and the version and snapshot keys are overwritten
  unconditionally, so they can fall behind.
* **Several request threads** of one client (fuse's default) share the map, the
  caches and the cached objects; most critical sections are single methods, and
  the protocols made of several methods are not protected.
* **Several drives** are written by each client in its own order; partial writes
  are resolved by the clients themselves with `readRepair`.
* **Crashes** between the steps of a request, and requests that fail although
  they were stored.
* **Sequences**: the mapping after many moves, removals and reuses of names.
* `REQ_0`, `REQ_TRUE` and `assert` end the process of the mounted file system,
  so a violated assumption is itself a failure.

What makes each part correct: the log has no holes and every client's map is a
replay of one of its prefixes; an acknowledged entry is there once; calls return.
Inode numbers are unique. The cache's list and map agree, no key stays blocked,
dirty data is not dropped. Of concurrent writers of one version one wins, and the
drives of a partition agree with it. A drive that is called GREEN has all
acknowledged writes, through failures and repairs. Lookup finds the tree the user
built, and lets those users pass that all directories above let pass. A flush
stores its client's changes and undoes nobody else's. After a crash fsck makes
entries, metadata and link counts agree, and no file is lost. The list `hazards` in `PROJECT.json` has the places where this could go wrong, with
the properties that cover each.

## 2. Modules

| Module | Models | Its actions and the code |
|---|---|---|
| `PathmapLog` | the log, all clients, their request threads | one action per request to the drives and per critical section of `PathMapDB`: `OpBegin`, `PutEntryStored/Exists/Fails`, `PutVersion`, `SerializeSnapshot`, `PutSnapshot` (`database_operation`); `UpdBegin`, `GetVersion`, `ProbeFound/Missing`, `GetSnapshot`, `LoadSnapshot`, `FetchEntry`, `UpdFails` (`database_update`); `UpdateCheck`, `ApplyEntry`, `SetVersion` (`updateSnapshot`); `Mount`, `Crash` |
| `InodeGen` | inode numbers | `Generate`, `Refresh` and the two requests of a grab; mount, crash, failing requests |
| `LookupCache` | the metadata cache of one client and its threads | `LRUcache` methods are one step each (they hold its mutex); `lookup` is get, block, fetch, add; requests getattr, utimens, create, unlink, write, fsync; other clients, expiry, failures |
| `ReplicatedKey` | one key on the drives of a partition | `Begin`, one `WriteDrive` per drive in any order, `Evaluate`, the steps of `readRepair`, `Verdict`; reads from any drive; client crashes |
| `PathMap` | the meaning of the mapping for the user | requests as one step each, with the mapping, metadata keys, force_update inodes and directory entries they leave; `tree` is what the user expects |
| `FileData` | one file's blocks, its size, and both caches of each client | `BeginRead/Write/Fsync/Truncate` (lookup); `DoRead`, `DoWrite`, `BufferedWrite` (`do_rw`, `updateData`, `setDirtyData`); `Fsync`, `PutMd`, `PutMdMismatch` (`hflat_fsync`); `PutData`, `PutDataMismatch`, `GetData`, `GetDataGone`, `Stored` (`put_data` with `mergeDataChanges`); `TruncateMd`, `Cut`, `DeleteBlock` (`hflat_truncate`); `ExpireBlock`, `ExpireMd`; failing requests, `Crash` |
| `SharedFile` | what `FileData` promises: clients collect changes to a block, a flush applies them to the stored block in one step; an append may be taken back, a truncate removes a block, a crash loses what is pending | implemented by `FileData` (`ImplementsSharedFile`); `pending` is the update list of the cached block, `content` the stored block |
| `NameOps` | the names in one directory: entries, metadata keys, recovery entries, versions, link counts | one action per request to the drives of `hflat_create`, `hflat_unlink`, `unlink_hardlink`, `hflat_rename`, `rename_regular`, `rename_hardlink`, `hflat_hardlink`, `toHardlinkT`, `setxattr`, and of `fsck_directory`, `scan_direntries`, `recover_rename`; `Crash` before any of them |
| `ClusterMap` | one partition: records, cluster versions and stored maps of its drives, log drives, the map and the connections of each client | `Send`, `LogKey`, `Repeat`, `Evaluate`, `Repair` (`writeOperation` and what follows), `Read`, `Disable`/`Disabled`/`DisableFails`, `Check`, `Retest`, `Probe`, `Enable`/`Enabled`/`EnableFails` (`selfCheck`, `enableDrive`), `PutMap`, `SetVersion` (`putPartitionUpdate`, drive by drive), `SyncKeys`, `SyncKey`, `SyncGreen`, `Synchronized` (`synchronizeDrive`, in its thread); `Fail`, `Heal`, `Crash` |
| `PathPermission` | the path permissions along one path: stored metadata, the NONE entries of the log, cached objects | `lookup`, `Inherit`, `Return` (the staleness check of `lookup`, one directory at a time), `PutPermissions`, `ComputeChildren`, `LogChange`, `PutVerified` (`do_permission_change`), `PutTimes` and `CreateFile` (other writers of the same keys), `Update`, `Crash` |
| `MC*` | symmetry sets and small constants for TLC | |
| `PathmapLogProofs`, `InodeGenProofs`, `LookupCacheProofs`, `ReplicatedKeyProofs`, `FileDataProofs`, `PathPermissionProofs`, `ClusterMapProofs`, `NameOpsProofs` | theorems about the module each is named after, see section 4 | |

How the modules fit together. `PathmapLog` shows that a client's map is a replay
of a prefix of one log; `PathMap` and `PathPermission` then work with maps that are
such prefixes, `PathMap` with one that is up to date. `PathmapLog`, `InodeGen`,
`LookupCache`, `FileData`, `NameOps` and `PathPermission` see the drives as one
linearizable versioned store; `ReplicatedKey` shows how far several drives behave
like that when clients write the same key, `ClusterMap` how far they do while
drives fail and come back.

### Abstractions

* Entries of the log are numbers; the content of a map is the sequence of entries
  applied to it with the version each was applied at, because reuse names and
  permission time stamps are made from the version.
* The reset of the map on an entry of unknown type is left out: nothing writes one.
* `loadSnapshot` compares the version without the lock and then takes it; this is
  one step. `hasMapping` reads the map without the lock; it is atomic here.
* A path is a sequence of names. The code compares strings, at `/` but for the first
  check of rename (`rename.cc:34`), `strncmp` over the length of the source: it also
  refuses to move `/a` to `/ab`. `Begins` says which names begin other names in this
  way; in the runs none does, so that the most moves are possible.
* `PathMap` runs one request at a time, with a client that is up to date. What it
  says about the kernel's checks (a rename joins directories with directories, and
  never moves a directory below itself) is external.
* In `LookupCache` a file has one data block; the time stamps of a parent
  directory are a request of their own, as for any other key. The update of stale
  path permissions inside lookup is left out. The data cache is another instance of
  the same class and is not modelled a second time.
* In `ReplicatedKey` all drives are GREEN and answer; `disableDrive` ends the
  operation. A version is a number that stands for a UUID, or the counted version
  of a log entry (`Numbered`).
* In `FileData` a cell stands for a range of bytes, and its value is the client
  that wrote it. `pc` and `ret` are the call stack of write, fsync and put_data.
  `do_rw` cuts a write at the end of its block, and the rest is a request of its
  own; the kernel takes the offset of an append from the size of an earlier getattr.
  Whether a call appends is a matter of its descriptor (`req[c].append`): a client in
  `Appenders` may have one with `O_APPEND` next to a plain one. truncate flushes
  without a descriptor (`data.cc:125`), so never as an append.
* In `NameOps` the directory is one; a lookup is a Get, which also stands for a
  cached object of an earlier Get. `broken` says that a client has died since the
  last fsck. For `Root = FALSE` it is assumed that no file exists at the paths that
  fsck builds without separator.
* In `ClusterMap` every key has one writer, so that a record is there or not; the
  NoOps of `testPartition`, the loop of `getPartitionUpdate` and one `readRepair` are
  one step each. A call on a null connection and a loop past the end of the drives
  end the process, which is mounted again with the configured map.
* In `PathPermission` the nodes are one path; `database_operation` and
  `database_update` are one step each; an object knows whether its version is still
  the stored one.

## 3. Runs

| Run | Module, cfg | Shows |
|---|---|---|
| `log` | `MCPathmapLog`, `PathmapLog.cfg` | Two clients with one thread each, three operations, any number of updates, failures and crashes. `SnapshotIsReplay`: maps and stored snapshot are replays of a prefix. `LoggedOnce`: acknowledged entries are in the log, none twice. `NoHoles`. `OnlyForward`: maps do not go back, stored entries are not replaced. `EAlreadyMeansNewest`: the single probe behind an outdated version key suffices. |
| `log_live` | `PathmapLogLive.cfg` | `CallsReturn`: every call returns or its client dies, although the retry after `EEXIST` has no bound. |
| `inodes` | `MCInodeGen`, `InodeGen.cfg` | `UniqueInodes` and `GrantsDisjoint` over races for the token key, refreshes, failures, crashes and remounts. |
| `cache` | `MCLookupCache`, `LookupCache.cfg` | Two threads, two files, room for one item: `ListMatchesMap`, `BlockedIsFetched` (no error path leaves a key blocked), `DirtyNotEvicted`. |
| `cache_live` | `LookupCacheLive.cfg` | `RequestsReturn`: no request waits for a blocked key for ever. |
| `replicas` | `MCReplicatedKey`, `ReplicatedKey.cfg` | One round of puts and deletes of three clients on three drives, with crashes: `OneWinner`, `AckedOnAllDrives`, `DrivesAgree`. |
| `paths` | `MCPathMap`, `PathMap.cfg` | All sequences of five requests on paths of up to two of three names, except those in `Avoid`: `LookupFindsTree`, `NoOrphans`, `EntriesMatchTree`, `AssertionsHold`. |
| `files` | `MCFileData`, `FileData.cfg` | `WritesNotDropped`: a written cell is in the update list of a cached block until it is stored. (That the next fsync finds this block is another matter, see `LookupCacheFsync.cfg`.) `UpdatesInRange`: no update reaches behind its block's data, so that merging never reads past it. `SizeCoversData`: the stored size covers the stored data. `ImplementsSharedFile`: each Put of a block applies exactly the changes of its client to what is stored then, however often put_data has merged. |
| `names` | `MCNameOps`, `NameOps.cfg` | `ConsistentWhenRepaired`: once fsck has run after a crash, and when nobody is in a request, entries, metadata and link counts agree. `DanglingShows`: what is inconsistent shows as a dangling entry or a recovery entry, which is how fsck finds it. `NoFileLost`: a file that nobody removed has a name. |
| `names_fsck` | `NameOpsDirectory.cfg` | **Violation** of `ConsistentWhenRepaired` in a directory that is not the root: fsck looks the entries up without separator, finds nothing and deletes them all. |
| `cluster` | `MCClusterMap`, `ClusterMap.cfg` | `GreenIsUpToDate`: a drive that is GREEN in the newest map has every acknowledged write. `OneMapPerVersion`: clients that change the map at the same time do not give two maps one version. `VersionsGrow`: drives do not go back. |
| `permissions` | `MCPathPermission`, `PathPermission.cfg` | `VerifiedIsCurrent`: stored path permissions that no change in the log is newer than let exactly those users pass that the directories above let pass. `LookupEnforces`: so does the result of a lookup, with whatever was cached or stale. |

Each property of a passing run has a mutant in `PROJECT.json`: a definition, next
to the one it changes and commented "Mutant of", that breaks the property.

### Bounds

* `PathmapLog`: three log keys and `SnapInterval` 2 make a client that is more than
  an interval behind, so that the stored snapshot is used, and leave one entry to
  fetch after it. Each operation stores at most one entry, so with
  `MaxVersion = MaxOps` the log is never full. The interval is 42 in the code.
* `InodeGen`: a token of two numbers is used up after two requests; three tokens
  let both clients refresh, and a crashed one remount.
* `LookupCache`: capacity 1 with two keys forces evictions; three requests and
  three versions let one thread's request start and end within the other's.
* `ReplicatedKey`: three drives have a reference, a drive before and one after a
  given one in the repair loop. `AckedOnAllDrives` and `DrivesAgree` are claims
  about one round (`MaxOps = 1`).
* `PathMap`: three names are the fewest for a move over the origin of another move
  (`a` to `c`, `b` to `a`). Nine requests on paths of one name (`Depth = 1`,
  `MaxOps = 9`) pass too.
* `FileData`: two cells per block and an old cell make writes that start within,
  at and behind the end of the data; two blocks make a dirty block that has to be
  flushed before the next; three requests let a merge meet a block that was stored
  twice, and one fault hits any of their steps. One of the two clients may append.
  The `VIEW` of `MCFileData` hides what is left in the local variables of a client
  that is in no call, and `appended`, which no action reads.
* `NameOps`: three names are needed for a rename onto a file next to a third one;
  two clients with three requests overlap twice, one crash leaves any one request
  half done, and fsck may follow. `NameOpsThree.cfg` has three clients, four requests
  and two crashes, without hard links; it is the instance of the theorems' hypothesis.
* `ClusterMap`: two drives and a log drive are the smallest partition that survives
  a failure. Four map versions let a drive fail, return, become GREEN and one fail
  again; two faults let the log drive, a second drive or a client fail as well.
  Reads are only interesting when they meet an error or an outdated version, and
  are left out otherwise.
* `PathPermission`: depth 3 has a directory whose permissions are inherited before
  they are inherited by the file; two changes, one after the other, at any of the
  directories. `MCPerm` has a restriction on users and one on groups; the
  theorems cover all combinations of owner, group and x bits but those without any
  x bit, for which the properties do not hold (below).

### What the passing runs leave out

Some requests, overlaps and failures lead to states in which the properties do not
hold in the code. The constant `Avoid` names them; the passing runs leave them out
to show that the rest is right, and without a name TLC finds what it leads to. A
cfg is listed where there is one; elsewhere it is the cfg of the passing run
without that name.

| Module: `Avoid` | cfg | What TLC finds |
|---|---|---|
| `PathMap`: move onto mapping | `PathMapOnto.cfg` | `LookupFindsTree`: after `mv a c`, `mv b a` the new mapping replaces the REUSE mapping of `a`, `c` leads to `b`'s directory and `a`'s is unreachable (`pathmap_db.cc:281`). Swapping two directories gives a cycle, and `toSystemPath` does not return (`LookupTerminates`) |
| `PathMap`: remove reuse | | `AssertionsHold`: removing what got a reused name takes the REUSE mapping away, and the name then leads to the moved directory |
| `PathMap`: nested move | | `LookupFindsTree` fails for a move from or to a path below another directory |
| `PathMap`: replace by move | | `LookupFindsTree` fails for a directory moved onto an empty one |
| `PathMap`: move after chmod | | `AssertionsHold`: `addDirectoryMove` does not expect a NONE mapping |
| `FileData`: write during flush | `FileDataThreads.cfg` | `WritesNotDropped`: `forgetUpdates` (`kinetic_helper.cc:154`) forgets what another thread wrote during the Put |
| `FileData`: append over writes | | `WritesNotDropped`: a client has a plain and an `O_APPEND` descriptor of the file. A plain write has returned and is in the dirty block; an append into the same block finds that another client has changed the metadata, `hflat_fsync` invalidates the block (`sync.cc:47-48`), and the retry repeats the append only |
| `FileData`: shared, unflushed truncate | `FileDataTruncate.cfg` | `SizeCoversData`: blocks that are flushed after a truncate has put the size lie behind the end of the file; `UpdatesInRange`: after `DataInfo::truncate` the update list refers to cells that are gone, and a merge reads past the data |
| `FileData`: truncate fails | | `SizeCoversData`: truncate has put the size and a crash or an ignored error keeps the blocks (`data.cc:157`); the error may also be that the block to cut, cached from before, has been deleted by another truncate (needs three blocks) |
| `FileData`: block again | six requests | `ImplementsSharedFile`: one client has block 1 cached with two cells; another truncates the file to 0, which deletes the block, and stores one cell there; when the first then stores one cell, `mergeDataChanges` makes the data as long as its outdated copy (`data_info.cc:37`), and the block ends with a zero that nobody wrote |
| `FileData`: size not stored | | `SizeCoversData`: after an error that is not a mismatch the data is stored without the size (`sync.cc:52`, "Impossible Error") |
| `NameOps`: reused version | | `NoFileLost`: rename stores the version that the replaced metadata had (`rename.cc:76`); a client that looked that up before puts the replaced file back over the moved one |
| `NameOps`: stale source, link during rename, unlink during rename | | rename copies the metadata of its lookup and deletes the old name without regard to its version (`rename.cc:81`): a file that was put there, or a forwarding key, is lost |
| `NameOps`: link goes away | | a name is taken while lookup still follows its forwarding key to metadata that is gone: the new file is stored under the inode's key |
| `NameOps`: crash in link | | `NoFileLost`: `toHardlinkT` has put the forwarding key and not yet the metadata it leads to (`link.cc:93-97`); later the link count differs from the names, no entry dangles, and fsck does not see it |
| `NameOps`: use before fsck | | a half-done rename leaves metadata without entry; requests that use its names are not serialized by entries, and fsck takes what they have put there for the moved file |
| `NameOps`: target in use | `NameOpsThree.cfg` without it | `NoFileLost`, with three clients: a create of `c` is about to store its entry when a rename of `a` to `c` passes it; a third client unlinks the half-moved `c`, the rename dies, the create succeeds, and fsck takes the new file for the rename's copy and removes it (`fsck.cc:63`) |
| `NameOps`: online fsck | | `DanglingShows`: fsck deletes the entry of a create that has not stored its metadata yet; README.md says "This operation can be done online" |
| `ClusterMap`: unlogged | `ClusterMapLog.cfg` | `GreenIsUpToDate`: a write that itself finds the drive broken is acknowledged after `disableDrive`, behind the point where keys are logged; synchronization from the log does not repair it |
| `ClusterMap`: split | `ClusterMapSplit.cfg` | `GreenIsUpToDate`: `disableDrive` keeps the drive RED in the local map although `testPartition` refused, and the next write succeeds on one drive |
| `ClusterMap`: second failure | | a drive or the log drive fails before an earlier failure is resolved: the same, and `VersionsGrow` fails: `enableDrive` finds a drive that is ahead of the client's map and puts a map with a lower version there |
| `ClusterMap`: use during check | | `OneMapPerVersion`: a client that gives up the log drive and one that enables a drive use the same version; writes of other clients between the listing of keys and the last map of `synchronizeDrive` are missed; a write repeated after a cluster version mismatch is refused for its own record (`RefusedIsNotStored`, `Ops = {"put"}`, two keys) |
| `ClusterMap`: lost record (needs two keys) | `ClusterMapRecord.cfg` | `RecordsStay`: the repair of a deleted key stores the record of the key before it (`distributed_kinetic_namespace.cc:357`) |
| `ClusterMap`: delete again | | a Delete that is repeated after a cluster version mismatch gets NOT_FOUND from a working drive, which is then disabled, and two clients disable different drives under one version (`OneMapPerVersion`) |
| `PathPermission`: root | | a change of the root is never found for paths below it (`searchPathRecursive` stops before `/`) |
| `PathPermission`: old snapshot | `PathPermissionSnapshot.cfg` | `LookupEnforces`: chmod marks a directory as verified at a log version that has changes above it that it did not inherit |
| `PathPermission`: entry during chmod | | `put_metadata_forced` meets a mismatch, reads the directory again and drops the entries that chmod has computed |
| `PathPermission`: crash in chmod | | the new mode is stored, and neither the entries for children nor the log entry |
| `PathPermission`: crash before verify | three changes | `VerifiedIsCurrent`: the chmod of a directory dies between its log entry and `put_metadata_forced` (`permission.cc:140`), so that the directory is current but not marked; during a later chmod below it a client with an older snapshot takes it for current and stores what it inherits; `put_metadata_forced` of that chmod meets the mismatch, reads this back and marks it as verified |

Two more things are outside of what the properties claim:

* A directory **without any x bit** (`Perm` with `x = {}`): `computePathPermissionChildren`
  (`metadata_info.cc:91-127`) makes a NOT_UID and a NOT_GID entry, and none that keeps
  out users who are neither the owner nor in the group, so they reach what is below.
  `RestrictionsExact` in `PathPermissionProofs` states this for every mode; the
  permissions of the runs, and of the theorems, have an x bit.
* An **append that returned an error** (`EIO`: the size was stored and the Put of the
  block failed) leaves its cells in the cached block, where a later flush would store
  them. The next append into the same block that meets a version mismatch of the
  metadata invalidates the block (the O_APPEND branch of `sync.cc`), and these cells
  with it. Since the caller knows of the error, `owed` drops the cells of an append
  that fails (`AppendFails`), and the withdrawal of `SharedFile` may take back more
  than the append in progress.
* A **rename whose source is unlinked** by another client before the renaming client
  dies leaves a recovery entry for which `recover_rename` finds neither of the two
  names (`fsck.cc:48-75`): fsck does not remove it and is never done. `ConsistentWhenRepaired`
  speaks of directories in which fsck has finished.

### Further counterexamples

| cfg | Property | What TLC finds |
|---|---|---|
| `PathmapLogThreadsReplay.cfg` | `SnapshotIsReplay` | two threads of one client: the last assignment of `updateSnapshot` (`pathmap_db.cc:225`) is not under the lock and takes the version back below what the other thread has applied; the next update applies an entry twice. `LoggedOnce` still holds |
| `PathmapLogKeyBehind.cfg` | `VersionKeyNotBehind` | a late put of the version key makes the assertion of `database_update` (`util.cc:104`) fail in another client |
| `InodeGenQuits.cfg` | `AlwaysUnique` | a failed refresh resets the counter, and numbers of the old token are handed out again |
| `LookupCacheAdd.cfg` | `AddAccepted` | get and block are two critical sections (`lookup.cc:94`): a thread that missed can block a key that has just been added, its add is refused, and `REQ_TRUE` ends the process |
| `LookupCacheUnlink.cfg` | `CoherentWhenIdle` | a getattr between invalidate and Delete leaves a deleted file's metadata in the cache |
| `LookupCacheCreate.cfg` | `CreateAccepted` | another thread stores the shared, half-created object before `hflat_create` does |
| `LookupCacheFsync.cfg` | `FsyncFlushes` | after a version mismatch in fsync the retry no longer knows of the dirty block |
| `ReplicatedKeyRepair.cfg` | `GreenSawWrites` | a put replaces a version that is still on its way to the second drive: the repair there ignores the mismatch (`distributed_kinetic_namespace.cc:437`), both puts return OK, and a GREEN drive keeps the replaced version |
| `ReplicatedKeyDelete.cfg` | `NoDriveDisabled` | two concurrent deletes get different answers, and a working drive is disabled |
| `FileDataAppend.cfg` | `AppendsKept` | two clients append at the same offset, both return; "can't allow non-serialized data changes" (`sync.cc:46`) |
| `PathPermissionNested.cfg` | `NobodyEnds` | the same restriction on a directory and its parent: the loop that removes duplicates (`metadata_info.cc:136-139`) runs past the end |

Properties that are defined without a cfg of their own, and also violated:
`SizeMatchesInterval` of `PathmapLog` (a stored snapshot newer than the version that
was read), `CapacityHeld` of `LookupCache` (the sweep in `add` skips items),
`NothingLeftBehind` of `PathMap`, `ReadsSeeFile` of `FileData` (a write that grows the
file caches a block without fetching it; its old cells read as zeros until the
flush merges it), `NobodyDies` of `NameOps` (an unlink during a rename makes
`REQ_0` end the process), and `OneWinner` of `ReplicatedKey` for `Numbered = TRUE`
(two clients that put the same log entry cannot be told apart by `readRepair`).
With `Serial = TRUE`, operations that do not overlap, `GreenSawWrites` holds.

### Fairness

`FairSpec` of `PathmapLog` and of `LookupCache` asks for weak fairness of each
thread's `Step`: a request to a drive is answered or times out, and a thread that
can run does. Nothing is assumed about arrivals, crashes or other clients, nor
about the order in which threads get the mutex of the cache. `CallsReturn` needs
the bound on the operations: with operations arriving for ever, a slow client can
lose every race for the next log key. `RequestsReturn` is likewise under a bound
on writes by others, which also bounds the retries after a version mismatch.

## 4. Proofs

| Theorem | Statement |
|---|---|
| `PathmapLogProofs!Typing` | `Spec => []TypeOK` |
| `PathmapLogProofs!LoggedOnceCorrect` | `Spec => []LoggedOnce` |
| `PathmapLogProofs!ReplayCorrect` | `SingleThreaded` implies `Spec => [](SnapshotIsReplay /\ NoHoles)` |
| `PathmapLogProofs!NoHolesCorrect` | `SingleThreaded` implies `Spec => []NoHoles` |
| `PathmapLogProofs!OnlyForwardCorrect` | `SingleThreaded` implies `Spec => OnlyForward` |
| `PathmapLogProofs!EAlreadyCorrect` | `SingleThreaded` implies `Spec => EAlreadyMeansNewest` |
| `InodeGenProofs!Typing` | `Spec => []TypeOK` |
| `InodeGenProofs!GrantsCorrect` | `Spec => []GrantsDisjoint` |
| `InodeGenProofs!UniqueInodesCorrect` | `Spec => []UniqueInodes` |
| `LookupCacheProofs!BlockedIsFetchedCorrect` | `Spec => []BlockedIsFetched` |
| `LookupCacheProofs!ClientInvHolds` | `Spec => []ClientInv` (below) |
| `LookupCacheProofs!Typing` | `Spec => []TypeOK` |
| `LookupCacheProofs!ListMatchesMapCorrect` | `Spec => []ListMatchesMap` |
| `LookupCacheProofs!DirtyNotEvictedCorrect` | `Spec => DirtyNotEvicted` |
| `ReplicatedKeyProofs!Typing` | `Spec => []TypeOK` |
| `ReplicatedKeyProofs!OneWinnerCorrect` | `OneRound` implies `Spec => []OneWinner` |
| `ReplicatedKeyProofs!AckedCorrect` | `OneRound` implies `Spec => []AckedOnAllDrives` |
| `ReplicatedKeyProofs!DrivesAgreeCorrect` | `OneRound` implies `Spec => []DrivesAgree` |
| `FileDataProofs!WritesNotDroppedCorrect` | `Serial` implies `Spec => []WritesNotDropped` |
| `FileDataProofs!Typing` | `WholeTruncates` implies `Spec => []TypeOK` |
| `FileDataProofs!UpdatesInRangeCorrect` | `WholeTruncates` implies `Spec => []UpdatesInRange` |
| `FileDataProofs!SizeCoversDataCorrect` | `SizeFirst` implies `Spec => []SizeCoversData` |
| `FileDataProofs!SharedFileImplemented` | `Faithfully` implies `Spec => ImplementsSharedFile` |
| `PathPermissionProofs!RestrictionsExact` | what the entries made of a mode let pass, for every mode and user |
| `PathPermissionProofs!Typing` | `Spec => []TypeOK` |
| `PathPermissionProofs!VerifiedIsCurrentCorrect` | `Careful` implies `Spec => []VerifiedIsCurrent` |
| `PathPermissionProofs!LookupEnforcesCorrect` | `Careful` implies `Spec => []LookupEnforces` |
| `ClusterMapProofs!Typing` | `Spec => []TypeOK` |
| `ClusterMapProofs!DrivesHaveMapsCorrect` | `Spec => [](OneThreadPuts /\ DrivesHaveMaps)` |
| `NameOpsProofs!InvariantHolds` | `WithoutLinks` implies `Spec => []IInv` (below) |
| `NameOpsProofs!TypeCorrect` | `WithoutLinks` implies `Spec => []TypeOK` |
| `NameOpsProofs!RepairedIsConsistent` | `WithoutLinks` implies `Spec => []ConsistentWhenRepaired` |
| `NameOpsProofs!DamageShows` | `WithoutLinks` implies `Spec => []DanglingShows` |
| `NameOpsProofs!FilesKeepNames` | `WithoutLinks` implies `Spec => []NoFileLost` |

They hold for any sets of clients, threads, keys and users, any number of drives,
depth, block size and bounds, with failures and crashes. The assumptions are those
the modules declare about their constants, and the hypotheses of the table. Each
hypothesis names what TLC has a counterexample without (section 3), and is met by
the passing run of the module, `WithoutLinks` by `NameOpsThree.cfg`.

What a loop over a list computes (the making of room in `LRUcache::add`,
`mergeDataChanges`) is a recursive function on `Nat` in the models. Its equations are
proved from a run of the loop of every length, and what holds of every iteration by
the least iteration for which it does not.

**Log.** `TypeInv` adds to `TypeOK` that a client about to put the version key has
stored an entry under an existing log key. `ReplayInv` is inductive: `SnapshotIsReplay`
alone is not, because it does not say what a thread holds between two requests.
`LocalInv(t)` does: the version it read is still the version of the map, the
entries it has fetched are those that follow that version in the log
(`Continues`), what is left to apply ends at `toVersion`, and a snapshot it
fetched is a replay. `NoHoles` follows because an entry is put only right behind a
version whose replay exists. The first of these facts is where `SingleThreaded` is
needed, and `PathmapLogThreadsReplay.cfg` shows that without it the theorem is false. The
two ways in which other threads interfere, the log grows and their own clients
change, are covered by stability lemmas (`ReplayStable`, `ContinuesStable`).
`OnlyForward` is a consequence of `ReplayInv` step by step: what a thread applies or
loads is newer than the map. `EAlreadyMeansNewest` needs in addition that the probe
is at the entry after the map's version (`ProbesNext`); then `NoHoles` says that a
missing entry is the end of the log. `LoggedOnce` has an invariant of its own,
`LoggedInv`, which needs no `SingleThreaded`: an operation that will be retried is not in
the log, one that goes on to apply its own entry is (`OperationInv`), and no two
threads work for the same operation.

**Inode numbers.** `GrantInv` adds that a client with a granted token is not in the
middle of a grab, so that its base is the one of the token. `UniqueInv` adds that
every number handed out lies below the shared key, and either outside of a running
client's token or at or below its counter. It is inductive only while no request to
the token key has failed, which is the condition in `UniqueInodes`.

**Lookup cache.** `FillInv` adds to `BlockedIsFetched` that a thread that is not idle
serves a request on a key. A step that takes a thread away from its fetch unblocks
the key (`OwnKeyOnly`), on every error path and when the process ends. `ClientInv` is the
invariant of the whole client. `CacheOK`: the list holds the keys of the map, each once,
and only items that are there expire. `ObjectsOK` and `HeldOK`: the objects, which of
its steps a request holds one at, and that it stores one version. `DrivesOK`: every
request that may still store a version has room for it below the bound. `DirtyNotEvicted` is a step property; what
`add` erases to make room was visited by its loop, which leaves dirty items alone,
although its iterator skips items and wraps (`lru_cache.h:89-92`).

**Replicated keys.** `OneRound` is `MaxOps = 1 /\ ~Numbered`: every client makes one
operation against the version that is on all drives at the start. The first record
on the reference drive wins. `RoundInv` says that no drive goes back to the initial
record, that the other drives change from a record that lost to the winner only
(`DriveInv`), what the answers of a client tell of the drives (`ResultsInv`), and that
the drives which a running `readRepair` has passed have the winner (`ProgressInv`).
With a second round the properties fail: a `readRepair` that is late puts the record of
the first round back on a drive, and a second client is told OK (TLC, `MaxOps = 2`,
puts alone); with `Numbered` two clients' records have the same version.

**File data.** `Serial` says that no second thread writes while its client flushes or
truncates, and that either no descriptor has `O_APPEND` or no append meets writes
that its client has still to store (without this the theorem is false, section 3). `FileInv` is about each client by itself. `Kept` is the property;
`AnswerOK` says that while the answer of a Put is on its way nothing of that block is
owed, so that `forgetUpdates` forgets nothing; `CutOK` that a truncate deletes blocks
only behind what is owed; `AppendOK` that during an append a client owes at most the cells of that append, so
that its block can be dropped when the metadata has changed. The lemmas on `\div` and `%` (`Division`, `Place`, `Blocks`, `Before`) say where a
cell of the file is in its block, for any block size.

`WholeTruncates` is `Serial` and leaves out truncates that share the file, have unflushed
blocks or stop halfway. Then `CellsInv` holds: stored data fits its block (`KeysOK`), so do
cached data and every update that writes, which lies inside the cached data, but for
the one block that a truncate is cutting, whose only update is the cut (`CellsOK`), and
block numbers and sizes stay in bounds (`NumbersOK`). A merge keeps this because its
first step makes the stored data at least as long as the cached data.
`SizeFirst` adds that the Put of a size does not fail on its own. `SizeInv`: cached
metadata with the stored version has the stored size (`MdOK`), and between the Put of the
size and the Put of the block, through mismatches and merges, the size covers the block
(`FlushOK`); while a client truncates the others are idle and have no cached metadata
(`AloneOK`), and what is stored behind the new end is what it has still to cut or delete
(`CutSizeOK`).

`Faithfully` is `WholeTruncates` and leaves out that a deleted block is stored again
while another client still has it cached. `RefInv` relates every cached block to the
stored one. Where the versions are equal, the cached data is what the client's updates
make of the stored data (`CopyOf`); where the client has never read a stored block, it is
what they make of nothing (`FromNothing`). The cells of the client's own writes have its
values (`Mine`), and its data is no longer than the stored data or ends where one of the
updates ends (`Fits`). So a merge, which first makes the stored data as long as the
cached data and then copies the updates' cells from there, makes what applying the
updates to the stored data makes (`MergeFaithful`); a truncate's block is a copy with the
cut as its only update (`CutFaithful`), and nobody else has it cached (`AloneRef`).
Between a Put and its answer the updates of the block are stored and not yet forgotten,
which is why `Pending` does not show them, and `AnswerRef` says what the answer makes of
the block. A Put succeeds only where the versions are equal, so by `CopyOf` it is a
`Flush` of `SharedFile`; every other step is a `Change`, a `Withdraw`, a `Delete`, a
`Crash` or a stutter (`RefNext`). What the list of updates makes of a block is a
recursive function; `ApplyUnfolds` gives its defining equations, and the induction over
the list is by the least number that fails (`UpTo`).

**Path permissions.** `Careful` leaves the situations out that section 3 lists, and
directories without an x bit. `PathInv` says of every metadata, stored, cached or held
by a request, that if no change in the log is newer than its `verified` version then
its entries, and those for its children, let exactly the users pass that the
directories above do (`Good`), as long as no change above is in progress; that what
is stored is not staler than what is in memory (`Known`); that a directory covers its
own newest change (`Own`); that one client changes permissions at a time (`Alone`);
where a recursive lookup has found its nodes stale (`LookupOK`), and what a chmod has
computed and stored so far (`ChangeOK`). `RestrictionsExact` is the link to the modes.

**Cluster map.** Both hold whatever fails and for every `Avoid`. `MapInv` adds to `TypeOK`
where a client can be in each kind of request (`RequestOK`), that `selfCheck` is at a
drive of the partition when it enables one (`IndexOK`), and `PutOK`: `failure_lock` keeps
the other thread of the client out of `putPartitionUpdate`, so that the map which is
being put has the version its thread has given it, at least 1, and is stored on the
drive whose cluster version is set next. The version can therefore be taken back after
a failed put without going below 0, and a drive whose cluster version was set has
exactly one map of that version for `getPartitionUpdate` (`MapsOfDrive`).

**Names.** `WithoutLinks` is the root directory without hard links, and without the
overlaps that section 3 lists as losing files. The four properties are about quiet
states; `IInv` says what each key means while any number of requests are between their
steps. An entry without metadata, or metadata without entry, belongs to exactly one
request that is between the two, or to a rename whose recovery entry is there
(`EntryHasMetadata`, `MetadataHasEntry`, `Between`, `Renames`), or a client has died.
`Apart` keeps requests away from the two names of each other's renames and of
recovery entries; it is what `Avoid` buys, and its proof attempt is how "target in
use" was found: the entry of a create does not serialize it with a rename that has
stored its own before. `RecoveryOwned` and `RecoveryDistinct` tie each recovery entry to
one running rename or to a death, and keep them from chaining. `Versions` and `Claimed` say
that a put with the version of a lookup cannot hit another file's metadata, and
`CopyOfFile`, `OneCopy`, `CopyWithoutEntry` that the only file with metadata under two names
is one that a rename has copied and not yet removed, where the old name has no entry any
more. `OneName` and `LiveNamed` carry `NoFileLost`. `InFsckAlone` has fsck run alone, with
what it found by its last requests, so that what `recover_rename` removes is the copy.

**Only model-checked:**

* liveness (`CallsReturn`, `RequestsReturn`), out of this prover's reach;
* `OneMapPerVersion`, `GreenIsUpToDate` and `VersionsGrow` of `ClusterMap`: they relate the
  drives to each other, hold only if failures are resolved one by one, and need an
  invariant about which client may be changing the map when;
* the path mapping: `LookupFindsTree` and the other properties of `PathMap` are about
  sequences of requests that rewrite paths of any depth, and need an invariant that
  relates all mappings to all moves so far;
* `ConsistentWhenRepaired`, `DanglingShows` and `NoFileLost` with hard links.

## 5. Not modelled

* **Symbolic links.** A link's target is text that `toSystemPath` maps again, and a
  path through a link is resolved by the kernel with what `readlink` returns. What
  a user expects of relative targets, of targets outside of the mount and of links
  to moved directories is not in this repository, so there is no reference to check
  the SYMLINK mappings against. (`rename_softlink`, `rename.cc:86-105`, stores the
  system path that `hflat_readlink` returns as the new link's user path, and appends
  two log entries before it moves the metadata.)
* **iointercept and the tools** rewrite strings and set attributes; they share no
  state with the rest.
* **`SimpleKineticNamespace`** forwards requests to one drive.
* **Access checks** of single operations (`check_access`, sticky bits), statfs,
  readdir, option parsing, logging and protobuf code are left out.
* **Data races** inside `std::unordered_map` and `MetadataInfo` objects that two
  threads change are treated as atomic steps (`hasMapping`, `pathmap_db.cc:331`).
* A partition with more than two drives that fail one after the other, and the map
  of the log partition itself.

## 6. Plan

What is left is proofs:

1. `ClusterMap`: `OneMapPerVersion`, for failures that are resolved one by one.
2. `NameOps` with hard links: `IInv` would have to count names through forwarding keys.
3. `PathMap`: `TypeOK`, then `LookupFindsTree`.
