----------------------------- MODULE PathmapLog -----------------------------
(***************************************************************************)
(* The replicated log of path-mapping entries ("database") that every      *)
(* mounted h-flat client shares.                                           *)
(*                                                                         *)
(* Directory moves, symbolic links and permission changes are db_entry     *)
(* records stored in the drives under keys db_1, db_2, ...; a version key  *)
(* names the newest one and a snapshot key holds a serialized replay of a  *)
(* prefix.  A client keeps a local snapshot of the mapping (class          *)
(* PathMapDB) together with the number of entries it has replayed.         *)
(* database_operation appends an entry with a test-and-set write,          *)
(* database_update catches up with the entries of the other clients.       *)
(*                                                                         *)
(* The drives are a linearizable versioned store here: one step per        *)
(* request.  A request may fail, and a failed write may or may not have    *)
(* been stored.  The content of the local map is abstracted to the         *)
(* sequence of entries applied to it, each with the snapshotVersion it was *)
(* applied at: reuse names and permission time stamps are made from that   *)
(* version, so two clients hold the same map when they applied the same    *)
(* entries at the same versions.                                           *)
(***************************************************************************)
EXTENDS Naturals, Sequences

CONSTANTS
    Client,         \* mounted file system processes
    Thread,         \* request threads of all clients
    ClientOf,       \* the client each thread belongs to
    MaxOps,         \* bound: operations started by all threads together
    MaxVersion,     \* bound: number of log keys
    SnapInterval,   \* 42 in the code: snapshot period and incremental limit
    Faults          \* may requests fail and clients crash?

ASSUME ClientOfAssumption == ClientOf \in [Thread -> Client]
ASSUME BoundsAssumption ==
    /\ MaxOps \in Nat
    /\ MaxVersion \in Nat
    /\ SnapInterval \in Nat \ {0}
    /\ Faults \in BOOLEAN

\* A client that serves one request at a time (fuse -s).
SingleThreaded == \A t, u \in Thread : ClientOf[t] = ClientOf[u] => t = u

Version == 1 .. MaxVersion

\* The db_entry of the n-th database_operation; NoEntry is what
\* REMOTE_NOT_FOUND stands for.
Entry == 1 .. MaxOps
NoEntry == 0

\* The SNAPSHOT key before anything was stored there.
NoSnapshot == [version |-> 0, applied |-> <<>>]

\* Names for the assertions of database_update and updateSnapshot.
Asserts == {"assert dbVersion", "assert size", "assert from"}

VARIABLES
    log,              \* drive: db_<version> -> entry
    dbVersionKey,     \* drive: version of db_version_key, 0 when not found
    dbSnapshot,       \* drive: value of the SNAPSHOT key
    clientState,      \* "up", "init" (inside hflat_init), "down", or the
                      \* assertion that ended the process
    snapshotVersion,  \* PathMapDB::snapshotVersion of each client
    applied,          \* PathMapDB::snapshot of each client, as its history
    pc,               \* where each thread is
    ret,              \* who called database_update / updateSnapshot
    doing,            \* entry of the database_operation in progress
    fromVersion,      \* local variable snapshotVersion of util.cc
    toVersion,        \* local variable dbVersion of util.cc
    entries,          \* local list of fetched entries
    snap,             \* local db_snapshot
    started,          \* history: number of operations started
    acked             \* history: entries whose operation returned 0

storeVars  == <<log, dbVersionKey, dbSnapshot>>
clientVars == <<clientState, snapshotVersion, applied>>
localVars  == <<ret, doing, fromVersion, toVersion, entries, snap>>
histVars   == <<started, acked>>
vars == <<storeVars, clientVars, pc, localVars, histVars>>

Labels == {"idle", "op_begin", "op_put", "op_version", "us_check", "us_apply",
           "us_set", "op_serialize", "op_store", "upd_begin", "upd_version",
           "upd_probe", "upd_snap", "upd_load", "upd_fetch"}

Init ==
    /\ log = [v \in Version |-> NoEntry]
    /\ dbVersionKey = 0
    /\ dbSnapshot = NoSnapshot
    /\ clientState = [c \in Client |-> "down"]
    /\ snapshotVersion = [c \in Client |-> 0]
    /\ applied = [c \in Client |-> <<>>]
    /\ pc = [t \in Thread |-> "idle"]
    /\ ret = [t \in Thread |-> "caller"]
    /\ doing = [t \in Thread |-> NoEntry]
    /\ fromVersion = [t \in Thread |-> 0]
    /\ toVersion = [t \in Thread |-> 0]
    /\ entries = [t \in Thread |-> <<>>]
    /\ snap = [t \in Thread |-> NoSnapshot]
    /\ started = 0
    /\ acked = {}

-----------------------------------------------------------------------------
(* Helpers.                                                                *)

At(t, label) == pc[t] = label
Goto(t, label) == pc' = [pc EXCEPT ![t] = label]

\* getSnapshotVersion(): the version is read under the lock of the map.
getSnapshotVersion(t) == snapshotVersion[ClientOf[t]]

\* A request returns: its locals die.  The first one is hflat_init's update,
\* whose result is ignored: the file system is served from then on.
Return(t) ==
    /\ Goto(t, "idle")
    /\ ret' = [ret EXCEPT ![t] = "caller"]
    /\ doing' = [doing EXCEPT ![t] = NoEntry]
    /\ fromVersion' = [fromVersion EXCEPT ![t] = 0]
    /\ toVersion' = [toVersion EXCEPT ![t] = 0]
    /\ entries' = [entries EXCEPT ![t] = <<>>]
    /\ snap' = [snap EXCEPT ![t] = NoSnapshot]
    /\ clientState' = [clientState EXCEPT ![ClientOf[t]] = "up"]

\* The process of client c ends: everything in its memory is gone.
Die(c, why) ==
    LET Mine(t) == ClientOf[t] = c IN
    /\ clientState' = [clientState EXCEPT ![c] = why]
    /\ snapshotVersion' = [snapshotVersion EXCEPT ![c] = 0]
    /\ applied' = [applied EXCEPT ![c] = <<>>]
    /\ pc' = [t \in Thread |-> IF Mine(t) THEN "idle" ELSE pc[t]]
    /\ ret' = [t \in Thread |-> IF Mine(t) THEN "caller" ELSE ret[t]]
    /\ doing' = [t \in Thread |-> IF Mine(t) THEN NoEntry ELSE doing[t]]
    /\ fromVersion' = [t \in Thread |-> IF Mine(t) THEN 0 ELSE fromVersion[t]]
    /\ toVersion' = [t \in Thread |-> IF Mine(t) THEN 0 ELSE toVersion[t]]
    /\ entries' = [t \in Thread |-> IF Mine(t) THEN <<>> ELSE entries[t]]
    /\ snap' = [t \in Thread |-> IF Mine(t) THEN NoSnapshot ELSE snap[t]]

\* assert(): the builds keep assertions, a false one aborts the process.
Abort(t, which) ==
    /\ Die(ClientOf[t], which)
    /\ UNCHANGED <<storeVars, histVars>>

\* A drive answers a request of database_update or database_operation with
\* an error other than the one the code looks for: the call returns it.
FailWith(t) ==
    /\ Return(t)
    /\ UNCHANGED <<snapshotVersion, applied, histVars>>

-----------------------------------------------------------------------------
(* Requests arrive, clients mount and crash.                               *)

\* hflat_init ends with a database_update before requests are served.
Mount(t) ==
    /\ At(t, "idle")
    /\ clientState[ClientOf[t]] \notin {"init", "up"}
    /\ clientState' = [clientState EXCEPT ![ClientOf[t]] = "init"]
    /\ Goto(t, "upd_begin")
    /\ UNCHANGED <<storeVars, snapshotVersion, applied, localVars, histVars>>

\* A fuse operation that needs a new entry calls database_operation.
StartOperation(t) ==
    /\ At(t, "idle")
    /\ clientState[ClientOf[t]] = "up"
    /\ started < MaxOps
    /\ started' = started + 1
    /\ doing' = [doing EXCEPT ![t] = started + 1]
    /\ Goto(t, "op_begin")
    /\ UNCHANGED <<storeVars, clientVars, ret, fromVersion, toVersion,
                   entries, snap, acked>>

\* A lookup that meets FORCE_UPDATE, or rmdir, calls database_update.
StartUpdate(t) ==
    /\ At(t, "idle")
    /\ clientState[ClientOf[t]] = "up"
    /\ Goto(t, "upd_begin")
    /\ UNCHANGED <<storeVars, clientVars, localVars, histVars>>

\* The client machine fails at any time.
Crash(c) ==
    /\ Faults
    /\ clientState[c] \in {"init", "up"}
    /\ Die(c, "down")
    /\ UNCHANGED <<storeVars, histVars>>

-----------------------------------------------------------------------------
(* database_operation and put_db_entry.                                    *)

\* Mutant of OpBegin: the version of the new entry is counted up twice.
OpBeginSkips(t) ==
    /\ At(t, "op_begin")
    /\ fromVersion' = [fromVersion EXCEPT ![t] = getSnapshotVersion(t) + 1]
    /\ Goto(t, "op_put")
    /\ UNCHANGED <<storeVars, clientVars, ret, doing, toVersion, entries, snap,
                   histVars>>

OpBegin(t) ==
    /\ At(t, "op_begin")
    /\ fromVersion' = [fromVersion EXCEPT ![t] = getSnapshotVersion(t)]
    /\ Goto(t, "op_put")
    /\ UNCHANGED <<storeVars, clientVars, ret, doing, toVersion, entries, snap,
                   histVars>>

\* Mutant of PutEntryStored: put_db_entry writes with IGNORE_VERSION.
PutEntryOverwrites(t) ==
    LET v == fromVersion[t] + 1 IN
    /\ At(t, "op_put")
    /\ v \in Version
    /\ log' = [log EXCEPT ![v] = doing[t]]
    /\ Goto(t, "op_version")
    /\ UNCHANGED <<dbVersionKey, dbSnapshot, clientVars, localVars, histVars>>

\* put_db_entry: a Put that requires that the key does not exist.
PutEntryStored(t) ==
    LET v == fromVersion[t] + 1 IN
    /\ At(t, "op_put")
    /\ v \in Version
    /\ log[v] = NoEntry
    /\ log' = [log EXCEPT ![v] = doing[t]]
    /\ Goto(t, "op_version")
    /\ UNCHANGED <<dbVersionKey, dbSnapshot, clientVars, localVars, histVars>>

\* Mutant of PutEntryExists: the retry does not update first.
PutEntryRetries(t) ==
    LET v == fromVersion[t] + 1 IN
    /\ At(t, "op_put")
    /\ v \in Version
    /\ log[v] # NoEntry
    /\ Goto(t, "op_begin")
    /\ UNCHANGED <<storeVars, clientVars, localVars, histVars>>

\* REMOTE_VERSION_MISMATCH becomes EEXIST: update first, then try again.
PutEntryExists(t) ==
    LET v == fromVersion[t] + 1 IN
    /\ At(t, "op_put")
    /\ v \in Version
    /\ log[v] # NoEntry
    /\ ret' = [ret EXCEPT ![t] = "retry"]
    /\ Goto(t, "upd_begin")
    /\ UNCHANGED <<storeVars, clientVars, doing, fromVersion, toVersion,
                   entries, snap, histVars>>

\* Any other status is EIO; the record may have been stored all the same.
PutEntryFails(t) ==
    LET v == fromVersion[t] + 1 IN
    /\ Faults
    /\ At(t, "op_put")
    /\ v \in Version
    /\ \/ UNCHANGED log
       \/ log[v] = NoEntry /\ log' = [log EXCEPT ![v] = doing[t]]
    /\ FailWith(t)
    /\ UNCHANGED <<dbVersionKey, dbSnapshot>>

\* Mutant of PutVersion: the key names the entry after the one stored.
PutVersionAhead(t) ==
    /\ At(t, "op_version")
    /\ dbVersionKey' = fromVersion[t] + 2
    /\ toVersion' = [toVersion EXCEPT ![t] = fromVersion[t] + 1]
    /\ entries' = [entries EXCEPT ![t] = <<doing[t]>>]
    /\ ret' = [ret EXCEPT ![t] = "own"]
    /\ Goto(t, "us_check")
    /\ UNCHANGED <<log, dbSnapshot, clientVars, doing, fromVersion, snap,
                   histVars>>

\* The version key is put with IGNORE_VERSION and its failure only warned
\* about.  The caller hands its own entry to updateSnapshot.
PutVersion(t) ==
    /\ At(t, "op_version")
    /\ \/ dbVersionKey' = fromVersion[t] + 1
       \/ Faults /\ UNCHANGED dbVersionKey
    /\ toVersion' = [toVersion EXCEPT ![t] = fromVersion[t] + 1]
    /\ entries' = [entries EXCEPT ![t] = <<doing[t]>>]
    /\ ret' = [ret EXCEPT ![t] = "own"]
    /\ Goto(t, "us_check")
    /\ UNCHANGED <<log, dbSnapshot, clientVars, doing, fromVersion, snap,
                   histVars>>

\* serializeSnapshot(), under the lock of the map.
SerializeSnapshot(t) ==
    /\ At(t, "op_serialize")
    /\ snap' = [snap EXCEPT ![t] = [version |-> getSnapshotVersion(t),
                                    applied |-> applied[ClientOf[t]]]]
    /\ Goto(t, "op_store")
    /\ UNCHANGED <<storeVars, clientVars, ret, doing, fromVersion, toVersion,
                   entries, histVars>>

\* put_db_snapshot with IGNORE_VERSION, its result ignored; then return 0.
PutSnapshot(t) ==
    /\ At(t, "op_store")
    /\ \/ dbSnapshot' = snap[t]
       \/ Faults /\ UNCHANGED dbSnapshot
    /\ acked' = acked \cup {doing[t]}
    /\ Return(t)
    /\ UNCHANGED <<log, dbVersionKey, snapshotVersion, applied, started>>

-----------------------------------------------------------------------------
(* database_update.                                                        *)

UpdBegin(t) ==
    /\ At(t, "upd_begin")
    /\ fromVersion' = [fromVersion EXCEPT ![t] = getSnapshotVersion(t)]
    /\ Goto(t, "upd_version")
    /\ UNCHANGED <<storeVars, clientVars, ret, doing, toVersion, entries, snap,
                   histVars>>

\* Fetch entries one by one, or try the stored snapshot first when far behind.
AfterVersion(from, to) ==
    IF to > from + SnapInterval THEN "upd_snap" ELSE "upd_fetch"

\* get_db_version, and the assertion that it is not behind the local version.
GetVersion(t) ==
    /\ At(t, "upd_version")
    /\ \/ /\ dbVersionKey < fromVersion[t]
          /\ Abort(t, "assert dbVersion")
       \/ /\ dbVersionKey >= fromVersion[t]
          /\ toVersion' = [toVersion EXCEPT ![t] = dbVersionKey]
          /\ Goto(t, IF dbVersionKey = fromVersion[t]
                     THEN "upd_probe"
                     ELSE AfterVersion(fromVersion[t], dbVersionKey))
          /\ UNCHANGED <<storeVars, clientVars, ret, doing, fromVersion,
                         entries, snap, histVars>>

\* The version key could be outdated: look for one more entry.
ProbeFound(t) ==
    LET v == toVersion[t] + 1 IN
    /\ At(t, "upd_probe")
    /\ v \in Version
    /\ log[v] # NoEntry
    /\ toVersion' = [toVersion EXCEPT ![t] = v]
    /\ Goto(t, AfterVersion(fromVersion[t], v))
    /\ UNCHANGED <<storeVars, clientVars, ret, doing, fromVersion, entries,
                   snap, histVars>>

\* Mutant of ProbeMissing: -EALREADY without a probe.
NoProbe(t) ==
    /\ At(t, "upd_probe")
    /\ FailWith(t)
    /\ UNCHANGED storeVars

\* There is none: -EALREADY.
ProbeMissing(t) ==
    LET v == toVersion[t] + 1 IN
    /\ At(t, "upd_probe")
    /\ v \in Version => log[v] = NoEntry
    /\ FailWith(t)
    /\ UNCHANGED storeVars

\* get_db_snapshot; when it is missing or fails, go on with the entries.
GetSnapshot(t) ==
    /\ At(t, "upd_snap")
    /\ \/ /\ dbSnapshot # NoSnapshot
          /\ snap' = [snap EXCEPT ![t] = dbSnapshot]
          /\ Goto(t, "upd_load")
       \/ /\ dbSnapshot = NoSnapshot \/ Faults
          /\ Goto(t, "upd_fetch")
          /\ UNCHANGED snap
    /\ UNCHANGED <<storeVars, clientVars, ret, doing, fromVersion, toVersion,
                   entries, histVars>>

\* loadSnapshot ignores a snapshot that is not newer; then the local version
\* is read again.
LoadSnapshot(t) ==
    LET c == ClientOf[t] IN
    /\ At(t, "upd_load")
    /\ IF snap[t].version <= snapshotVersion[c]
       THEN UNCHANGED <<snapshotVersion, applied>>
       ELSE /\ snapshotVersion' = [snapshotVersion EXCEPT ![c] = snap[t].version]
            /\ applied' = [applied EXCEPT ![c] = snap[t].applied]
    /\ fromVersion' = [fromVersion EXCEPT ![t] = snapshotVersion'[c]]
    /\ snap' = [snap EXCEPT ![t] = NoSnapshot]
    /\ Goto(t, "upd_fetch")
    /\ UNCHANGED <<storeVars, clientState, ret, doing, toVersion, entries,
                   histVars>>

\* The loop over get_db_entry: next entry, or all of them fetched.
FetchEntry(t) ==
    LET v == fromVersion[t] + Len(entries[t]) + 1 IN
    /\ At(t, "upd_fetch")
    /\ \/ /\ v <= toVersion[t]
          /\ log[v] # NoEntry
          /\ entries' = [entries EXCEPT ![t] = Append(@, log[v])]
          /\ UNCHANGED pc
       \/ /\ v > toVersion[t]
          /\ Goto(t, "us_check")
          /\ UNCHANGED entries
    /\ UNCHANGED <<storeVars, clientVars, ret, doing, fromVersion, toVersion,
                   snap, histVars>>

\* An error of get_db_version or get_db_entry ends the update with that error
\* (at the probe: with -EALREADY).  So does an entry that is missing.
UpdFails(t) ==
    LET v == fromVersion[t] + Len(entries[t]) + 1 IN
    /\ \/ Faults /\ (At(t, "upd_version") \/ At(t, "upd_probe"))
       \/ /\ At(t, "upd_fetch")
          /\ v <= toVersion[t]
          /\ Faults \/ log[v] = NoEntry
    /\ FailWith(t)
    /\ UNCHANGED storeVars

-----------------------------------------------------------------------------
(* PathMapDB::updateSnapshot.                                              *)

\* What happens after updateSnapshot returned 0: database_update's caller gets
\* 0, an operation whose entry was taken tries again, one whose entry was
\* stored serializes the map if its version was a multiple of the interval.
Updated(t) ==
    \/ /\ ret[t] = "caller"
       /\ Return(t)
       /\ UNCHANGED acked
    \/ /\ ret[t] = "retry"
       /\ Goto(t, "op_begin")
       /\ ret' = [ret EXCEPT ![t] = "caller"]
       /\ fromVersion' = [fromVersion EXCEPT ![t] = 0]
       /\ toVersion' = [toVersion EXCEPT ![t] = 0]
       /\ entries' = [entries EXCEPT ![t] = <<>>]
       /\ UNCHANGED <<clientState, doing, snap, acked>>
    \/ /\ ret[t] = "own"
       /\ fromVersion[t] % SnapInterval = 0
       /\ Goto(t, "op_serialize")
       /\ UNCHANGED <<clientState, localVars, acked>>
    \/ /\ ret[t] = "own"
       /\ fromVersion[t] % SnapInterval # 0
       /\ acked' = acked \cup {doing[t]}
       /\ Return(t)

\* The two assertions, and the early return when there is nothing to do.
\* (size_t)(to - from) of a negative difference is no list's size.
UpdateCheck(t) ==
    /\ At(t, "us_check")
    /\ \/ /\ fromVersion[t] + Len(entries[t]) # toVersion[t]
          /\ Abort(t, "assert size")
       \/ /\ fromVersion[t] + Len(entries[t]) = toVersion[t]
          /\ fromVersion[t] > getSnapshotVersion(t)
          /\ Abort(t, "assert from")
       \/ /\ fromVersion[t] + Len(entries[t]) = toVersion[t]
          /\ fromVersion[t] <= getSnapshotVersion(t)
          /\ toVersion[t] <= getSnapshotVersion(t)
          /\ Updated(t)
          /\ UNCHANGED <<storeVars, snapshotVersion, applied, started>>
       \/ /\ fromVersion[t] + Len(entries[t]) = toVersion[t]
          /\ fromVersion[t] <= getSnapshotVersion(t)
          /\ toVersion[t] > getSnapshotVersion(t)
          /\ Goto(t, "us_apply")
          /\ UNCHANGED <<storeVars, clientVars, localVars, histVars>>

\* Mutant of ApplyEntry: the entry is applied without counting the version up.
ApplyUncounted(t) ==
    LET c == ClientOf[t] IN
    /\ At(t, "us_apply")
    /\ entries[t] # <<>>
    /\ applied' = [applied EXCEPT ![c] =
                     Append(@, [entry |-> Head(entries[t]),
                                version |-> snapshotVersion[c]])]
    /\ entries' = [entries EXCEPT ![t] = Tail(@)]
    /\ Goto(t, IF Len(entries[t]) = 1 THEN "us_set" ELSE "us_apply")
    /\ UNCHANGED <<storeVars, clientState, snapshotVersion, ret, doing,
                   fromVersion, toVersion, snap, histVars>>

\* addDirectoryMove, addSoftLink, addPermissionChange and addUnlink each take
\* the lock, increment the version and apply one entry.
ApplyEntry(t) ==
    LET c == ClientOf[t] IN
    /\ At(t, "us_apply")
    /\ entries[t] # <<>>
    /\ snapshotVersion' = [snapshotVersion EXCEPT ![c] = @ + 1]
    /\ applied' = [applied EXCEPT ![c] =
                     Append(@, [entry |-> Head(entries[t]),
                                version |-> snapshotVersion[c] + 1])]
    /\ entries' = [entries EXCEPT ![t] = Tail(@)]
    /\ Goto(t, IF Len(entries[t]) = 1 THEN "us_set" ELSE "us_apply")
    /\ UNCHANGED <<storeVars, clientState, ret, doing, fromVersion, toVersion,
                   snap, histVars>>

\* Mutant of SetVersion: the version it updated from is assigned.
SetFromVersion(t) ==
    /\ At(t, "us_set")
    /\ snapshotVersion' = [snapshotVersion EXCEPT ![ClientOf[t]] = fromVersion[t]]
    /\ Updated(t)
    /\ UNCHANGED <<storeVars, applied, started>>

\* The last assignment of updateSnapshot, outside the lock.
SetVersion(t) ==
    /\ At(t, "us_set")
    /\ snapshotVersion' = [snapshotVersion EXCEPT ![ClientOf[t]] = toVersion[t]]
    /\ Updated(t)
    /\ UNCHANGED <<storeVars, applied, started>>

-----------------------------------------------------------------------------

\* Progress of a call that has been made.
Step(t) ==
    \/ OpBegin(t) \/ PutEntryStored(t) \/ PutEntryExists(t) \/ PutEntryFails(t)
    \/ PutVersion(t) \/ SerializeSnapshot(t) \/ PutSnapshot(t)
    \/ UpdBegin(t) \/ GetVersion(t) \/ ProbeFound(t) \/ ProbeMissing(t)
    \/ GetSnapshot(t) \/ LoadSnapshot(t) \/ FetchEntry(t) \/ UpdFails(t)
    \/ UpdateCheck(t) \/ ApplyEntry(t) \/ SetVersion(t)

Next ==
    \/ \E t \in Thread : Mount(t) \/ StartOperation(t) \/ StartUpdate(t) \/ Step(t)
    \/ \E c \in Client : Crash(c)

Spec == Init /\ [][Next]_vars

\* Every request to a drive is answered or times out, and a client thread
\* that can run does: no step of a call waits for another call.
FairSpec == Spec /\ \A t \in Thread : WF_vars(Step(t))

-----------------------------------------------------------------------------
(* Properties.                                                             *)

\* The history of a map: the entries applied to it and at which version.
History == Seq([entry : Entry \cup {NoEntry}, version : Nat])
SnapshotRecord == [version : Nat, applied : History]

\* Type invariant of the store, the clients' maps and the threads' locals.
TypeOK ==
    /\ log \in [Version -> Entry \cup {NoEntry}]
    /\ dbVersionKey \in 0 .. MaxVersion
    /\ dbSnapshot \in SnapshotRecord
    /\ clientState \in [Client -> {"down", "init", "up"} \cup Asserts]
    /\ snapshotVersion \in [Client -> Nat]
    /\ applied \in [Client -> History]
    /\ pc \in [Thread -> Labels]
    /\ ret \in [Thread -> {"caller", "retry", "own"}]
    /\ doing \in [Thread -> Entry \cup {NoEntry}]
    /\ fromVersion \in [Thread -> Nat]
    /\ toVersion \in [Thread -> 0 .. MaxVersion]
    /\ entries \in [Thread -> Seq(Entry \cup {NoEntry})]
    /\ snap \in [Thread -> SnapshotRecord]
    /\ started \in 0 .. MaxOps
    /\ acked \subseteq Entry \cup {NoEntry}

\* A map of version n is the replay of the first n entries of lg, each applied
\* once, in order, at its own version.
IsReplay(lg, history, n) ==
    /\ n \in 0 .. MaxVersion
    /\ Len(history) = n
    /\ \A i \in 1 .. n :
          /\ lg[i] # NoEntry
          /\ history[i].entry = lg[i]
          /\ history[i].version = i

\* The local map of every client and the stored snapshot are replays of a
\* prefix of the log, also in the middle of updateSnapshot and with other
\* clients appending, crashing and overwriting the snapshot key.  So clients of
\* equal version resolve every path alike.
SnapshotIsReplay ==
    /\ \A c \in Client : IsReplay(log, applied[c], snapshotVersion[c])
    /\ IsReplay(log, dbSnapshot.applied, dbSnapshot.version)

\* An operation that returned 0 is in the log; no operation is there twice,
\* however often put_db_entry met EEXIST and was retried after an update.
LoggedOnce ==
    /\ \A e \in acked : \E v \in Version : log[v] = e
    /\ \A v, w \in Version : log[v] = log[w] /\ log[v] # NoEntry => v = w

\* The log never has holes, although nothing but the local version of each
\* client says where the next entry goes and clients fall behind and crash.
NoHoles ==
    \A v, w \in Version : w < v /\ log[v] # NoEntry => log[w] # NoEntry

\* While a client is up its map never goes back to an older version, also when
\* an older snapshot is fetched; and no stored entry is ever replaced.
OnlyForward ==
    [][/\ \A c \in Client :
             clientState'[c] \in {"init", "up"} => snapshotVersion'[c] >= snapshotVersion[c]
       /\ \A v \in Version : log[v] # NoEntry => log'[v] = log[v]]_vars

\* database_update answers -EALREADY after one probe behind a version key that
\* may be outdated; the local map then has every entry there is.
EAlreadyMeansNewest ==
    [][\A t \in Thread : ProbeMissing(t) =>
         \A v \in Version : log[v] # NoEntry => v <= getSnapshotVersion(t)]_vars

\* Every call of database_operation or database_update returns (or its client
\* dies): retries end, whatever the other clients log meanwhile.
CallsReturn == \A t \in Thread : ~At(t, "idle") ~> At(t, "idle")

\* util.cc asserts that the version key is not behind the local version.
VersionKeyNotBehind == \A c \in Client : clientState[c] # "assert dbVersion"

\* updateSnapshot asserts that it is given as many entries as versions.
SizeMatchesInterval == \A c \in Client : clientState[c] # "assert size"
=============================================================================
