----------------------------- MODULE ClusterMap -----------------------------
(***************************************************************************)
(* One partition of DistributedKineticNamespace: the map of its drives     *)
(* that every client has, how clients take failed drives out of it, bring  *)
(* them back, and agree on the newest map through the cluster version of   *)
(* the drives.                                                             *)
(*                                                                         *)
(* Every key is put by one operation and deleted by another at most; a     *)
(* record is the number of the key that it was put with, 0 if there is     *)
(* none (clients that write the same key: ReplicatedKey).  The requests of *)
(* an operation, of putPartitionUpdate and of synchronizeDrive are single  *)
(* steps.  The NoOps of testPartition, the loop of getPartitionUpdate and  *)
(* one readRepair are one step each.  Each client has a thread for         *)
(* operations and one that synchronizes a drive.                           *)
(***************************************************************************)
EXTENDS Integers, FiniteSets, FiniteSetsExt

CONSTANTS
    Client,
    NDrives,     \* drives of the partition
    Log,         \* drives of the log partition
    Ops,         \* operations made
    Avoid,       \* what is left out, see Avoided
    MaxKeys, MaxFaults, MaxChecks,  \* bounds
    MaxVersion   \* bound: cluster versions

None == "none"
ASSUME ClusterAssumption ==
    /\ NDrives \in Nat \ {0} /\ IsFiniteSet(Log) /\ None \notin Log
    /\ Ops \subseteq {"put", "delete", "read"}
    /\ Avoid \subseteq {"unlogged", "split", "second failure", "use during check", "lost record",
                        "delete again"}
    /\ {MaxKeys, MaxFaults, MaxChecks, MaxVersion} \subseteq Nat

Drive == 1 .. NDrives
Key == 1 .. MaxKeys
Thread == {"op", "sync"}
Status == {"GREEN", "YELLOW", "RED"}
Map == [version : 0 .. MaxVersion, status : [Drive -> Status], log : Log \cup {None}]

\* The version of a connection that does not exist.
NoConnection == -1

\* The map of the configuration file.  A partition of two drives has a log drive.
Configured == [version |-> 0, status |-> [d \in Drive |-> "GREEN"],
               log |-> IF NDrives = 2 /\ Log # {} THEN CHOOSE l \in Log : TRUE ELSE None]
NoResults == [d \in Drive |-> "none"]
NoRequest == [op |-> "none", key |-> 0, results |-> NoResults, back |-> "none"]
NoSync == [keys |-> {}, record |-> 0, all |-> FALSE]

VARIABLES
    data,      \* drives: the record of each key
    dver,      \* drives: cluster version
    stored,    \* drives: the maps stored under "clusterversion_<n>"
    logged,    \* log drives: keys
    cut,       \* <<client, drive>> without connection
    map,       \* clients: cluster_map
    logs,      \* clients: log drives that are not RED
    cver,      \* clients: version of each connection, NoConnection if there is none
    pc, req, sync,
    index,     \* the drive that a thread disables, enables or synchronizes
    at,        \* the drive that its putPartitionUpdate is at
    purpose,   \* what its putPartitionUpdate is for
    expect,    \* history: what the last operation on a key that ended has returned
    keys, failures, crashes, checks

drives == <<data, dver, stored, logged>>
maps == <<map, logs, cver>>
threads == <<pc, req, sync, index, at, purpose>>
counters == <<keys, failures, crashes, checks>>
vars == <<drives, cut, maps, threads, expect, counters>>

Init ==
    /\ data = [d \in Drive |-> [k \in Key |-> 0]]
    /\ dver = [d \in Drive |-> 0]
    /\ stored = [d \in Drive |-> {}]
    /\ logged = [l \in Log |-> {}]
    /\ cut = {}
    /\ map = [c \in Client |-> Configured]
    /\ logs = [c \in Client |-> Log]
    /\ cver = [c \in Client |-> [d \in Drive |-> 0]]
    /\ pc = [c \in Client |-> [t \in Thread |-> "idle"]]
    /\ req = [c \in Client |-> NoRequest]
    /\ sync = [c \in Client |-> NoSync]
    /\ index = [c \in Client |-> [t \in Thread |-> 1]]
    /\ at = [c \in Client |-> [t \in Thread |-> 1]]
    /\ purpose = [c \in Client |-> [t \in Thread |-> "none"]]
    /\ expect = [k \in Key |-> "any"]
    /\ keys = 0 /\ failures = 0 /\ crashes = 0 /\ checks = 0

\* What can be left out:
\*   "unlogged"          GreenIsUpToDate for keys whose operation logged nothing
\*   "split"             some clients lose a drive that others still reach
\*   "second failure"    a drive fails before an earlier failure is resolved
\*   "use during check"  operations while a drive is brought back
\*   "lost record"       the repair of a deleted key after one that exists
\*   "delete again"      a drive is disabled because it has deleted the key before
Avoided(what, condition) == what \in Avoid => ~condition

-----------------------------------------------------------------------------
(* Connections.                                                            *)

Reaches(c, d) == <<c, d>> \notin cut

\* driveToConnection with map m: a new connection has the version of the map.
Connection(c, m, d) ==
    IF cver[c][d] # NoConnection THEN cver[c][d]
    ELSE IF Reaches(c, d) THEN m.version ELSE NoConnection

\* A drive's answer to a request that does not depend on keys.
Answer(c, m, d) ==
    IF ~Reaches(c, d) THEN "error"
    ELSE IF Connection(c, m, d) # dver[d] THEN "cluster" ELSE "ok"

Connect(c, m, ds) ==
    cver' = [cver EXCEPT ![c] = [d \in Drive |-> IF d \in ds THEN Connection(c, m, d) ELSE @[d]]]

Up(m) == {d \in Drive : m.status[d] # "RED"}
Green(m) == {d \in Drive : m.status[d] = "GREEN"}

\* testPartition
testPartition(c, m) ==
    /\ \A d \in Up(m) : Answer(c, m, d) = "ok"
    /\ m.log # None => Reaches(c, m.log)
    /\ Green(m) # {}
    /\ Cardinality(Up(m)) = 1 => NDrives = 1 \/ m.log # None

\* Drives with another version than their connection, and those of them that
\* have stored the map of their version.
Outdated(c) == {d \in Up(map[c]) : Answer(c, map[c], d) = "cluster"}
Updates(c) == {d \in Outdated(c) : \E m \in stored[d] : m.version = dver[d]}

\* Mutant of getPartitionUpdate: the connections are updated, the map is not.
ConnectionUpdate(c) ==
    LET u == Min(Updates(c)) IN
    /\ cver' = [cver EXCEPT ![c] = [d \in Drive |->
                   IF d > u THEN @[d]
                   ELSE IF d \in Outdated(c) THEN dver[d] ELSE @[d]]]
    /\ UNCHANGED <<map, logs>>

\* getPartitionUpdate: the first drive that is outdated and has the map is asked.
\* (External: its answer to the Get that succeeds carries its cluster version,
\* which the code tests.)
getPartitionUpdate(c) ==
    LET u == Min(Updates(c)) IN
    /\ map' = [map EXCEPT ![c] = CHOOSE m \in stored[u] : m.version = dver[u]]
    /\ cver' = [cver EXCEPT ![c] = [d \in Drive |->
                   IF d > u THEN @[d]
                   ELSE IF d \in Outdated(c) THEN dver[d] ELSE @[d]]]
    /\ UNCHANGED logs

\* No drive has one; those that were asked have had their connections changed.
NoUpdate(c) ==
    /\ Updates(c) = {}
    /\ cver' = [cver EXCEPT ![c] = [d \in Drive |-> IF d \in Outdated(c) THEN dver[d] ELSE @[d]]]

-----------------------------------------------------------------------------
(* Control.                                                                *)

Goto(c, t, label) == pc' = [pc EXCEPT ![c][t] = label]

\* failure_lock: the other thread of the client is in putPartitionUpdate.
Locked(c, t) == \E x \in Thread \ {t} : pc[c][x] \in {"putmap", "setversion"}

\* The operation returns.
Return(c, result) ==
    /\ Goto(c, "op", "idle")
    /\ req' = [req EXCEPT ![c] = NoRequest]
    /\ expect' = IF req[c].key = 0 THEN expect ELSE [expect EXCEPT ![req[c].key] = result]

\* The process ends, and is mounted again with the configured map.
Restart(c) ==
    /\ pc' = [pc EXCEPT ![c] = [t \in Thread |-> IF t = "op" THEN "check" ELSE "idle"]]
    /\ map' = [map EXCEPT ![c] = Configured]
    /\ logs' = [logs EXCEPT ![c] = Log]
    /\ cver' = [cver EXCEPT ![c] = [d \in Drive |-> NoConnection]]
    /\ req' = [req EXCEPT ![c] = [NoRequest EXCEPT !.op = "mount"]]
    /\ sync' = [sync EXCEPT ![c] = NoSync]
    /\ index' = [index EXCEPT ![c] = [t \in Thread |-> 1]]

\* putPartitionUpdate of the client's map.
PutPartitionUpdate(c, t, for) ==
    /\ Goto(c, t, "putmap")
    /\ at' = [at EXCEPT ![c][t] = 1]
    /\ purpose' = [purpose EXCEPT ![c][t] = for]

\* A client other than c is in selfCheck or synchronizes a drive.
Checking(c) == \E x \in Client \ {c} : req[x].op \in {"check", "mount"} \/ pc[x]["sync"] # "idle"
Working(c) == \E x \in Client \ {c} : req[x].op \in {"put", "delete", "read"}
Quietly(c) == Avoided("use during check", Checking(c))

-----------------------------------------------------------------------------
(* Put, Delete and Get.                                                    *)

BeginPut(c) ==
    /\ pc[c]["op"] = "idle" /\ "put" \in Ops /\ keys < MaxKeys
    /\ Quietly(c)
    /\ keys' = keys + 1
    /\ req' = [req EXCEPT ![c] = [NoRequest EXCEPT !.op = "put", !.key = keys + 1]]
    /\ Goto(c, "op", "log")
    /\ UNCHANGED <<drives, cut, maps, sync, index, at, purpose, expect, failures, crashes, checks>>

BeginDelete(c, k) ==
    /\ pc[c]["op"] = "idle" /\ "delete" \in Ops /\ expect[k] = "present"
    /\ Quietly(c) /\ Avoided("use during check", pc[c]["sync"] # "idle")
    /\ req' = [req EXCEPT ![c] = [NoRequest EXCEPT !.op = "delete", !.key = k]]
    /\ expect' = [expect EXCEPT ![k] = "any"]
    /\ Goto(c, "op", "log")
    /\ UNCHANGED <<drives, cut, maps, sync, index, at, purpose, counters>>

\* writeOperation: one of the asynchronous requests is served.
Writing(c) == req[c].op \in {"put", "delete"}
Result(c, d) ==
    LET k == req[c].key
        r == data[d][k]
    IN  IF map[c].status[d] = "RED" THEN "error"
        ELSE IF Answer(c, map[c], d) # "ok" THEN Answer(c, map[c], d)
        ELSE IF req[c].op = "put" THEN IF r = 0 THEN "ok" ELSE "mismatch"
        ELSE IF r = 0 THEN "notfound" ELSE IF r = k THEN "ok" ELSE "mismatch"

Null(c, d) == d \in Up(map[c]) /\ Connection(c, map[c], d) = NoConnection

Send(c, d) ==
    LET k == req[c].key IN
    /\ Writing(c) /\ req[c].results[d] = "none"
    /\ ~Null(c, d)
    /\ req' = [req EXCEPT ![c].results[d] = Result(c, d)]
    /\ data' = IF Result(c, d) = "ok"
               THEN [data EXCEPT ![d][k] = IF req[c].op = "put" THEN k ELSE 0] ELSE data
    /\ Connect(c, map[c], {d} \cap Up(map[c]))
    /\ UNCHANGED <<dver, stored, logged, cut, map, logs, pc, sync, index, at, purpose, expect, counters>>

\* The operation is called on a null connection.
SendNull(c, d) ==
    /\ Writing(c) /\ req[c].results[d] = "none"
    /\ Null(c, d)
    /\ Restart(c)
    /\ UNCHANGED <<drives, cut, at, purpose, expect, counters>>

\* The key is logged if a drive is RED.  If that fails the log drive is given
\* up, and the map put without one.
LogKey(c) ==
    LET l == map[c].log IN
    /\ pc[c]["op"] = "log"
    /\ \/ /\ l = None \/ Up(map[c]) = Drive
          /\ Goto(c, "op", "wait")
          /\ UNCHANGED <<logged, map, logs, at, purpose>>
       \/ /\ l # None /\ Up(map[c]) # Drive /\ Reaches(c, l)
          /\ logged' = [logged EXCEPT ![l] = @ \cup {req[c].key}]
          /\ Goto(c, "op", "wait")
          /\ UNCHANGED <<map, logs, at, purpose>>
       \/ /\ l # None /\ Up(map[c]) # Drive /\ ~Reaches(c, l)
          /\ ~Locked(c, "op") /\ map[c].version < MaxVersion
          /\ logs' = [logs EXCEPT ![c] = @ \ {l}]
          /\ map' = [map EXCEPT ![c].log = None, ![c].version = @ + 1]
          /\ PutPartitionUpdate(c, "op", "log")
          /\ UNCHANGED logged
    /\ UNCHANGED <<data, dver, stored, cut, cver, req, sync, index, expect, counters>>

Replied(c) == pc[c]["op"] = "wait" /\ \A d \in Drive : req[c].results[d] # "none"
Outcome(c) == {req[c].results[d] : d \in Up(map[c])}

\* A) A cluster version mismatch: the operation is repeated with a new map.
Repeat(c) ==
    /\ Replied(c) /\ (\E d \in Drive : req[c].results[d] = "cluster") /\ ~Locked(c, "op")
    /\ \/ /\ Updates(c) # {} /\ getPartitionUpdate(c)
          /\ Goto(c, "op", "log")
          /\ req' = [req EXCEPT ![c].results = NoResults]
          /\ UNCHANGED expect
       \/ NoUpdate(c) /\ Return(c, "any") /\ UNCHANGED <<map, logs>>
    /\ UNCHANGED <<drives, cut, sync, index, at, purpose, counters>>

Accepted == {"ok", "mismatch"}
Broken(c) == {d \in Up(map[c]) : req[c].results[d] \notin Accepted}

\* The operation has disabled a drive, after LogKey, or it deletes a key while
\* no log drive is left: its key is in no log.
Unlogged(c) ==
    /\ "unlogged" \in Avoid
    /\ \/ req[c].back = "wait" /\ map[c].log # None
       \/ req[c].op = "delete" /\ Up(map[c]) # Drive /\ map[c].log = None

\* evaluateWriteOperation: B) the same result, C) the first drive with another
\* error is disabled, D) a partial write.
Evaluate(c) ==
    /\ Replied(c) /\ \A d \in Drive : req[c].results[d] # "cluster"
    /\ Green(map[c]) # {}
    /\ \/ /\ Outcome(c) = {"ok"}
          /\ Return(c, IF Unlogged(c) THEN "any" ELSE IF req[c].op = "put" THEN "present" ELSE "absent")
          /\ UNCHANGED index
       \/ Outcome(c) = {"mismatch"} /\ Return(c, "refused") /\ UNCHANGED index
       \/ Cardinality(Outcome(c)) = 1 /\ Outcome(c) \cap Accepted = {} /\ Return(c, "any") /\ UNCHANGED index
       \/ /\ Cardinality(Outcome(c)) > 1 /\ Broken(c) # {}
          /\ Avoided("delete again", req[c].results[Min(Broken(c))] = "notfound")
          /\ index' = [index EXCEPT ![c]["op"] = Min(Broken(c))]
          /\ Goto(c, "op", "disable")
          /\ req' = [req EXCEPT ![c].back = "wait"]
          /\ UNCHANGED expect
       \/ /\ Outcome(c) = Accepted /\ Goto(c, "op", "repair")
          /\ UNCHANGED <<req, expect, index>>
    /\ UNCHANGED <<drives, cut, maps, sync, at, purpose, counters>>

\* Without a GREEN drive the loops over the drives run past their end.
NoGreen(c) ==
    /\ Replied(c) /\ Green(map[c]) = {}
    /\ Restart(c)
    /\ UNCHANGED <<drives, cut, at, purpose, expect, counters>>

\* readRepair enforces record r of key k on the drives, in their order; it stops
\* at the first one that cannot be asked.
Failing(c) == {d \in Up(map[c]) : Answer(c, map[c], d) # "ok"}
Repaired(c) == {d \in Up(map[c]) : \A x \in Failing(c) : d < x}
readRepair(c, k, r) ==
    data' = [d \in Drive |-> IF d \in Repaired(c) THEN [data[d] EXCEPT ![k] = r] ELSE data[d]]
Reference(c) == Min(Green(map[c]))

\* Put and Delete after a partial write; once more after an update of the map.
Repair(c) ==
    LET k == req[c].key
        r == data[Reference(c)][k]
        status == IF Answer(c, map[c], Reference(c)) # "ok" THEN Answer(c, map[c], Reference(c))
                  ELSE IF Failing(c) # {} THEN Answer(c, map[c], Min(Failing(c))) ELSE "ok"
    IN  /\ pc[c]["op"] \in {"repair", "repair again"} /\ Green(map[c]) # {}
        /\ IF Answer(c, map[c], Reference(c)) = "ok" THEN readRepair(c, k, r) ELSE UNCHANGED data
        /\ \/ /\ status = "ok"
              /\ Return(c, IF req[c].op = "put" THEN IF r = k THEN "present" ELSE "refused"
                           ELSE IF r = 0 THEN "absent" ELSE "refused")
              /\ UNCHANGED maps
           \/ /\ status = "cluster" /\ pc[c]["op"] = "repair" /\ ~Locked(c, "op")
              /\ Updates(c) # {} /\ getPartitionUpdate(c)
              /\ Goto(c, "op", "repair again")
              /\ UNCHANGED <<req, expect>>
           \/ /\ status = "error" \/ (status = "cluster" /\ (Updates(c) = {} \/ pc[c]["op"] = "repair again"))
              /\ Return(c, "any") /\ UNCHANGED maps
        /\ UNCHANGED <<dver, stored, logged, cut, sync, index, at, purpose, counters>>

\* readOperation on some GREEN drive.
BeginRead(c) ==
    /\ pc[c]["op"] = "idle" /\ "read" \in Ops /\ Quietly(c)
    /\ \E d \in Drive : Answer(c, map[c], d) # "ok"
    /\ req' = [req EXCEPT ![c] = [NoRequest EXCEPT !.op = "read"]]
    /\ Goto(c, "op", "read")
    /\ UNCHANGED <<drives, cut, maps, sync, index, at, purpose, expect, counters>>

Read(c, d) ==
    /\ pc[c]["op"] = "read" /\ d \in Green(map[c])
    /\ \/ /\ Answer(c, map[c], d) = "ok" /\ Return(c, "any")
          /\ Connect(c, map[c], {d}) /\ UNCHANGED <<map, logs, index>>
       \/ /\ Answer(c, map[c], d) = "cluster" /\ ~Locked(c, "op")
          /\ \/ Updates(c) # {} /\ getPartitionUpdate(c) /\ UNCHANGED <<pc, req, expect>>
             \/ NoUpdate(c) /\ Return(c, "any") /\ UNCHANGED <<map, logs>>
          /\ UNCHANGED index
       \/ /\ Answer(c, map[c], d) = "error"
          /\ index' = [index EXCEPT ![c]["op"] = d]
          /\ Goto(c, "op", "disable")
          /\ req' = [req EXCEPT ![c].back = "read"]
          /\ UNCHANGED <<maps, expect>>
    /\ UNCHANGED <<drives, cut, sync, at, purpose, counters>>

-----------------------------------------------------------------------------
(* disableDrive.                                                           *)

\* The connections that testPartition makes until one fails.
Tested(c, m) == {d \in Up(m) : \A x \in Up(m) : x < d => Answer(c, m, x) = "ok"}

\* A log drive is chosen when the first drive fails.
LogChoice(c, m) ==
    IF m.log = None /\ Green(m) = Drive /\ logs[c] # {} THEN logs[c] ELSE {m.log}

Disable(c) ==
    LET i == index[c]["op"]
        m == map[c]
    IN  /\ pc[c]["op"] = "disable" /\ ~Locked(c, "op")
        /\ \/ /\ m.status[i] = "RED" /\ Goto(c, "op", req[c].back)
              /\ UNCHANGED <<req, expect, maps, at, purpose>>
           \/ /\ m.status[i] # "RED" /\ m.version < MaxVersion
              /\ \E l \in LogChoice(c, m) :
                    LET n == [version |-> m.version + 1, status |-> [m.status EXCEPT ![i] = "RED"], log |-> l]
                    IN  /\ map' = [map EXCEPT ![c] = n]
                        /\ Connect(c, n, Tested(c, n)) /\ UNCHANGED logs
                        /\ IF testPartition(c, n)
                           THEN PutPartitionUpdate(c, "op", "disable") /\ UNCHANGED <<req, expect>>
                           ELSE Return(c, "any") /\ UNCHANGED <<at, purpose>>
        /\ UNCHANGED <<drives, cut, sync, index, counters>>

-----------------------------------------------------------------------------
(* selfCheck and enableDrive.                                              *)

BeginCheck(c) ==
    /\ pc[c]["op"] = "idle" /\ checks < MaxChecks
    /\ Avoided("use during check", Working(c))
    /\ checks' = checks + 1
    /\ index' = [index EXCEPT ![c]["op"] = 1]
    /\ req' = [req EXCEPT ![c] = [NoRequest EXCEPT !.op = "check"]]
    /\ Goto(c, "op", "check")
    /\ UNCHANGED <<drives, cut, maps, sync, at, purpose, expect, keys, failures, crashes>>

Remaining(c) == {d \in Drive : d >= index[c]["op"] /\ d \notin Up(map[c])}

\* The next RED drive, or the final test of the map; a mount that fails is tried
\* again.
Check(c) ==
    /\ pc[c]["op"] = "check"
    /\ \/ /\ Remaining(c) # {}
          /\ index' = [index EXCEPT ![c]["op"] = Min(Remaining(c))]
          /\ Goto(c, "op", "probe")
          /\ UNCHANGED <<maps, req, expect, sync>>
       \/ /\ Remaining(c) = {} /\ testPartition(c, map[c])
          /\ Connect(c, map[c], Up(map[c])) /\ Return(c, "any")
          /\ UNCHANGED <<map, logs, index, sync>>
       \/ /\ Remaining(c) = {} /\ ~testPartition(c, map[c]) /\ ~Locked(c, "op")
          /\ \/ /\ Updates(c) # {} /\ getPartitionUpdate(c)
                /\ Goto(c, "op", "retest") /\ UNCHANGED <<req, index, sync, expect>>
             \/ /\ req[c].op = "check" /\ NoUpdate(c)
                /\ Return(c, "any") /\ UNCHANGED <<map, logs, index, sync>>
             \/ Updates(c) = {} /\ req[c].op = "mount" /\ Restart(c) /\ UNCHANGED expect
    /\ UNCHANGED <<drives, cut, at, purpose, counters>>

\* The test after the update.
Retest(c) ==
    /\ pc[c]["op"] = "retest"
    /\ IF testPartition(c, map[c]) \/ req[c].op = "check"
       THEN /\ Return(c, "any") /\ Connect(c, map[c], Tested(c, map[c]))
            /\ UNCHANGED <<map, logs, index, sync>>
       ELSE Restart(c) /\ UNCHANGED expect
    /\ UNCHANGED <<drives, cut, at, purpose, counters>>

NextCheck(c) ==
    /\ index' = [index EXCEPT ![c]["op"] = @ + 1]
    /\ Goto(c, "op", "check")

\* The drive's cluster version is found by trial.
Probe(c) ==
    LET i == index[c]["op"] IN
    /\ pc[c]["op"] = "probe" /\ ~Locked(c, "op")
    /\ IF map[c].status[i] = "RED" /\ Reaches(c, i)
       THEN cver' = [cver EXCEPT ![c][i] = dver[i]] /\ Goto(c, "op", "enable") /\ UNCHANGED index
       ELSE /\ NextCheck(c)
            /\ IF map[c].status[i] = "RED" /\ cver[c][i] # NoConnection
               THEN \E v \in 0 .. dver[i] : cver' = [cver EXCEPT ![c][i] = v]
               ELSE UNCHANGED cver
    /\ UNCHANGED <<drives, cut, map, logs, req, sync, at, purpose, expect, counters>>

\* Mutant of Enable: it becomes GREEN at once.
EnableGreen(c) ==
    LET i == index[c]["op"]
        n == [map[c] EXCEPT !.version = @ + 1, !.status[i] = "GREEN"]
    IN  /\ pc[c]["op"] = "enable" /\ ~Locked(c, "op") /\ pc[c]["sync"] = "idle"
        /\ map[c].version < MaxVersion
        /\ IF testPartition(c, n)
           THEN map' = [map EXCEPT ![c] = n] /\ PutPartitionUpdate(c, "op", "enable") /\ UNCHANGED index
           ELSE NextCheck(c) /\ UNCHANGED <<map, at, purpose>>
        /\ Connect(c, n, Tested(c, n))
        /\ UNCHANGED <<drives, cut, logs, req, sync, expect, counters>>

\* It becomes YELLOW.
Enable(c) ==
    LET i == index[c]["op"]
        n == [map[c] EXCEPT !.version = @ + 1, !.status[i] = "YELLOW"]
    IN  /\ pc[c]["op"] = "enable" /\ ~Locked(c, "op") /\ pc[c]["sync"] = "idle"
        /\ map[c].version < MaxVersion
        /\ IF testPartition(c, n)
           THEN map' = [map EXCEPT ![c] = n] /\ PutPartitionUpdate(c, "op", "enable") /\ UNCHANGED index
           ELSE NextCheck(c) /\ UNCHANGED <<map, at, purpose>>
        /\ Connect(c, n, Tested(c, n))
        /\ UNCHANGED <<drives, cut, logs, req, sync, expect, counters>>

-----------------------------------------------------------------------------
(* putPartitionUpdate.                                                     *)

Rest(c, t) == {d \in Up(map[c]) : d >= at[c][t]}
Stores(c, d) == Answer(c, map[c], d) = "ok" /\ \A m \in stored[d] : m.version # map[c].version
PutDone(c, t, for) == pc[c][t] = "putmap" /\ purpose[c][t] = for /\ Rest(c, t) = {}
PutFails(c, t, for) ==
    pc[c][t] = "putmap" /\ purpose[c][t] = for /\ Rest(c, t) # {} /\ ~Stores(c, Min(Rest(c, t)))

\* The map is put on the next drive, where no client may have put one ...
PutMap(c, t) ==
    LET i == Min(Rest(c, t)) IN
    /\ pc[c][t] = "putmap" /\ Rest(c, t) # {} /\ Stores(c, i)
    /\ stored' = [stored EXCEPT ![i] = @ \cup {map[c]}]
    /\ at' = [at EXCEPT ![c][t] = i]
    /\ Goto(c, t, "setversion")
    /\ Connect(c, map[c], {i})
    /\ UNCHANGED <<data, dver, logged, cut, map, logs, req, sync, index, purpose, expect, counters>>

\* Mutant of SetVersion: a drive is left out.
SetVersionSkips(c, t) ==
    LET i == at[c][t] IN
    /\ pc[c][t] = "setversion"
    /\ dver' = IF Answer(c, map[c], i) = "ok" THEN [dver EXCEPT ![i] = map[c].version] ELSE dver
    /\ cver' = [cver EXCEPT ![c][i] = map[c].version]
    /\ at' = [at EXCEPT ![c][t] = i + 2]
    /\ Goto(c, t, "putmap")
    /\ UNCHANGED <<data, stored, logged, cut, map, logs, req, sync, index, purpose, expect, counters>>

\* ... and then its cluster version is set, without regard to the answer.
SetVersion(c, t) ==
    LET i == at[c][t] IN
    /\ pc[c][t] = "setversion"
    /\ dver' = IF Answer(c, map[c], i) = "ok" THEN [dver EXCEPT ![i] = map[c].version] ELSE dver
    /\ cver' = [cver EXCEPT ![c][i] = map[c].version]
    /\ at' = [at EXCEPT ![c][t] = i + 1]
    /\ Goto(c, t, "putmap")
    /\ UNCHANGED <<data, stored, logged, cut, map, logs, req, sync, index, purpose, expect, counters>>

Disabled(c) ==
    /\ PutDone(c, "op", "disable")
    /\ cver' = [cver EXCEPT ![c][index[c]["op"]] = NoConnection]
    /\ Goto(c, "op", req[c].back)
    /\ UNCHANGED <<drives, cut, map, logs, req, sync, index, at, purpose, expect, counters>>

\* The map stays as it is, RED drive and all.
DisableFails(c) ==
    /\ PutFails(c, "op", "disable")
    /\ \/ /\ Updates(c) # {} /\ getPartitionUpdate(c)
          /\ Goto(c, "op", "disable") /\ UNCHANGED <<req, expect>>
       \/ NoUpdate(c) /\ Return(c, "any") /\ UNCHANGED <<map, logs>>
    /\ UNCHANGED <<drives, cut, sync, index, at, purpose, counters>>

\* A thread is started that synchronizes the drive.
Enabled(c) ==
    /\ PutDone(c, "op", "enable")
    /\ pc' = [pc EXCEPT ![c]["op"] = "check", ![c]["sync"] = "start"]
    /\ index' = [index EXCEPT ![c]["sync"] = index[c]["op"], ![c]["op"] = @ + 1]
    /\ UNCHANGED <<drives, cut, maps, req, sync, at, purpose, expect, counters>>

EnableFails(c) ==
    LET i == index[c]["op"] IN
    /\ PutFails(c, "op", "enable")
    /\ \/ /\ Updates(c) # {} /\ getPartitionUpdate(c)
          /\ Goto(c, "op", "probe") /\ UNCHANGED index
       \/ /\ NoUpdate(c) /\ UNCHANGED logs
          /\ map' = [map EXCEPT ![c].status[i] = "RED", ![c].version = @ - 1]
          /\ NextCheck(c)
    /\ UNCHANGED <<drives, cut, req, sync, at, purpose, expect, counters>>

\* The map without log drive has been put, or not.
LogGone(c) ==
    /\ PutDone(c, "op", "log") \/ PutFails(c, "op", "log")
    /\ Goto(c, "op", "wait")
    /\ UNCHANGED <<drives, cut, maps, req, sync, index, at, purpose, expect, counters>>

-----------------------------------------------------------------------------
(* synchronizeDrive.                                                       *)

EndSync(c) == Goto(c, "sync", "idle") /\ sync' = [sync EXCEPT ![c] = NoSync]

\* The keys come from the log drive, or from some GREEN drive.  The thread has
\* the index of its drive by reference, from a function that has returned: it
\* may as well find one that is not YELLOW.
SyncKeys(c) ==
    LET m == map[c] IN
    /\ pc[c]["sync"] = "start"
    /\ \/ /\ m.status[index[c]["sync"]] = "YELLOW"
          /\ \E ks \in IF m.log # None THEN {logged[m.log]}
                       ELSE {{k \in Key : data[d][k] # 0} : d \in Green(m)} :
                sync' = [sync EXCEPT ![c] = [keys |-> ks, record |-> 0, all |-> Up(m) = Drive]]
          /\ Goto(c, "sync", "sync")
       \/ EndSync(c)
    /\ UNCHANGED <<drives, cut, maps, req, index, at, purpose, expect, counters>>

\* readRepair of the next key.  The record variable keeps the last record when
\* the key is not found.  A repaired key is deleted from the log unless another
\* drive is RED.
SyncKey(c) ==
    LET m == map[c]
        k == Min(sync[c].keys)
        found == data[Reference(c)][k]
        r == IF found # 0 THEN found ELSE sync[c].record
    IN  /\ pc[c]["sync"] = "sync" /\ sync[c].keys # {} /\ Green(m) # {}
        /\ Avoided("lost record", found = 0 /\ sync[c].record # 0)
        /\ IF Answer(c, m, Reference(c)) = "ok" THEN readRepair(c, k, r) ELSE UNCHANGED data
        /\ IF Failing(c) = {}
           THEN /\ sync' = [sync EXCEPT ![c].keys = @ \ {k}, ![c].record = r]
                /\ logged' = IF m.log # None /\ sync[c].all
                             THEN [logged EXCEPT ![m.log] = @ \ {k}] ELSE logged
                /\ UNCHANGED pc
           ELSE EndSync(c) /\ UNCHANGED logged
        /\ UNCHANGED <<dver, stored, cut, maps, req, index, at, purpose, expect, counters>>

\* The drive becomes GREEN; the log drive is released with the last one.
SyncGreen(c) ==
    LET m == map[c]
        n == [m EXCEPT !.version = @ + 1, !.status[index[c]["sync"]] = "GREEN"]
    IN  /\ pc[c]["sync"] = "sync" /\ sync[c].keys = {} /\ ~Locked(c, "sync")
        /\ m.version < MaxVersion
        /\ map' = [map EXCEPT ![c] = IF Green(n) = Drive THEN [n EXCEPT !.log = None] ELSE n]
        /\ PutPartitionUpdate(c, "sync", "green")
        /\ UNCHANGED <<drives, cut, logs, cver, req, sync, index, expect, counters>>

\* If the put fails the drive is YELLOW as before (the log drive stays released).
Synchronized(c) ==
    /\ \/ PutDone(c, "sync", "green") /\ UNCHANGED map
       \/ /\ PutFails(c, "sync", "green")
          /\ map' = [map EXCEPT ![c].status[index[c]["sync"]] = "YELLOW", ![c].version = @ - 1]
    /\ EndSync(c)
    /\ UNCHANGED <<drives, cut, logs, cver, req, index, at, purpose, expect, counters>>

-----------------------------------------------------------------------------
(* The environment.                                                        *)

\* The maps with the highest version that a drive has stored.
Current == LET ms == {Configured} \cup UNION {stored[d] : d \in Drive} IN
           {m \in ms : \A x \in ms : x.version <= m.version}

\* An earlier failure has not been resolved yet.
Unresolved ==
    \/ cut # {}
    \/ \E c \in Client : pc[c] # [t \in Thread |-> "idle"]
    \/ \E m \in Current : Green(m) # Drive

\* A drive that is RED fails again.
Down(d) == \A m \in Current : m.status[d] = "RED"

\* A log drive fails that clients may need to take out a drive, or that has
\* deleted keys.
Needed(l) ==
    \/ \E m \in Current : m.log # l \/ Green(m) = Drive
    \/ \E c \in Client : pc[c] # [t \in Thread |-> "idle"]
    \/ \E k \in Key : expect[k] = "absent"

\* The clients cs lose a drive.
Fail(cs, d) ==
    /\ failures + crashes < MaxFaults /\ failures' = failures + 1
    /\ Avoided("split", cs # Client)
    /\ d \in Drive => Avoided("second failure", failures > 0 /\ Unresolved /\ ~Down(d))
    /\ d \in Log => Avoided("second failure", Needed(d))
    /\ cut' = cut \cup (cs \X {d})
    /\ UNCHANGED <<drives, maps, threads, expect, keys, crashes, checks>>

Heal(d) ==
    /\ \E c \in Client : ~Reaches(c, d)
    /\ cut' = cut \ (Client \X {d})
    /\ UNCHANGED <<drives, maps, threads, expect, counters>>

Crash(c) ==
    /\ failures + crashes < MaxFaults /\ crashes' = crashes + 1
    /\ pc[c] # [t \in Thread |-> "idle"]
    /\ Restart(c)
    /\ UNCHANGED <<drives, cut, at, purpose, expect, keys, failures, checks>>

Next ==
    \/ \E c \in Client :
          \/ BeginPut(c) \/ (\E k \in Key : BeginDelete(c, k)) \/ BeginRead(c) \/ BeginCheck(c)
          \/ \E d \in Drive : Send(c, d) \/ SendNull(c, d) \/ Read(c, d)
          \/ LogKey(c) \/ Repeat(c) \/ Evaluate(c) \/ NoGreen(c) \/ Repair(c)
          \/ Disable(c) \/ Disabled(c) \/ DisableFails(c) \/ LogGone(c)
          \/ Check(c) \/ Retest(c) \/ Probe(c) \/ Enable(c) \/ Enabled(c) \/ EnableFails(c)
          \/ \E t \in Thread : PutMap(c, t) \/ SetVersion(c, t)
          \/ SyncKeys(c) \/ SyncKey(c) \/ SyncGreen(c) \/ Synchronized(c)
          \/ Crash(c)
    \/ \E d \in Drive \cup Log : Heal(d) \/ \E cs \in SUBSET Client \ {{}} : Fail(cs, d)

Spec == Init /\ [][Next]_vars

-----------------------------------------------------------------------------
(* Properties.                                                             *)

\* Type invariant of the drives, the maps and the threads.
TypeOK ==
    /\ data \in [Drive -> [Key -> Key \cup {0}]]
    /\ dver \in [Drive -> 0 .. MaxVersion]
    /\ \A d \in Drive : stored[d] \subseteq Map
    /\ \A c \in Client :
          /\ map[c] \in Map
          /\ cver[c] \in [Drive -> 0 .. MaxVersion \cup {NoConnection}]
          /\ \A t \in Thread : index[c][t] \in 1 .. NDrives + 1 /\ at[c][t] \in 1 .. NDrives + 1

\* One cluster version never stands for two maps.
OneMapPerVersion ==
    \A d, e \in Drive : \A m \in stored[d], n \in stored[e] : m.version = n.version => m = n

\* "GREEN: it is up-to-date on all keys": a drive that is GREEN in the newest map
\* has every key that a Put has returned OK for, and none that a Delete has.
GreenIsUpToDate ==
    \A m \in Current : \A d \in Green(m), k \in Key :
        /\ expect[k] = "present" => data[d][k] = k
        /\ expect[k] = "absent" => data[d][k] = 0

\* A record stays with its key.
RecordsStay == \A d \in Drive, k \in Key : data[d][k] \in {0, k}

\* A Put that the drives refuse, for the version of its key, has not stored it.
RefusedIsNotStored ==
    \A m \in Current : \A d \in Green(m), k \in Key : expect[k] = "refused" => data[d][k] = 0

\* The cluster version of a drive never goes back.
VersionsGrow == [][\A d \in Drive : dver'[d] >= dver[d]]_vars
=============================================================================
