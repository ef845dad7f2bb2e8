--------------------------- MODULE ReplicatedKey ---------------------------
(***************************************************************************)
(* One key of a partition whose drives are all GREEN, and the clients that *)
(* write it through DistributedKineticNamespace: Put and Delete fan out to *)
(* every drive, compare the answers, and resolve a partial write with      *)
(* readRepair, which enforces the record of the first drive on the others. *)
(*                                                                         *)
(* A record is its version and the client that wrote it.  Each drive       *)
(* serves one request at a time and compares versions; the requests of one *)
(* operation are served in any order.  The call of disableDrive, which     *)
(* takes a drive out of the partition, ends the operation here.            *)
(***************************************************************************)
EXTENDS Naturals, FiniteSets

CONSTANTS
    Client,
    NDrives,      \* drives of the partition
    Ops,          \* requests made: subset of {"put", "delete"}
    Numbered,     \* versions count up (db entries) or are unique (all others)
    Serial,       \* do the clients write one at a time?
    Crashes,      \* may clients crash?
    MaxOps        \* bound: operations of each client

ASSUME ClientAssumption == IsFiniteSet(Client)
ASSUME DrivesAssumption == NDrives \in Nat \ {0}
ASSUME ModeAssumption ==
    /\ Ops \subseteq {"put", "delete"}
    /\ Numbered \in BOOLEAN /\ Serial \in BOOLEAN /\ Crashes \in BOOLEAN
    /\ MaxOps \in Nat

Drive == 1 .. NDrives
MaxVersion == 1 + Cardinality(Client) * MaxOps

\* readRepair takes the first GREEN drive as its reference.
Reference == 1

NoClient == "none"
ASSUME NoClientAssumption == NoClient \notin Client
Record == [version : 0 .. MaxVersion, by : Client \cup {NoClient}]

\* A drive without the key.
Absent == [version |-> 0, by |-> NoClient]
\* The key at the start: db entries are new, other keys are there.
Initial == IF Numbered THEN Absent ELSE [version |-> 1, by |-> NoClient]

VARIABLES
    disk,       \* record of the key on each drive
    versions,   \* versions generated so far
    pc,         \* where each client is
    op,         \* "put" or "delete"
    known,      \* the version it has read: current_version of its next operation
    rec,        \* the record it writes, Absent for a delete
    results,    \* what the drives answered
    ref,        \* reference record of its readRepair
    index,      \* drive that its readRepair is at
    seen,       \* version it found there
    ops,        \* operations started
    acked       \* history: operations that returned OK, as <<known, rec>>

vars == <<disk, versions, pc, op, known, rec, results, ref, index, seen, ops, acked>>
repairVars == <<ref, index, seen>>

\* Every client has read the key, which is on all drives.
Init ==
    /\ disk = [d \in Drive |-> Initial]
    /\ versions = 1
    /\ pc = [c \in Client |-> "idle"]
    /\ op = [c \in Client |-> "none"]
    /\ known = [c \in Client |-> Initial.version]
    /\ rec = [c \in Client |-> Absent]
    /\ results = [c \in Client |-> [d \in Drive |-> "none"]]
    /\ ref = [c \in Client |-> Absent]
    /\ index = [c \in Client |-> Reference]
    /\ seen = [c \in Client |-> 0]
    /\ ops = [c \in Client |-> 0]
    /\ acked = {}

-----------------------------------------------------------------------------
(* The drives, which are external.                                         *)

\* REQUIRE_SAME_VERSION; a missing key has the empty version.
PutStatus(current, version) ==
    IF current.version = version THEN "ok" ELSE "mismatch"

DeleteStatus(current, version) ==
    IF current = Absent THEN "notfound" ELSE PutStatus(current, version)

-----------------------------------------------------------------------------
(* writeOperation.                                                         *)

Goto(c, label) == pc' = [pc EXCEPT ![c] = label]

InOperation(c) == pc[c] \in {"write", "repair", "getversion", "fix", "verdict"}

\* Put and Delete: a put has a new version, unique or the next number.
Begin(c, o) ==
    /\ pc[c] = "idle" /\ ops[c] < MaxOps
    /\ Serial => \A x \in Client : ~InOperation(x)
    /\ o = "delete" => known[c] # 0
    /\ ops' = [ops EXCEPT ![c] = @ + 1]
    /\ op' = [op EXCEPT ![c] = o]
    /\ versions' = IF o = "put" /\ ~Numbered THEN versions + 1 ELSE versions
    /\ rec' = [rec EXCEPT ![c] =
                  IF o = "delete" THEN Absent
                  ELSE [version |-> IF Numbered THEN known[c] + 1 ELSE versions + 1,
                        by |-> c]]
    /\ results' = [results EXCEPT ![c] = [d \in Drive |-> "none"]]
    /\ Goto(c, "write")
    /\ UNCHANGED <<disk, known, repairVars, acked>>

\* One of the asynchronous requests is served.
WriteDrive(c, d) ==
    LET status == IF op[c] = "put" THEN PutStatus(disk[d], known[c])
                  ELSE DeleteStatus(disk[d], known[c])
    IN  /\ pc[c] = "write" /\ results[c][d] = "none"
        /\ results' = [results EXCEPT ![c][d] = status]
        /\ disk' = IF status = "ok" THEN [disk EXCEPT ![d] = rec[c]] ELSE disk
        /\ UNCHANGED <<versions, pc, op, known, rec, repairVars, ops, acked>>

AllEqual(c) == \A d \in Drive : results[c][d] = results[c][Reference]

\* The operation returns its status; a failed one leaves the client with a
\* version that it has to read again.
Return(c, status) ==
    /\ Goto(c, IF status = "ok" THEN "idle" ELSE "stale")
    /\ known' = [known EXCEPT ![c] = IF status = "ok" THEN rec[c].version ELSE @]
    /\ acked' = IF status = "ok" THEN acked \cup {<<known[c], rec[c]>>} ELSE acked

\* Mutant of Evaluate: the answer of the first drive is the result.
EvaluateFirst(c) ==
    /\ pc[c] = "write"
    /\ \A d \in Drive : results[c][d] # "none"
    /\ Return(c, results[c][Reference])
    /\ UNCHANGED <<disk, versions, op, rec, results, repairVars, ops>>

\* evaluateWriteOperation: the same answer from all drives is the result; an
\* answer other than OK and version mismatch is taken for a broken drive; what
\* remains is a partial write.
Evaluate(c) ==
    /\ pc[c] = "write"
    /\ \A d \in Drive : results[c][d] # "none"
    /\ \/ AllEqual(c) /\ Return(c, results[c][Reference])
       \/ /\ ~AllEqual(c)
          /\ Goto(c, IF \E d \in Drive : results[c][d] \notin {"ok", "mismatch"}
                     THEN "disable" ELSE "repair")
          /\ UNCHANGED <<known, acked>>
    /\ UNCHANGED <<disk, versions, op, rec, results, repairVars, ops>>

-----------------------------------------------------------------------------
(* readRepair.                                                             *)

\* Get the reference record.
RepairGet(c) ==
    /\ pc[c] = "repair"
    /\ ref' = [ref EXCEPT ![c] = disk[Reference]]
    /\ index' = [index EXCEPT ![c] = 1]
    /\ Goto(c, "getversion")
    /\ UNCHANGED <<disk, versions, op, known, rec, results, seen, ops, acked>>

\* Mutants of NextDrive: the loop ends one drive too late or too early.
NextDriveLate(c) ==
    IF index[c] > NDrives
    THEN Goto(c, "verdict") /\ UNCHANGED index
    ELSE Goto(c, "getversion") /\ index' = [index EXCEPT ![c] = @ + 1]

NextDriveEarly(c) ==
    IF index[c] >= NDrives - 1
    THEN Goto(c, "verdict") /\ UNCHANGED index
    ELSE Goto(c, "getversion") /\ index' = [index EXCEPT ![c] = @ + 1]

\* On to the next drive, or out of the loop.
NextDrive(c) ==
    IF index[c] = NDrives
    THEN Goto(c, "verdict") /\ UNCHANGED index
    ELSE Goto(c, "getversion") /\ index' = [index EXCEPT ![c] = @ + 1]

\* GetVersion on the drive: nothing to do when it agrees with the reference.
RepairGetVersion(c) ==
    LET version == disk[index[c]].version IN
    /\ pc[c] = "getversion"
    /\ seen' = [seen EXCEPT ![c] = version]
    /\ \/ version = ref[c].version /\ NextDrive(c)
       \/ version # ref[c].version /\ Goto(c, "fix") /\ UNCHANGED index
    /\ UNCHANGED <<disk, versions, op, known, rec, results, ref, ops, acked>>

\* Delete or Put on the drive, requiring the version that was found.  A
\* mismatch on the reference drive ends the repair, elsewhere it is ignored.
RepairFix(c) ==
    LET d == index[c]
        status == IF ref[c] = Absent THEN DeleteStatus(disk[d], seen[c])
                  ELSE PutStatus(disk[d], seen[c])
    IN  /\ pc[c] = "fix"
        /\ disk' = IF status = "ok" THEN [disk EXCEPT ![d] = ref[c]] ELSE disk
        /\ IF status = "mismatch" /\ d = Reference
           THEN Goto(c, "verdict") /\ UNCHANGED index
           ELSE NextDrive(c)
        /\ UNCHANGED <<versions, op, known, rec, results, ref, seen, ops, acked>>

\* Mutant of Verdict: a put is OK when the repair found any record.
VerdictAny(c) ==
    /\ pc[c] = "verdict"
    /\ Return(c, IF (op[c] = "put") = (ref[c] # Absent) THEN "ok" ELSE "mismatch")
    /\ UNCHANGED <<disk, versions, op, rec, results, repairVars, ops>>

\* Put and Delete after the repair: OK if the reference is what was written.
Verdict(c) ==
    /\ pc[c] = "verdict"
    /\ Return(c, IF op[c] = "put"
                 THEN IF ref[c] # Absent /\ ref[c].version = rec[c].version
                      THEN "ok" ELSE "mismatch"
                 ELSE IF ref[c] = Absent THEN "ok" ELSE "mismatch")
    /\ UNCHANGED <<disk, versions, op, rec, results, repairVars, ops>>

-----------------------------------------------------------------------------
(* Around the writes.                                                      *)

\* Get, from any GREEN drive, after an operation.
Read(c, d) ==
    /\ pc[c] \in {"idle", "stale"} /\ ops[c] > 0
    /\ known' = [known EXCEPT ![c] = disk[d].version]
    /\ Goto(c, "idle")
    /\ UNCHANGED <<disk, versions, op, rec, results, repairVars, ops, acked>>

\* A client crashes in the middle of an operation.
Crash(c) ==
    /\ Crashes /\ InOperation(c)
    /\ Goto(c, "crashed")
    /\ UNCHANGED <<disk, versions, op, known, rec, results, repairVars, ops, acked>>

Next ==
    \/ \E c \in Client, o \in Ops : Begin(c, o)
    \/ \E c \in Client, d \in Drive : WriteDrive(c, d) \/ Read(c, d)
    \/ \E c \in Client :
          Evaluate(c) \/ RepairGet(c) \/ RepairGetVersion(c) \/ RepairFix(c)
          \/ Verdict(c) \/ Crash(c)

Spec == Init /\ [][Next]_vars

-----------------------------------------------------------------------------
(* Properties.                                                             *)

\* Type invariant of the drives and of the operations in progress.
TypeOK ==
    /\ disk \in [Drive -> Record]
    /\ versions \in 1 .. MaxVersion
    /\ pc \in [Client -> {"idle", "stale", "write", "repair", "getversion", "fix",
                          "verdict", "disable", "crashed"}]
    /\ op \in [Client -> Ops \cup {"none"}]
    /\ known \in [Client -> 0 .. MaxVersion]
    /\ rec \in [Client -> Record]
    /\ results \in [Client -> [Drive -> {"none", "ok", "mismatch", "notfound"}]]
    /\ ref \in [Client -> Record]
    /\ index \in [Client -> Drive]
    /\ seen \in [Client -> 0 .. MaxVersion]
    /\ ops \in [Client -> 0 .. MaxOps]
    /\ acked \subseteq (0 .. MaxVersion) \X Record

\* Of the operations that require the same version at most one returns OK:
\* the partial writes of concurrent clients are resolved for one of them.  (The
\* empty version comes back when a key is deleted.)
OneWinner ==
    \A a, b \in acked :
        a[1] = b[1] /\ (a[1] = 0 => "delete" \notin Ops) => a = b

Quiet == \A c \in Client : ~InOperation(c)

\* When no operation is in progress and none was cut short, the drives of the
\* partition hold the same record.
DrivesAgree ==
    Quiet /\ (\A c \in Client : pc[c] \in {"idle", "stale"})
    => \A d \in Drive : disk[d] = disk[Reference]

\* In one round of operations, an operation that returned OK is on every drive
\* from then on, whatever the operations that lost still repair.
AckedOnAllDrives ==
    \A a \in acked : \A d \in Drive : disk[d] = a[2]

\* "GREEN: Has seen all valid writes": when no operation is in progress, no
\* drive still holds the version that an operation returning OK has replaced.
GreenSawWrites ==
    Quiet => \A d \in Drive, a \in acked : a[1] = 0 \/ disk[d].version # a[1]

\* disableDrive is called for drives that failed; here none does.
NoDriveDisabled == \A c \in Client : pc[c] # "disable"
=============================================================================
