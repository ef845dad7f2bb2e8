-------------------------- MODULE ClusterMapProofs --------------------------
(***************************************************************************)
(* Proofs about the cluster map, for any number of clients, drives and log *)
(* drives, whatever fails: the types, that the threads of a client exclude *)
(* each other while they put a map, and what a drive has stored.           *)
(***************************************************************************)
EXTENDS ClusterMap, WellFoundedInduction, TLAPS

LEMMA Constants ==
  /\ NDrives \in Nat /\ NDrives >= 1 /\ MaxVersion \in Nat /\ MaxKeys \in Nat
  <1>1. NDrives \in Nat \ {0} /\ {MaxKeys, MaxFaults, MaxChecks, MaxVersion} \subseteq Nat
    BY ClusterAssumption, Zenon
  <1> QED
    BY <1>1

-----------------------------------------------------------------------------
(* The state.                                                              *)

Version == 0 .. MaxVersion
Place == 1 .. NDrives + 1
Putting == {"putmap", "setversion"}
Labels == {"idle", "none", "log", "wait", "read", "repair", "disable", "check", "retest", "probe",
           "enable", "start", "sync"} \cup Putting
Label == Labels \cup {"repair again"}
Operation == {"none", "put", "delete", "read", "check", "mount"}
Answers == {"none", "ok", "error", "cluster", "mismatch", "notfound"}
Request == [op : Operation, key : 0 .. MaxKeys, results : [Drive -> Answers],
            back : {"none", "wait", "read"}]
SyncState == [keys : SUBSET Key, record : Key \cup {0}, all : BOOLEAN]

DrivesOK ==
    /\ data \in [Drive -> [Key -> Key \cup {0}]]
    /\ dver \in [Drive -> Version]
    /\ stored \in [Drive -> SUBSET Map]
    /\ logged \in [Log -> SUBSET Key]

MapsOK ==
    /\ map \in [Client -> Map]
    /\ logs \in [Client -> SUBSET Log]
    /\ cver \in [Client -> [Drive -> Version \cup {NoConnection}]]

ThreadsOK ==
    /\ pc \in [Client -> [Thread -> Label]]
    /\ req \in [Client -> Request]
    /\ sync \in [Client -> SyncState]
    /\ index \in [Client -> [Thread -> Place]]
    /\ at \in [Client -> [Thread -> Place]]
    /\ purpose \in [Client -> [Thread -> {"none", "log", "disable", "enable", "green"}]]
    /\ keys \in 0 .. MaxKeys

\* Where a client can be in each kind of request; the rest are put and delete.
RequestOK(c) ==
    /\ req[c].op = "none" => pc[c]["op"] = "idle"
    /\ req[c].op = "read" =>
        /\ pc[c]["op"] \in {"read", "disable"} \cup Putting
        /\ pc[c]["op"] # "read" => req[c].back = "read"
        /\ pc[c]["op"] \in Putting => purpose[c]["op"] = "disable"
    /\ req[c].op \in {"check", "mount"} =>
        /\ pc[c]["op"] \in {"check", "retest", "probe", "enable"} \cup Putting
        /\ pc[c]["op"] \in Putting => purpose[c]["op"] = "enable"
    /\ Writing(c) => req[c].key # 0

\* The drive that selfCheck is at.
IndexOK(c) ==
    \/ pc[c]["op"] \in {"probe", "enable"}
    \/ pc[c]["op"] \in Putting /\ purpose[c]["op"] = "enable"
    => index[c]["op"] \in Drive

\* failure_lock: one thread at a time puts the map, which has the version that
\* the thread has given it and is on the drive whose version is set next.
PutOK(c) ==
    /\ \A t \in Thread : Locked(c, t) => pc[c][t] \notin Putting
    /\ \A t \in Thread :
        /\ pc[c][t] \in Putting => map[c].version >= 1
        /\ pc[c][t] = "setversion" => at[c][t] \in Drive /\ map[c] \in stored[at[c][t]]

\* A drive has one map for each version, and the one of its own version.
MapsOfDrive(d) ==
    /\ \A m, n \in stored[d] : m.version = n.version => m = n
    /\ dver[d] # 0 => \E m \in stored[d] : m.version = dver[d]

TypeInv == DrivesOK /\ MapsOK /\ ThreadsOK
LocalOK(c) == RequestOK(c) /\ IndexOK(c) /\ PutOK(c)
MapInv == TypeInv /\ (\A c \in Client : LocalOK(c)) /\ \A d \in Drive : MapsOfDrive(d)

LEMMA MinIn ==
  ASSUME NEW S, S # {}, S \subseteq Nat
  PROVE  Min(S) \in S
  <1>1. PICK n \in S : \A k \in S : ~(<<k, n>> \in OpToRel(<, Nat))
    BY WFMin, NatLessThanWellFounded
  <1>2. \A k \in S : ~(k < n)
    BY <1>1 DEF OpToRel
  <1>3. \A k \in S : n <= k
    BY <1>2
  <1> QED
    BY <1>3 DEF Min

LEMMA DrivesAreNat == Drive \subseteq Nat /\ Key \subseteq Nat /\ 0 \notin Key
  BY Constants DEF Drive, Key

LEMMA KnownLabels == Labels \subseteq Label
  BY Zenon DEF Label

LEMMA RepairAgain ==
  /\ "repair again" \in Label
  /\ "repair again" \notin {"probe", "enable"} /\ "repair again" \notin Putting
  BY Zenon DEF Label, Putting

LEMMA Threads ==
  /\ "op" \in Thread /\ "sync" \in Thread /\ "op" # "sync"
  /\ \A t \in Thread : t = "op" \/ t = "sync"
  BY DEF Thread

\* Goto and what else the steps are made of.
LEMMA GotoEffect ==
  ASSUME ThreadsOK, NEW c \in Client, NEW t \in Thread, NEW l \in Label, Goto(c, t, l)
  PROVE  /\ pc' \in [Client -> [Thread -> Label]]
         /\ pc'[c][t] = l
         /\ \A u \in Thread : u # t => pc'[c][u] = pc[c][u]
         /\ \A x \in Client : x # c => pc'[x] = pc[x]
  BY DEF ThreadsOK, Goto

LEMMA ReturnEffect ==
  ASSUME ThreadsOK, NEW c \in Client, NEW r, Return(c, r)
  PROVE  /\ pc' \in [Client -> [Thread -> Label]]
         /\ pc'[c]["op"] = "idle" /\ pc'[c]["sync"] = pc[c]["sync"]
         /\ req' \in [Client -> Request] /\ req'[c].op = "none"
         /\ \A x \in Client : x # c => pc'[x] = pc[x] /\ req'[x] = req[x]
  <1>1. "idle" \in Label /\ Goto(c, "op", "idle")
    BY KnownLabels DEF Labels, Return
  <1>2. NoRequest \in Request /\ NoRequest.op = "none"
    BY Constants DEF NoRequest, NoResults, Request, Operation, Answers
  <1>3. req' \in [Client -> Request] /\ req'[c].op = "none" /\ \A x \in Client : x # c => req'[x] = req[x]
    BY <1>2 DEF ThreadsOK, Return
  <1> QED
    BY <1>1, <1>3, GotoEffect, Threads

LEMMA RestartEffect ==
  ASSUME TypeInv, NEW c \in Client, Restart(c)
  PROVE  /\ MapsOK' /\ pc' \in [Client -> [Thread -> Label]] /\ req' \in [Client -> Request]
         /\ sync' \in [Client -> SyncState] /\ index' \in [Client -> [Thread -> Place]]
         /\ pc'[c]["op"] = "check" /\ pc'[c]["sync"] = "idle" /\ req'[c].op = "mount"
         /\ \A x \in Client : x # c => /\ map'[x] = map[x] /\ pc'[x] = pc[x] /\ req'[x] = req[x]
                                       /\ index'[x] = index[x]
  <1>1. Configured \in Map
    BY Constants DEF Configured, Map, Status
  <1>2. MapsOK' /\ \A x \in Client : x # c => map'[x] = map[x]
    BY <1>1 DEF TypeInv, MapsOK, Restart, NoConnection
  <1>3. "check" \in Label /\ "idle" \in Label
    BY KnownLabels DEF Labels
  <1>4. /\ pc' \in [Client -> [Thread -> Label]] /\ pc'[c]["op"] = "check" /\ pc'[c]["sync"] = "idle"
        /\ \A x \in Client : x # c => pc'[x] = pc[x]
    BY <1>3, Threads DEF TypeInv, ThreadsOK, Restart
  <1>5. [NoRequest EXCEPT !.op = "mount"] \in Request /\ [NoRequest EXCEPT !.op = "mount"].op = "mount"
    BY Constants DEF NoRequest, NoResults, Request, Operation, Answers
  <1>6. req' \in [Client -> Request] /\ req'[c].op = "mount" /\ \A x \in Client : x # c => req'[x] = req[x]
    BY <1>5 DEF TypeInv, ThreadsOK, Restart
  <1>7. NoSync \in SyncState
    BY DEF NoSync, SyncState
  <1>8. sync' \in [Client -> SyncState]
    BY <1>7 DEF TypeInv, ThreadsOK, Restart
  <1>9. index' \in [Client -> [Thread -> Place]] /\ \A x \in Client : x # c => index'[x] = index[x]
    BY Constants DEF TypeInv, ThreadsOK, Restart, Place
  <1> QED
    BY <1>2, <1>4, <1>6, <1>8, <1>9

LEMMA ConnectionType ==
  ASSUME TypeInv, NEW c \in Client, NEW m \in Map, NEW d \in Drive
  PROVE  Connection(c, m, d) \in Version \cup {NoConnection}
  BY DEF TypeInv, MapsOK, Connection, Map, Version

LEMMA ConnectEffect ==
  ASSUME TypeInv, NEW c \in Client, NEW m \in Map, NEW ds, Connect(c, m, ds)
  PROVE  cver' \in [Client -> [Drive -> Version \cup {NoConnection}]]
  <1> DEFINE new == [d \in Drive |-> IF d \in ds THEN Connection(c, m, d) ELSE cver[c][d]]
  <1>1. cver \in [Client -> [Drive -> Version \cup {NoConnection}]]
    BY DEF TypeInv, MapsOK
  <1>2. new \in [Drive -> Version \cup {NoConnection}]
    BY <1>1, ConnectionType
  <1>3. cver' = [cver EXCEPT ![c] = new]
    BY <1>1 DEF Connect
  <1> QED
    BY <1>1, <1>2, <1>3

LEMMA UpdatesAreDrives ==
  ASSUME NEW c \in Client, Updates(c) # {}
  PROVE  Min(Updates(c)) \in Drive /\ Min(Updates(c)) \in Updates(c)
  <1>1. Updates(c) \subseteq Drive
    BY DEF Updates, Outdated, Up
  <1>2. Min(Updates(c)) \in Updates(c)
    BY <1>1, MinIn, DrivesAreNat
  <1> QED
    BY <1>1, <1>2

\* The map comes from the drives.
LEMMA UpdateEffect ==
  ASSUME TypeInv, NEW c \in Client, Updates(c) # {}, getPartitionUpdate(c)
  PROVE  MapsOK' /\ \A x \in Client : x # c => map'[x] = map[x]
  <1> DEFINE u == Min(Updates(c))
             m == CHOOSE y \in stored[u] : y.version = dver[u]
             new == [d \in Drive |-> IF d > u THEN cver[c][d]
                                     ELSE IF d \in Outdated(c) THEN dver[d] ELSE cver[c][d]]
  <1>1. u \in Drive /\ \E y \in stored[u] : y.version = dver[u]
    BY UpdatesAreDrives DEF Updates
  <1>2. m \in Map
    <2>1. m \in stored[u]
      BY <1>1
    <2> QED
      BY <1>1, <2>1 DEF TypeInv, DrivesOK
  <1>3. map' = [map EXCEPT ![c] = m] /\ logs' = logs
    BY DEF getPartitionUpdate
  <1>4. cver' = [cver EXCEPT ![c] = new]
    BY DEF getPartitionUpdate, TypeInv, MapsOK
  <1>5. new \in [Drive -> Version \cup {NoConnection}]
    BY DEF TypeInv, MapsOK, DrivesOK
  <1> HIDE DEF m, new, u
  <1> QED
    BY <1>2, <1>3, <1>4, <1>5 DEF TypeInv, MapsOK

LEMMA NoUpdateEffect ==
  ASSUME TypeInv, NEW c \in Client, NoUpdate(c)
  PROVE  cver' \in [Client -> [Drive -> Version \cup {NoConnection}]]
  <1> DEFINE new == [d \in Drive |-> IF d \in Outdated(c) THEN dver[d] ELSE cver[c][d]]
  <1>1. new \in [Drive -> Version \cup {NoConnection}]
    BY DEF TypeInv, MapsOK, DrivesOK
  <1>2. cver' = [cver EXCEPT ![c] = new]
    BY DEF NoUpdate, TypeInv, MapsOK
  <1> QED
    BY <1>1, <1>2 DEF TypeInv, MapsOK

LEMMA PutUpdateEffect ==
  ASSUME ThreadsOK, NEW c \in Client, NEW t \in Thread, NEW for \in {"log", "disable", "enable", "green"},
         PutPartitionUpdate(c, t, for)
  PROVE  /\ pc' \in [Client -> [Thread -> Label]] /\ at' \in [Client -> [Thread -> Place]]
         /\ purpose' \in [Client -> [Thread -> {"none", "log", "disable", "enable", "green"}]]
         /\ pc'[c][t] = "putmap" /\ purpose'[c][t] = for
         /\ \A u \in Thread : u # t => pc'[c][u] = pc[c][u] /\ purpose'[c][u] = purpose[c][u]
         /\ \A x \in Client : x # c => pc'[x] = pc[x] /\ at'[x] = at[x] /\ purpose'[x] = purpose[x]
  <1>1. "putmap" \in Label /\ Goto(c, t, "putmap")
    BY KnownLabels DEF Labels, Putting, PutPartitionUpdate
  <1>2. at' \in [Client -> [Thread -> Place]] /\ \A x \in Client : x # c => at'[x] = at[x]
    BY Constants DEF ThreadsOK, PutPartitionUpdate, Place
  <1>3. /\ purpose' \in [Client -> [Thread -> {"none", "log", "disable", "enable", "green"}]]
        /\ purpose'[c][t] = for /\ \A u \in Thread : u # t => purpose'[c][u] = purpose[c][u]
        /\ \A x \in Client : x # c => purpose'[x] = purpose[x]
    BY DEF ThreadsOK, PutPartitionUpdate
  <1> QED
    BY <1>1, <1>2, <1>3, GotoEffect

-----------------------------------------------------------------------------
(* What a step of one client has to show.                                  *)

Others(c) ==
    \A x \in Client : x # c =>
        /\ map'[x] = map[x] /\ pc'[x] = pc[x] /\ req'[x] = req[x] /\ index'[x] = index[x]
        /\ at'[x] = at[x] /\ purpose'[x] = purpose[x]
Grows == \A d \in Drive : stored[d] \subseteq stored'[d]

LEMMA StepOK ==
  ASSUME MapInv, TypeInv', NEW c \in Client, Others(c), Grows, LocalOK(c)',
         \A d \in Drive : MapsOfDrive(d)'
  PROVE  MapInv'
  <1>1. ASSUME NEW x \in Client, x # c
        PROVE  LocalOK(x)'
    <2>0. LocalOK(x)
      BY DEF MapInv
    <2>1. /\ map'[x] = map[x] /\ pc'[x] = pc[x] /\ req'[x] = req[x] /\ index'[x] = index[x]
          /\ at'[x] = at[x] /\ purpose'[x] = purpose[x]
      BY <1>1 DEF Others
    <2>2. RequestOK(x)'
      BY <2>0, <2>1 DEF LocalOK, RequestOK, Writing
    <2>3. IndexOK(x)'
      BY <2>0, <2>1 DEF LocalOK, IndexOK
    <2>4. PutOK(x)'
      BY <2>0, <2>1 DEF LocalOK, PutOK, Locked, Grows
    <2> QED
      BY <2>2, <2>3, <2>4 DEF LocalOK
  <1> QED
    BY <1>1 DEF MapInv

\* The same for a step that leaves the maps of the drives alone.
LEMMA QuietStep ==
  ASSUME MapInv, TypeInv', NEW c \in Client, Others(c), stored' = stored, dver' = dver, LocalOK(c)'
  PROVE  MapInv'
  <1>1. Grows /\ \A d \in Drive : MapsOfDrive(d)'
    BY DEF Grows, MapsOfDrive, MapInv
  <1> QED
    BY <1>1, StepOK

\* No thread of c begins to put a map, and the map of one that does stays.
LEMMA PutKept ==
  ASSUME NEW c \in Client, PutOK(c), Grows,
         \A t \in Thread : pc'[c][t] \in Putting =>
             pc'[c][t] = pc[c][t] /\ at'[c][t] = at[c][t] /\ map'[c] = map[c]
  PROVE  PutOK(c)'
  BY DEF PutOK, Locked, Grows, Putting

\* Thread t begins; the other one does not put a map.
LEMMA PutBegins ==
  ASSUME NEW c \in Client, NEW t \in Thread, pc'[c][t] = "putmap", map'[c].version >= 1,
         \A u \in Thread : u # t => pc'[c][u] \notin Putting
  PROVE  PutOK(c)'
  BY DEF PutOK, Locked, Putting

LEMMA Unlocked ==
  ASSUME NEW c \in Client, NEW t \in Thread, ~Locked(c, t)
  PROVE  \A u \in Thread : u # t => pc[c][u] \notin Putting
  BY DEF Locked, Putting

\* A step of the thread for operations in which it does not put a map.
LEMMA OpStep ==
  ASSUME MapInv, NEW c \in Client, TypeInv', Others(c), stored' = stored, dver' = dver,
         pc'[c]["op"] \notin Putting, pc'[c]["sync"] \in {pc[c]["sync"], "start"},
         at'[c]["sync"] = at[c]["sync"],
         map'[c] = map[c] \/ ~Locked(c, "op") \/ pc[c]["op"] \in Putting,
         RequestOK(c)', IndexOK(c)'
  PROVE  MapInv'
  <1>1. PutOK(c)
    BY DEF MapInv, LocalOK
  <1>2. ASSUME NEW t \in Thread, pc'[c][t] \in Putting
        PROVE  pc'[c][t] = pc[c][t] /\ at'[c][t] = at[c][t] /\ map'[c] = map[c]
    <2>1. t = "sync" /\ pc[c]["sync"] \in Putting
      BY <1>2, Threads DEF Putting
    <2>2. Locked(c, "op")
      BY <2>1, Threads DEF Locked, Putting
    <2>3. pc[c]["op"] \notin Putting
      BY <1>1, <2>2, Threads DEF PutOK
    <2> QED
      BY <1>2, <2>1, <2>2, <2>3, Threads DEF Putting
  <1>3. Grows
    BY DEF Grows
  <1>4. PutOK(c)'
    BY <1>1, <1>2, <1>3, PutKept
  <1> QED
    BY <1>4, QuietStep DEF LocalOK

\* The operation returns.
LEMMA ReturnStep ==
  ASSUME MapInv, NEW c \in Client, NEW r, Return(c, r), DrivesOK', MapsOK', stored' = stored, dver' = dver,
         \A x \in Client : x # c => map'[x] = map[x],
         map'[c] = map[c] \/ ~Locked(c, "op") \/ pc[c]["op"] \in Putting,
         UNCHANGED <<sync, index, at, purpose, keys>>
  PROVE  MapInv'
  <1>0. TypeInv
    BY DEF MapInv
  <1>1. /\ pc' \in [Client -> [Thread -> Label]]
        /\ pc'[c]["op"] = "idle" /\ pc'[c]["sync"] = pc[c]["sync"]
        /\ req' \in [Client -> Request] /\ req'[c].op = "none"
        /\ \A x \in Client : x # c => pc'[x] = pc[x] /\ req'[x] = req[x]
    BY <1>0, ReturnEffect DEF TypeInv
  <1>2. ThreadsOK'
    BY <1>0, <1>1 DEF TypeInv, ThreadsOK
  <1>3. RequestOK(c)' /\ IndexOK(c)' /\ pc'[c]["op"] \notin Putting
    BY <1>1 DEF RequestOK, IndexOK, Writing, Putting
  <1>4. Others(c)
    BY <1>1 DEF Others
  <1> QED
    BY <1>1, <1>2, <1>3, <1>4, OpStep DEF TypeInv

LEMMA RestartStep ==
  ASSUME MapInv, NEW c \in Client, Restart(c), UNCHANGED drives, UNCHANGED <<at, purpose, keys>>
  PROVE  MapInv'
  <1>0. TypeInv
    BY DEF MapInv
  <1>1. /\ MapsOK' /\ pc' \in [Client -> [Thread -> Label]] /\ req' \in [Client -> Request]
        /\ sync' \in [Client -> SyncState] /\ index' \in [Client -> [Thread -> Place]]
        /\ pc'[c]["op"] = "check" /\ pc'[c]["sync"] = "idle" /\ req'[c].op = "mount"
        /\ \A x \in Client : x # c => /\ map'[x] = map[x] /\ pc'[x] = pc[x] /\ req'[x] = req[x]
                                      /\ index'[x] = index[x]
    BY <1>0, RestartEffect
  <1>2. TypeInv' /\ stored' = stored /\ dver' = dver
    BY <1>0, <1>1 DEF TypeInv, DrivesOK, ThreadsOK, drives
  <1>3. RequestOK(c)' /\ IndexOK(c)'
    BY <1>1 DEF RequestOK, IndexOK, Writing, Putting
  <1>4. Others(c)
    BY <1>1 DEF Others
  <1>5. PutOK(c)'
    BY <1>1, Threads DEF PutOK, Locked, Putting
  <1> QED
    BY <1>2, <1>3, <1>4, <1>5, QuietStep DEF LocalOK

\* The thread for operations goes elsewhere within its request.
LEMMA GotoStep ==
  ASSUME MapInv, NEW c \in Client, NEW l \in Label, Goto(c, "op", l), l \notin Putting,
         DrivesOK', MapsOK', stored' = stored, dver' = dver,
         \A x \in Client : x # c => map'[x] = map[x] /\ req'[x] = req[x] /\ index'[x] = index[x],
         map'[c] = map[c] \/ ~Locked(c, "op") \/ pc[c]["op"] \in Putting,
         req' \in [Client -> Request], index' \in [Client -> [Thread -> Place]],
         UNCHANGED <<sync, at, purpose, keys>>,
         RequestOK(c)', l \in {"probe", "enable"} => index'[c]["op"] \in Drive
  PROVE  MapInv'
  <1>0. TypeInv
    BY DEF MapInv
  <1>1. /\ pc' \in [Client -> [Thread -> Label]]
        /\ pc'[c]["op"] = l /\ pc'[c]["sync"] = pc[c]["sync"]
        /\ \A x \in Client : x # c => pc'[x] = pc[x]
    BY <1>0, GotoEffect, Threads DEF TypeInv
  <1>2. ThreadsOK'
    BY <1>0, <1>1 DEF TypeInv, ThreadsOK
  <1>3. IndexOK(c)'
    BY <1>1 DEF IndexOK
  <1>4. Others(c)
    BY <1>1 DEF Others
  <1> QED
    BY <1>1, <1>2, <1>3, <1>4, OpStep DEF TypeInv

\* The threads stay where they are.
LEMMA StayStep ==
  ASSUME MapInv, NEW c \in Client, TypeInv', UNCHANGED <<dver, stored, map, pc, index, at, purpose>>,
         req'[c].op = req[c].op, req'[c].key = req[c].key, req'[c].back = req[c].back,
         \A x \in Client : x # c => req'[x] = req[x]
  PROVE  MapInv'
  <1>1. LocalOK(c)
    BY DEF MapInv
  <1>2. RequestOK(c)' /\ IndexOK(c)'
    BY <1>1 DEF LocalOK, RequestOK, IndexOK, Writing
  <1>3. PutOK(c)'
    BY <1>1, PutKept DEF LocalOK, Grows
  <1>4. Others(c)
    BY DEF Others
  <1> QED
    BY <1>2, <1>3, <1>4, QuietStep DEF LocalOK

\* The requests that put a map, and what for.
MayPut(c, for) ==
    /\ \/ Writing(c)
       \/ req[c].op = "read" /\ req[c].back = "read" /\ for = "disable"
       \/ req[c].op \in {"check", "mount"} /\ for = "enable"
    /\ for = "enable" => index[c]["op"] \in Drive

\* Thread t begins to put the map that it has changed.
LEMMA PutStep ==
  ASSUME MapInv, NEW c \in Client, NEW t \in Thread, NEW for \in {"log", "disable", "enable", "green"},
         PutPartitionUpdate(c, t, for), ~Locked(c, t),
         DrivesOK', MapsOK', stored' = stored, dver' = dver, UNCHANGED <<req, sync, index, keys>>,
         map'[c].version >= 1, \A x \in Client : x # c => map'[x] = map[x],
         t = "op" => MayPut(c, for)
  PROVE  MapInv'
  <1>0. TypeInv /\ RequestOK(c) /\ IndexOK(c)
    BY DEF MapInv, LocalOK
  <1>1. /\ pc' \in [Client -> [Thread -> Label]] /\ at' \in [Client -> [Thread -> Place]]
        /\ purpose' \in [Client -> [Thread -> {"none", "log", "disable", "enable", "green"}]]
        /\ pc'[c][t] = "putmap" /\ purpose'[c][t] = for
        /\ \A u \in Thread : u # t => pc'[c][u] = pc[c][u] /\ purpose'[c][u] = purpose[c][u]
        /\ \A x \in Client : x # c => pc'[x] = pc[x] /\ at'[x] = at[x] /\ purpose'[x] = purpose[x]
    BY <1>0, PutUpdateEffect DEF TypeInv
  <1>2. TypeInv'
    BY <1>0, <1>1 DEF TypeInv, ThreadsOK
  <1>3. Others(c)
    BY <1>1 DEF Others
  <1>4. PutOK(c)'
    BY <1>1, Unlocked, PutBegins
  <1>5. CASE t = "op"
    <2>1. RequestOK(c)' /\ IndexOK(c)'
      BY <1>0, <1>1, <1>5 DEF RequestOK, IndexOK, Writing, Putting, MayPut
    <2> QED
      BY <1>2, <1>3, <1>4, <2>1, QuietStep DEF LocalOK
  <1>6. CASE t = "sync"
    <2>1. RequestOK(c)' /\ IndexOK(c)'
      BY <1>0, <1>1, <1>6, Threads DEF RequestOK, IndexOK, Writing
    <2> QED
      BY <1>2, <1>3, <1>4, <2>1, QuietStep DEF LocalOK
  <1> QED
    BY <1>5, <1>6, Threads

-----------------------------------------------------------------------------
(* Put, Delete and Get.                                                    *)

LEMMA Begins ==
  ASSUME MapInv, NEW c \in Client, NEW r \in Request, NEW l \in Labels,
         req' = [req EXCEPT ![c] = r], Goto(c, "op", l),
         \/ r.op \in {"put", "delete"} /\ r.key # 0 /\ l = "log"
         \/ r.op = "read" /\ l = "read"
         \/ r.op = "check" /\ l = "check",
         UNCHANGED <<drives, maps, sync, at, purpose>>, keys' \in 0 .. MaxKeys,
         index' \in [Client -> [Thread -> Place]],
         \A x \in Client : x # c => index'[x] = index[x]
  PROVE  MapInv'
  <1>0. TypeInv /\ l \in Label
    BY KnownLabels DEF MapInv
  <1>1. /\ pc' \in [Client -> [Thread -> Label]]
        /\ pc'[c]["op"] = l /\ pc'[c]["sync"] = pc[c]["sync"]
        /\ \A x \in Client : x # c => pc'[x] = pc[x]
    BY <1>0, GotoEffect, Threads DEF TypeInv
  <1>2. req' \in [Client -> Request] /\ req'[c] = r /\ \A x \in Client : x # c => req'[x] = req[x]
    BY <1>0 DEF TypeInv, ThreadsOK
  <1>3. TypeInv' /\ stored' = stored /\ dver' = dver /\ map' = map /\ at' = at
    BY <1>0, <1>1, <1>2 DEF TypeInv, DrivesOK, MapsOK, ThreadsOK, drives, maps
  <1>4. RequestOK(c)' /\ IndexOK(c)' /\ pc'[c]["op"] \notin Putting
    BY <1>1, <1>2 DEF RequestOK, IndexOK, Writing, Putting
  <1>5. Others(c)
    BY <1>1, <1>2, <1>3 DEF Others
  <1> QED
    BY <1>1, <1>3, <1>4, <1>5, OpStep

LEMMA NewRequest ==
  ASSUME NEW o \in Operation, NEW k \in 0 .. MaxKeys
  PROVE  /\ [NoRequest EXCEPT !.op = o, !.key = k] \in Request
         /\ [NoRequest EXCEPT !.op = o, !.key = k].op = o
         /\ [NoRequest EXCEPT !.op = o, !.key = k].key = k
         /\ [NoRequest EXCEPT !.op = o] \in Request
         /\ [NoRequest EXCEPT !.op = o].op = o
  <1>1. NoResults \in [Drive -> Answers] /\ 0 \in 0 .. MaxKeys
    BY Constants DEF NoResults, Answers
  <1>2. NoRequest = [op |-> "none", key |-> 0, results |-> NoResults, back |-> "none"]
    BY DEF NoRequest
  <1>3. NoRequest \in Request
    BY <1>1, <1>2 DEF Request, Operation
  <1>4. [NoRequest EXCEPT !.op = o] \in Request /\ [NoRequest EXCEPT !.op = o].op = o
    BY <1>3 DEF Request
  <1>5. /\ [NoRequest EXCEPT !.op = o, !.key = k] \in Request
        /\ [NoRequest EXCEPT !.op = o, !.key = k].op = o
        /\ [NoRequest EXCEPT !.op = o, !.key = k].key = k
    BY <1>3 DEF Request
  <1> QED
    BY <1>4, <1>5

LEMMA StepBeginPut ==
  ASSUME MapInv, NEW c \in Client, BeginPut(c)
  PROVE  MapInv'
  <1>1. keys \in 0 .. MaxKeys /\ index \in [Client -> [Thread -> Place]]
    BY DEF MapInv, TypeInv, ThreadsOK
  <1>2. keys + 1 \in 0 .. MaxKeys /\ keys + 1 # 0
    BY <1>1, Constants DEF BeginPut
  <1>3. /\ req' = [req EXCEPT ![c] = [NoRequest EXCEPT !.op = "put", !.key = keys + 1]]
        /\ Goto(c, "op", "log") /\ UNCHANGED <<drives, maps, sync, at, purpose>> /\ keys' = keys + 1
        /\ index' = index
    BY DEF BeginPut
  <1>4. "log" \in Labels /\ "put" \in Operation
    BY DEF Labels, Operation
  <1> QED
    BY <1>1, <1>2, <1>3, <1>4, NewRequest, Begins

LEMMA StepBeginDelete ==
  ASSUME MapInv, NEW c \in Client, NEW k \in Key, BeginDelete(c, k)
  PROVE  MapInv'
  <1>1. keys \in 0 .. MaxKeys /\ index \in [Client -> [Thread -> Place]]
    BY DEF MapInv, TypeInv, ThreadsOK
  <1>2. k \in 0 .. MaxKeys /\ k # 0
    BY Constants DEF Key
  <1>3. /\ req' = [req EXCEPT ![c] = [NoRequest EXCEPT !.op = "delete", !.key = k]]
        /\ Goto(c, "op", "log")
        /\ UNCHANGED <<drives, cut, maps, sync, index, at, purpose, counters>>
    BY Zenon DEF BeginDelete
  <1>4. UNCHANGED <<drives, maps, sync, at, purpose>> /\ keys' = keys /\ index' = index
    BY <1>3 DEF counters
  <1>5. "log" \in Labels /\ "delete" \in Operation
    BY DEF Labels, Operation
  <1> QED
    BY <1>1, <1>2, <1>3, <1>4, <1>5, NewRequest, Begins

LEMMA StepBeginRead ==
  ASSUME MapInv, NEW c \in Client, BeginRead(c)
  PROVE  MapInv'
  <1>1. keys \in 0 .. MaxKeys /\ index \in [Client -> [Thread -> Place]] /\ 0 \in 0 .. MaxKeys
    BY Constants DEF MapInv, TypeInv, ThreadsOK
  <1>2. /\ req' = [req EXCEPT ![c] = [NoRequest EXCEPT !.op = "read"]]
        /\ Goto(c, "op", "read") /\ UNCHANGED <<drives, maps, sync, at, purpose>> /\ keys' = keys
        /\ index' = index
    BY DEF BeginRead, counters
  <1>3. "read" \in Labels /\ "read" \in Operation
    BY DEF Labels, Operation
  <1> QED
    BY <1>1, <1>2, <1>3, NewRequest, Begins

LEMMA StepBeginCheck ==
  ASSUME MapInv, NEW c \in Client, BeginCheck(c)
  PROVE  MapInv'
  <1>1. keys \in 0 .. MaxKeys /\ index \in [Client -> [Thread -> Place]] /\ 0 \in 0 .. MaxKeys /\ 1 \in Place
    BY Constants DEF MapInv, TypeInv, ThreadsOK, Place
  <1>2. /\ req' = [req EXCEPT ![c] = [NoRequest EXCEPT !.op = "check"]]
        /\ Goto(c, "op", "check") /\ index' = [index EXCEPT ![c]["op"] = 1]
        /\ UNCHANGED <<drives, cut, maps, sync, at, purpose, expect, keys, failures, crashes>>
    BY Zenon DEF BeginCheck
  <1>3. UNCHANGED <<drives, maps, sync, at, purpose>> /\ keys' = keys
    BY <1>2
  <1>4. index' \in [Client -> [Thread -> Place]] /\ \A x \in Client : x # c => index'[x] = index[x]
    BY <1>1, <1>2
  <1>5. "check" \in Labels /\ "check" \in Operation
    BY DEF Labels, Operation
  <1> DEFINE r == [NoRequest EXCEPT !.op = "check"]
  <1>6. r \in Request /\ r.op = "check"
    BY <1>1, <1>5, NewRequest
  <1> HIDE DEF r
  <1> QED
    BY <1>1, <1>2, <1>3, <1>4, <1>5, <1>6, Begins DEF r

LEMMA AnswerType ==
  ASSUME NEW c, NEW m, NEW d
  PROVE  Answer(c, m, d) \in {"ok", "error", "cluster"}
  BY DEF Answer

LEMMA StepSend ==
  ASSUME MapInv, NEW c \in Client, NEW d \in Drive, Send(c, d)
  PROVE  MapInv'
  <1>0. TypeInv /\ RequestOK(c) /\ req[c] \in Request
    BY DEF MapInv, LocalOK, TypeInv, ThreadsOK
  <1>1. req[c].key \in Key
    <2>1. req[c].key \in 0 .. MaxKeys /\ req[c].key # 0
      BY <1>0 DEF RequestOK, Request, Send
    <2> QED
      BY <2>1, Constants DEF Key
  <1>2. Result(c, d) \in Answers
    BY AnswerType DEF Result, Answers
  <1>3. data' \in [Drive -> [Key -> Key \cup {0}]]
    BY <1>0, <1>1 DEF TypeInv, DrivesOK, Send
  <1>4. /\ req' \in [Client -> Request]
        /\ req'[c].op = req[c].op /\ req'[c].key = req[c].key /\ req'[c].back = req[c].back
        /\ \A x \in Client : x # c => req'[x] = req[x]
    <2> DEFINE r == [req[c] EXCEPT !.results[d] = Result(c, d)]
    <2>1. req' = [req EXCEPT ![c] = r]
      BY <1>0 DEF Send, TypeInv, ThreadsOK
    <2>2. r \in Request /\ r.op = req[c].op /\ r.key = req[c].key /\ r.back = req[c].back
      BY <1>0, <1>2 DEF Request
    <2> HIDE DEF r
    <2> QED
      BY <1>0, <2>1, <2>2 DEF TypeInv, ThreadsOK
  <1>5. map[c] \in Map /\ Connect(c, map[c], {d} \cap Up(map[c]))
    BY <1>0 DEF Send, TypeInv, MapsOK
  <1>6. cver' \in [Client -> [Drive -> Version \cup {NoConnection}]]
    BY <1>0, <1>5, ConnectEffect
  <1>7. UNCHANGED <<dver, stored, logged, map, logs, pc, sync, index, at, purpose, keys>>
    BY DEF Send, counters
  <1>8. TypeInv'
    BY <1>0, <1>3, <1>4, <1>6, <1>7 DEF TypeInv, DrivesOK, MapsOK, ThreadsOK
  <1> QED
    BY <1>4, <1>7, <1>8, StayStep

LEMMA StepRestart ==
  ASSUME MapInv, NEW c \in Client,
         NoGreen(c) \/ Crash(c) \/ \E d \in Drive : SendNull(c, d)
  PROVE  MapInv'
  <1>1. Restart(c) /\ UNCHANGED drives /\ UNCHANGED <<at, purpose, keys>>
    BY DEF NoGreen, Crash, SendNull, counters
  <1> QED
    BY <1>1, RestartStep

\* A change of the version of the map, and of its log drive or status.
LEMMA NewMap ==
  ASSUME MapsOK, NEW c \in Client, NEW m \in Map, map' = [map EXCEPT ![c] = m]
  PROVE  map' \in [Client -> Map] /\ map'[c] = m /\ \A x \in Client : x # c => map'[x] = map[x]
  BY DEF MapsOK

LEMMA StepLogKey ==
  ASSUME MapInv, NEW c \in Client, LogKey(c)
  PROVE  MapInv'
  <1> DEFINE l == map[c].log
  <1>0. /\ TypeInv /\ RequestOK(c) /\ req[c] \in Request /\ map[c] \in Map /\ pc[c]["op"] = "log"
        /\ UNCHANGED <<data, dver, stored, cver, req, sync, index, keys>>
    BY DEF MapInv, LocalOK, TypeInv, ThreadsOK, MapsOK, LogKey, counters
  <1>1. Writing(c) /\ req[c].key \in Key
    <2>1. Writing(c)
      BY <1>0 DEF RequestOK, Writing, Request, Operation, Putting
    <2>2. req[c].key \in 0 .. MaxKeys /\ req[c].key # 0
      BY <1>0, <2>1 DEF RequestOK, Request
    <2> QED
      BY <2>1, <2>2, Constants DEF Key
  <1>2. ASSUME Goto(c, "op", "wait"), logged' \in [Log -> SUBSET Key], UNCHANGED <<map, logs, at, purpose>>
        PROVE  MapInv'
    <2>1. DrivesOK' /\ MapsOK'
      BY <1>0, <1>2 DEF TypeInv, DrivesOK, MapsOK
    <2>2. "wait" \in Label /\ "wait" \notin Putting /\ "wait" \notin {"probe", "enable"}
      BY KnownLabels DEF Labels, Putting
    <2>3. RequestOK(c)'
      BY <1>0, <1>1 DEF RequestOK, Writing
    <2>4. req' \in [Client -> Request] /\ index' \in [Client -> [Thread -> Place]]
      BY <1>0 DEF TypeInv, ThreadsOK
    <2> QED
      BY <1>0, <1>2, <2>1, <2>2, <2>3, <2>4, GotoStep
  <1>3. CASE l = None \/ Up(map[c]) = Drive
    <2>1. Goto(c, "op", "wait") /\ UNCHANGED <<logged, map, logs, at, purpose>>
      BY <1>3 DEF LogKey
    <2>2. logged' \in [Log -> SUBSET Key]
      BY <1>0, <2>1 DEF TypeInv, DrivesOK
    <2> QED
      BY <1>2, <2>1, <2>2
  <1>4. CASE ~(l = None \/ Up(map[c]) = Drive) /\ Reaches(c, l)
    <2>1. /\ Goto(c, "op", "wait") /\ UNCHANGED <<map, logs, at, purpose>>
          /\ logged' = [logged EXCEPT ![l] = @ \cup {req[c].key}]
      BY <1>4 DEF LogKey
    <2>2. logged' \in [Log -> SUBSET Key]
      BY <1>0, <1>1, <2>1 DEF TypeInv, DrivesOK
    <2> QED
      BY <1>2, <2>1, <2>2
  <1>5. CASE ~(l = None \/ Up(map[c]) = Drive) /\ ~Reaches(c, l)
    <2> DEFINE m == [map[c] EXCEPT !.log = None, !.version = @ + 1]
    <2>1. /\ ~Locked(c, "op") /\ map[c].version < MaxVersion /\ logs' = [logs EXCEPT ![c] = @ \ {l}]
          /\ PutPartitionUpdate(c, "op", "log") /\ logged' = logged
          /\ map' = [map EXCEPT ![c].log = None, ![c].version = @ + 1]
      BY <1>5 DEF LogKey
    <2>2. map' = [map EXCEPT ![c] = m]
      BY <1>0, <2>1 DEF TypeInv, MapsOK
    <2>3. m \in Map /\ m.version >= 1
      <3> DEFINE n == [map[c] EXCEPT !.log = None]
      <3>1. n \in Map /\ n.version = map[c].version
        BY <1>0 DEF Map
      <3>2. m = [n EXCEPT !.version = @ + 1]
        OBVIOUS
      <3> HIDE DEF n, m
      <3>3. n.version + 1 \in 0 .. MaxVersion /\ n.version + 1 >= 1
        BY <2>1, <3>1, Constants DEF Map
      <3> QED
        BY <3>1, <3>2, <3>3 DEF Map
    <2> HIDE DEF m
    <2>4. map' \in [Client -> Map] /\ map'[c] = m /\ \A x \in Client : x # c => map'[x] = map[x]
      BY <1>0, <2>2, <2>3, NewMap DEF TypeInv
    <2>5. DrivesOK' /\ MapsOK'
      BY <1>0, <2>1, <2>4 DEF TypeInv, DrivesOK, MapsOK
    <2>6. MayPut(c, "log")
      BY <1>1 DEF MayPut
    <2> QED
      <3>1. map'[c].version >= 1
        BY <2>3, <2>4
      <3> QED
        BY <1>0, <2>1, <2>4, <2>5, <2>6, <3>1, PutStep, Threads
  <1> QED
    BY <1>3, <1>4, <1>5

\* What the steps of an operation leave alone.
LEMMA Kept ==
  ASSUME MapInv, NEW c \in Client
  PROVE  /\ TypeInv /\ DrivesOK /\ MapsOK /\ ThreadsOK
         /\ RequestOK(c) /\ IndexOK(c) /\ PutOK(c)
         /\ map[c] \in Map /\ req[c] \in Request
         /\ req \in [Client -> Request] /\ index \in [Client -> [Thread -> Place]]
  BY DEF MapInv, LocalOK, TypeInv, ThreadsOK, MapsOK

LEMMA SomeLabels ==
  \A l \in {"log", "wait", "repair", "disable", "check", "retest", "read", "idle", "start", "sync",
            "probe", "enable"} : l \in Label /\ l \notin Putting
  BY KnownLabels DEF Labels, Putting

LEMMA StepRepeat ==
  ASSUME MapInv, NEW c \in Client, Repeat(c)
  PROVE  MapInv'
  <1>0. /\ TypeInv /\ DrivesOK /\ MapsOK /\ ThreadsOK /\ RequestOK(c) /\ req[c] \in Request
        /\ pc[c]["op"] = "wait" /\ ~Locked(c, "op")
        /\ UNCHANGED drives /\ UNCHANGED <<sync, index, at, purpose, keys>>
    BY Kept DEF Repeat, Replied, counters
  <1>1. DrivesOK' /\ stored' = stored /\ dver' = dver
    BY <1>0 DEF DrivesOK, drives
  <1>2. CASE Updates(c) # {} /\ getPartitionUpdate(c) /\ Goto(c, "op", "log") /\ req' = [req EXCEPT ![c].results = NoResults]
    <2>1. MapsOK' /\ \A x \in Client : x # c => map'[x] = map[x]
      BY <1>0, <1>2, UpdateEffect
    <2>2. /\ req' \in [Client -> Request]
          /\ req'[c].op = req[c].op /\ req'[c].key = req[c].key /\ req'[c].back = req[c].back
          /\ \A x \in Client : x # c => req'[x] = req[x]
      <3> DEFINE r == [req[c] EXCEPT !.results = NoResults]
      <3>1. req' = [req EXCEPT ![c] = r]
        BY <1>0, <1>2 DEF ThreadsOK
      <3>2. NoResults \in [Drive -> Answers]
        BY DEF NoResults, Answers
      <3>3. r \in Request /\ r.op = req[c].op /\ r.key = req[c].key /\ r.back = req[c].back
        BY <1>0, <3>2 DEF Request
      <3> HIDE DEF r
      <3> QED
        BY <1>0, <3>1, <3>3 DEF ThreadsOK
    <2>3. RequestOK(c)'
      <3>1. Writing(c) /\ req[c].key # 0
        BY <1>0 DEF RequestOK, Writing, Request, Operation, Putting
      <3> QED
        BY <2>2, <3>1 DEF RequestOK, Writing
    <2>4. index' \in [Client -> [Thread -> Place]]
      BY <1>0 DEF ThreadsOK
    <2> QED
      BY <1>0, <1>1, <1>2, <2>1, <2>2, <2>3, <2>4, SomeLabels, GotoStep
  <1>3. CASE NoUpdate(c) /\ Return(c, "any") /\ UNCHANGED <<map, logs>>
    <2>1. MapsOK'
      BY <1>0, <1>3, NoUpdateEffect DEF MapsOK
    <2> QED
      BY <1>0, <1>1, <1>3, <2>1, ReturnStep
  <1> QED
    BY <1>2, <1>3 DEF Repeat

\* The operation has got an answer from all drives.
LEMMA BrokenDrive ==
  ASSUME NEW c \in Client, Broken(c) # {}
  PROVE  Min(Broken(c)) \in Drive
  <1>1. Broken(c) \subseteq Drive
    BY DEF Broken, Up
  <1> QED
    BY <1>1, MinIn, DrivesAreNat

\* disableDrive is called, and goes back to b.
LEMMA DisableBegins ==
  ASSUME MapInv, NEW c \in Client, NEW d \in Drive, NEW b \in {"wait", "read"},
         Goto(c, "op", "disable"), index' = [index EXCEPT ![c]["op"] = d],
         req' = [req EXCEPT ![c].back = b], Writing(c) \/ (req[c].op = "read" /\ b = "read"),
         UNCHANGED drives, UNCHANGED maps, UNCHANGED <<sync, at, purpose, keys>>
  PROVE  MapInv'
  <1>0. /\ TypeInv /\ DrivesOK /\ MapsOK /\ ThreadsOK /\ RequestOK(c) /\ req[c] \in Request
    BY Kept
  <1>1. DrivesOK' /\ MapsOK' /\ stored' = stored /\ dver' = dver /\ map' = map
    BY <1>0 DEF DrivesOK, MapsOK, drives, maps
  <1>2. /\ req' \in [Client -> Request]
        /\ req'[c].op = req[c].op /\ req'[c].key = req[c].key /\ req'[c].back = b
        /\ \A x \in Client : x # c => req'[x] = req[x]
    <2> DEFINE r == [req[c] EXCEPT !.back = b]
    <2>1. req' = [req EXCEPT ![c] = r]
      BY <1>0 DEF ThreadsOK
    <2>2. r \in Request /\ r.op = req[c].op /\ r.key = req[c].key /\ r.back = b
      BY <1>0 DEF Request
    <2> HIDE DEF r
    <2> QED
      BY <1>0, <2>1, <2>2 DEF ThreadsOK
  <1>3. index' \in [Client -> [Thread -> Place]] /\ \A x \in Client : x # c => index'[x] = index[x]
    <2>1. d \in Place
      BY Constants DEF Place, Drive
    <2> QED
      BY <1>0, <2>1 DEF ThreadsOK
  <1>4. pc'[c]["op"] = "disable"
    BY <1>0, SomeLabels, GotoEffect, Threads
  <1>5. RequestOK(c)'
    BY <1>0, <1>2, <1>4 DEF RequestOK, Writing, Putting
  <1> QED
    BY <1>1, <1>2, <1>3, <1>5, SomeLabels, GotoStep

LEMMA StepEvaluate ==
  ASSUME MapInv, NEW c \in Client, Evaluate(c)
  PROVE  MapInv'
  <1>0. /\ DrivesOK /\ MapsOK /\ RequestOK(c) /\ req[c] \in Request
    BY Kept
  <1>1. /\ pc[c]["op"] = "wait"
        /\ UNCHANGED <<drives, cut, maps, sync, at, purpose, counters>>
        /\ \/ (\E r : Return(c, r)) /\ UNCHANGED index
           \/ /\ Broken(c) # {} /\ index' = [index EXCEPT ![c]["op"] = Min(Broken(c))]
              /\ Goto(c, "op", "disable") /\ req' = [req EXCEPT ![c].back = "wait"]
           \/ Goto(c, "op", "repair") /\ UNCHANGED <<req, expect, index>>
    BY Zenon DEF Evaluate, Replied
  <1>2. /\ DrivesOK' /\ MapsOK' /\ stored' = stored /\ dver' = dver /\ map' = map
        /\ UNCHANGED drives /\ UNCHANGED maps /\ UNCHANGED <<sync, at, purpose, keys>>
    BY <1>0, <1>1 DEF DrivesOK, MapsOK, drives, maps, counters
  <1>3. Writing(c)
    BY <1>0, <1>1 DEF RequestOK, Writing, Request, Operation, Putting
  <1>4. CASE (\E r : Return(c, r)) /\ UNCHANGED index
    BY <1>2, <1>4, ReturnStep
  <1>5. CASE /\ Broken(c) # {} /\ index' = [index EXCEPT ![c]["op"] = Min(Broken(c))]
             /\ Goto(c, "op", "disable") /\ req' = [req EXCEPT ![c].back = "wait"]
    BY <1>2, <1>3, <1>5, BrokenDrive, DisableBegins
  <1>6. CASE Goto(c, "op", "repair") /\ UNCHANGED <<req, expect, index>>
    <2>1. RequestOK(c)'
      BY <1>0, <1>3, <1>6 DEF RequestOK, Writing
    <2> QED
      BY <1>2, <1>6, <2>1, Kept, SomeLabels, GotoStep
  <1> QED
    BY <1>1, <1>4, <1>5, <1>6

LEMMA ReferenceIsDrive ==
  ASSUME NEW c \in Client, Green(map[c]) # {}
  PROVE  Reference(c) \in Drive
  <1>1. Green(map[c]) \subseteq Drive
    BY DEF Green
  <1> QED
    BY <1>1, MinIn, DrivesAreNat DEF Reference

LEMMA RepairType ==
  ASSUME DrivesOK, NEW c \in Client, NEW k, NEW r \in Key \cup {0}, readRepair(c, k, r)
  PROVE  data' \in [Drive -> [Key -> Key \cup {0}]]
  BY DEF DrivesOK, readRepair

LEMMA StepRepair ==
  ASSUME MapInv, NEW c \in Client, Repair(c)
  PROVE  MapInv'
  <1> DEFINE k == req[c].key
             r == data[Reference(c)][k]
             At == pc[c]["op"]
  <1>0. TypeInv /\ DrivesOK /\ MapsOK /\ RequestOK(c) /\ req[c] \in Request
    BY Kept
  <1>1. /\ At \in {"repair", "repair again"} /\ Green(map[c]) # {}
        /\ readRepair(c, k, r) \/ UNCHANGED data
        /\ UNCHANGED <<dver, stored, logged, cut, sync, index, at, purpose, counters>>
        /\ \/ (\E x : Return(c, x)) /\ UNCHANGED maps
           \/ /\ ~Locked(c, "op") /\ Updates(c) # {} /\ getPartitionUpdate(c)
              /\ Goto(c, "op", "repair again") /\ UNCHANGED <<req, expect>>
    BY Zenon DEF Repair
  <1>2. ~(At \in {"idle", "read", "disable", "check", "retest", "probe", "enable", "putmap", "setversion"})
    BY <1>1, Zenon
  <1>3. PICK l \in Label :
          /\ l \notin Putting /\ l \notin {"probe", "enable"}
          /\ Goto(c, "op", "repair again") => Goto(c, "op", l)
    BY RepairAgain, Zenon
  <1>4. Green(map[c]) # {} /\ (readRepair(c, k, r) \/ UNCHANGED data)
    BY <1>1, Zenon
  <1>5. UNCHANGED <<dver, stored, logged, cut, sync, index, at, purpose, counters>>
    BY <1>1, Zenon
  <1>6. \/ (\E x : Return(c, x)) /\ UNCHANGED maps
        \/ /\ ~Locked(c, "op") /\ Updates(c) # {} /\ getPartitionUpdate(c)
           /\ Goto(c, "op", l) /\ UNCHANGED <<req, expect>>
    BY <1>1, <1>3, Zenon
  <1> HIDE <1>1, <1>3
  <1>7. Writing(c) /\ k \in Key
    <2>1. Writing(c)
      BY <1>0, <1>2 DEF RequestOK, Writing, Request, Operation, Putting
    <2>2. k \in 0 .. MaxKeys /\ k # 0
      BY <1>0, <2>1 DEF RequestOK, Request
    <2> QED
      BY <2>1, <2>2, Constants DEF Key
  <1>8. DrivesOK' /\ stored' = stored /\ dver' = dver
    <2>1. r \in Key \cup {0}
      BY <1>0, <1>4, <1>7, ReferenceIsDrive DEF DrivesOK
    <2>2. data' \in [Drive -> [Key -> Key \cup {0}]]
      <3>1. CASE readRepair(c, k, r)
        <4> HIDE DEF r, k
        <4> QED
          BY <1>0, <2>1, <3>1, RepairType
      <3>2. CASE UNCHANGED data
        BY <1>0, <3>2 DEF DrivesOK
      <3> QED
        BY <1>4, <3>1, <3>2
    <2> QED
      BY <1>0, <1>5, <2>2 DEF DrivesOK
  <1>9. UNCHANGED <<sync, index, at, purpose, keys>>
    BY <1>5 DEF counters
  <1>10. CASE (\E x : Return(c, x)) /\ UNCHANGED maps
    <2>1. MapsOK' /\ map' = map
      BY <1>0, <1>10 DEF MapsOK, maps
    <2> QED
      BY <1>8, <1>9, <1>10, <2>1, ReturnStep
  <1>11. CASE /\ ~Locked(c, "op") /\ Updates(c) # {} /\ getPartitionUpdate(c)
              /\ Goto(c, "op", l) /\ UNCHANGED <<req, expect>>
    <2>1. MapsOK' /\ \A x \in Client : x # c => map'[x] = map[x]
      BY <1>0, <1>11, UpdateEffect
    <2>2. RequestOK(c)'
      BY <1>0, <1>7, <1>11 DEF RequestOK, Writing
    <2>3. l \notin Putting /\ l \notin {"probe", "enable"}
      BY <1>3, Zenon
    <2> QED
      BY <1>8, <1>9, <1>11, <2>1, <2>2, <2>3, Kept, GotoStep
  <1> QED
    BY <1>6, <1>10, <1>11

LEMMA StepRead ==
  ASSUME MapInv, NEW c \in Client, NEW d \in Drive, Read(c, d)
  PROVE  MapInv'
  <1>0. /\ TypeInv /\ DrivesOK /\ MapsOK /\ RequestOK(c) /\ req[c] \in Request /\ map[c] \in Map
        /\ pc[c]["op"] = "read" /\ UNCHANGED drives /\ UNCHANGED <<sync, at, purpose, keys>>
    BY Kept DEF Read, counters
  <1>1. DrivesOK' /\ stored' = stored /\ dver' = dver
    BY <1>0 DEF DrivesOK, drives
  <1>2. CASE Return(c, "any") /\ Connect(c, map[c], {d}) /\ UNCHANGED <<map, logs, index>>
    <2>1. MapsOK'
      BY <1>0, <1>2, ConnectEffect DEF MapsOK
    <2> QED
      BY <1>0, <1>1, <1>2, <2>1, ReturnStep
  <1>3. CASE /\ ~Locked(c, "op") /\ Updates(c) # {} /\ getPartitionUpdate(c)
             /\ UNCHANGED <<pc, req, expect, index>>
    <2>1. MapsOK' /\ \A x \in Client : x # c => map'[x] = map[x]
      BY <1>0, <1>3, UpdateEffect
    <2>2. TypeInv'
      BY <1>0, <1>1, <1>3, <2>1 DEF TypeInv, ThreadsOK
    <2>3. Others(c)
      BY <1>0, <1>3, <2>1 DEF Others
    <2>4. RequestOK(c)' /\ IndexOK(c)' /\ pc'[c]["op"] \notin Putting
      BY <1>0, <1>3 DEF RequestOK, IndexOK, Writing, Putting
    <2> QED
      BY <1>0, <1>1, <1>3, <2>2, <2>3, <2>4, OpStep
  <1>4. CASE NoUpdate(c) /\ Return(c, "any") /\ UNCHANGED <<map, logs, index>>
    <2>1. MapsOK'
      BY <1>0, <1>4, NoUpdateEffect DEF MapsOK
    <2> QED
      BY <1>0, <1>1, <1>4, <2>1, ReturnStep
  <1>5. CASE /\ index' = [index EXCEPT ![c]["op"] = d] /\ Goto(c, "op", "disable")
             /\ req' = [req EXCEPT ![c].back = "read"] /\ UNCHANGED <<maps, expect>>
    <2>1. Writing(c) \/ req[c].op = "read"
      BY <1>0 DEF RequestOK, Writing, Request, Operation, Putting
    <2>2. UNCHANGED maps
      BY <1>5
    <2> QED
      BY <1>0, <1>5, <2>1, <2>2, DisableBegins
  <1> QED
    BY <1>2, <1>3, <1>4, <1>5 DEF Read

-----------------------------------------------------------------------------
(* disableDrive.                                                           *)

\* Back to the operation that has called disableDrive.
LEMMA BackStep ==
  ASSUME MapInv, NEW c \in Client, Goto(c, "op", req[c].back),
         \/ pc[c]["op"] = "disable"
         \/ pc[c]["op"] = "putmap" /\ purpose[c]["op"] = "disable",
         DrivesOK', MapsOK', stored' = stored, dver' = dver, map' = map,
         UNCHANGED <<req, index, sync, at, purpose, keys>>
  PROVE  MapInv'
  <1>0. RequestOK(c) /\ req[c] \in Request /\ ThreadsOK
    BY Kept
  <1>1. req[c].back \in {"none", "wait", "read"}
    BY <1>0 DEF Request
  <1>2. req[c].back \in Label /\ req[c].back \notin Putting /\ req[c].back \notin {"probe", "enable"}
    BY <1>1, KnownLabels DEF Labels, Putting
  <1>3. pc'[c]["op"] = req[c].back
    BY <1>0, <1>2, GotoEffect, Threads
  <1>4. RequestOK(c)'
    BY <1>0, <1>1, <1>3 DEF RequestOK, Writing, Putting
  <1> QED
    BY <1>2, <1>4, Kept, GotoStep

LEMMA StepDisable ==
  ASSUME MapInv, NEW c \in Client, Disable(c)
  PROVE  MapInv'
  <1> DEFINE i == index[c]["op"]
             m == map[c]
             n(l) == [version |-> m.version + 1, status |-> [m.status EXCEPT ![i] = "RED"], log |-> l]
  <1>0. /\ TypeInv /\ DrivesOK /\ MapsOK /\ RequestOK(c) /\ req[c] \in Request /\ m \in Map
        /\ pc[c]["op"] = "disable" /\ ~Locked(c, "op") /\ UNCHANGED drives
        /\ UNCHANGED <<sync, index, keys>>
    BY Kept DEF Disable, counters
  <1>1. DrivesOK' /\ stored' = stored /\ dver' = dver
    BY <1>0 DEF DrivesOK, drives
  <1>2. CASE Goto(c, "op", req[c].back) /\ UNCHANGED <<req, expect, maps, at, purpose>>
    <2>1. MapsOK' /\ map' = map
      BY <1>0, <1>2 DEF MapsOK, maps
    <2> QED
      BY <1>0, <1>1, <1>2, <2>1, BackStep
  <1>3. ASSUME NEW l \in LogChoice(c, m), m.version < MaxVersion, map' = [map EXCEPT ![c] = n(l)],
               Connect(c, n(l), Tested(c, n(l))), UNCHANGED logs,
               \/ PutPartitionUpdate(c, "op", "disable") /\ UNCHANGED <<req, expect>>
               \/ Return(c, "any") /\ UNCHANGED <<at, purpose>>
        PROVE  MapInv'
    <2>1. l \in Log \cup {None}
      BY <1>0, <1>3 DEF LogChoice, MapsOK, Map
    <2>2. n(l) \in Map /\ n(l).version >= 1
      <3>1. m.version + 1 \in 0 .. MaxVersion /\ m.version + 1 >= 1
        BY <1>0, <1>3, Constants DEF Map
      <3>2. [m.status EXCEPT ![i] = "RED"] \in [Drive -> Status]
        BY <1>0 DEF Map, Status
      <3> QED
        BY <2>1, <3>1, <3>2 DEF Map
    <2> HIDE DEF n
    <2>3. map' \in [Client -> Map] /\ map'[c] = n(l) /\ \A x \in Client : x # c => map'[x] = map[x]
      BY <1>0, <1>3, <2>2, NewMap
    <2>4. MapsOK'
      BY <1>0, <1>3, <2>2, <2>3, ConnectEffect DEF MapsOK
    <2>5. CASE PutPartitionUpdate(c, "op", "disable") /\ UNCHANGED <<req, expect>>
      <3>1. MayPut(c, "disable")
        BY <1>0 DEF MayPut, RequestOK, Request, Operation, Writing, Putting
      <3>2. map'[c].version >= 1
        BY <2>2, <2>3
      <3> QED
        BY <1>0, <1>1, <2>3, <2>4, <2>5, <3>1, <3>2, PutStep, Threads
    <2>6. CASE Return(c, "any") /\ UNCHANGED <<at, purpose>>
      BY <1>0, <1>1, <2>3, <2>4, <2>6, ReturnStep
    <2> QED
      BY <1>3, <2>5, <2>6
  <1> QED
    BY <1>2, <1>3 DEF Disable

LEMMA StepDisabled ==
  ASSUME MapInv, NEW c \in Client, Disabled(c)
  PROVE  MapInv'
  <1>0. /\ DrivesOK /\ MapsOK /\ pc[c]["op"] = "putmap" /\ purpose[c]["op"] = "disable"
        /\ UNCHANGED drives /\ UNCHANGED <<map, logs, req, index, sync, at, purpose, keys>>
        /\ Goto(c, "op", req[c].back) /\ cver' = [cver EXCEPT ![c][index[c]["op"]] = NoConnection]
    BY Kept DEF Disabled, PutDone, counters
  <1>1. DrivesOK' /\ stored' = stored /\ dver' = dver
    BY <1>0 DEF DrivesOK, drives
  <1>2. MapsOK'
    BY <1>0 DEF MapsOK
  <1> QED
    BY <1>0, <1>1, <1>2, BackStep

LEMMA StepDisableFails ==
  ASSUME MapInv, NEW c \in Client, DisableFails(c)
  PROVE  MapInv'
  <1>0. /\ TypeInv /\ DrivesOK /\ MapsOK /\ ThreadsOK /\ RequestOK(c) /\ req[c] \in Request
        /\ pc[c]["op"] = "putmap" /\ purpose[c]["op"] = "disable"
        /\ UNCHANGED drives /\ UNCHANGED <<sync, index, at, purpose, keys>>
    BY Kept DEF DisableFails, PutFails, counters
  <1>1. DrivesOK' /\ stored' = stored /\ dver' = dver /\ pc[c]["op"] \in Putting
    BY <1>0 DEF DrivesOK, drives, Putting
  <1>2. CASE Updates(c) # {} /\ getPartitionUpdate(c) /\ Goto(c, "op", "disable") /\ UNCHANGED <<req, expect>>
    <2>1. MapsOK' /\ \A x \in Client : x # c => map'[x] = map[x]
      BY <1>0, <1>2, UpdateEffect
    <2>2. pc'[c]["op"] = "disable"
      BY <1>0, <1>2, SomeLabels, GotoEffect, Threads
    <2>3. RequestOK(c)'
      BY <1>0, <1>2, <2>2 DEF RequestOK, Writing, Putting
    <2> QED
      BY <1>0, <1>1, <1>2, <2>1, <2>3, Kept, SomeLabels, GotoStep
  <1>3. CASE NoUpdate(c) /\ Return(c, "any") /\ UNCHANGED <<map, logs>>
    <2>1. MapsOK'
      BY <1>0, <1>3, NoUpdateEffect DEF MapsOK
    <2> QED
      BY <1>0, <1>1, <1>3, <2>1, ReturnStep
  <1> QED
    BY <1>2, <1>3 DEF DisableFails

LEMMA StepLogGone ==
  ASSUME MapInv, NEW c \in Client, LogGone(c)
  PROVE  MapInv'
  <1>0. /\ DrivesOK /\ MapsOK /\ ThreadsOK /\ RequestOK(c) /\ pc[c]["op"] = "putmap" /\ purpose[c]["op"] = "log"
        /\ UNCHANGED drives /\ UNCHANGED maps /\ UNCHANGED <<req, sync, index, at, purpose, keys>>
        /\ Goto(c, "op", "wait")
    BY Kept DEF LogGone, PutDone, PutFails, counters
  <1>1. DrivesOK' /\ MapsOK' /\ stored' = stored /\ dver' = dver /\ map' = map
    BY <1>0 DEF DrivesOK, MapsOK, drives, maps
  <1>2. pc'[c]["op"] = "wait"
    BY <1>0, SomeLabels, GotoEffect, Threads
  <1>3. RequestOK(c)'
    BY <1>0, <1>2 DEF RequestOK, Writing, Putting
  <1> QED
    BY <1>0, <1>1, <1>3, Kept, SomeLabels, GotoStep

-----------------------------------------------------------------------------
(* selfCheck and enableDrive.                                              *)

\* Where the thread is in selfCheck.
InCheck(c) ==
    \/ pc[c]["op"] \in {"check", "retest", "probe", "enable"}
    \/ pc[c]["op"] \in Putting /\ purpose[c]["op"] = "enable"

LEMMA Checks ==
  ASSUME MapInv, NEW c \in Client, InCheck(c)
  PROVE  /\ Writing(c) \/ req[c].op \in {"check", "mount"}
         /\ pc[c]["op"] \notin {"check", "retest"} => index[c]["op"] \in Drive
  <1>1. RequestOK(c) /\ IndexOK(c) /\ req[c] \in Request
    BY Kept
  <1>2. Writing(c) \/ req[c].op \in {"check", "mount"}
    BY <1>1 DEF RequestOK, Request, Operation, Writing, Putting, InCheck
  <1>3. pc[c]["op"] \notin {"check", "retest"} => index[c]["op"] \in Drive
    BY <1>1 DEF IndexOK, InCheck
  <1> QED
    BY <1>2, <1>3

\* selfCheck goes on with the next drive.
LEMMA NextCheckEffect ==
  ASSUME MapInv, NEW c \in Client, NextCheck(c), index[c]["op"] \in Drive
  PROVE  /\ index' \in [Client -> [Thread -> Place]] /\ Goto(c, "op", "check")
         /\ \A x \in Client : x # c => index'[x] = index[x]
  <1>1. index[c]["op"] + 1 \in Place
    BY Constants DEF Drive, Place
  <1> QED
    BY <1>1, Kept, Threads DEF NextCheck

\* It is at another place of the same request.
LEMMA CheckGoes ==
  ASSUME MapInv, NEW c \in Client, NEW l \in {"check", "retest", "probe", "enable"},
         InCheck(c), Goto(c, "op", l),
         DrivesOK', MapsOK', stored' = stored, dver' = dver,
         \A x \in Client : x # c => map'[x] = map[x] /\ index'[x] = index[x],
         map'[c] = map[c] \/ ~Locked(c, "op") \/ pc[c]["op"] \in Putting,
         index' \in [Client -> [Thread -> Place]],
         UNCHANGED <<req, sync, at, purpose, keys>>,
         l \in {"probe", "enable"} => index'[c]["op"] \in Drive
  PROVE  MapInv'
  <1>0. /\ ThreadsOK /\ RequestOK(c) /\ req \in [Client -> Request]
        /\ Writing(c) \/ req[c].op \in {"check", "mount"}
    BY Kept, Checks
  <1>1. l \in Label /\ l \notin Putting
    BY SomeLabels
  <1>2. pc'[c]["op"] = l
    BY <1>0, <1>1, GotoEffect, Threads
  <1>3. RequestOK(c)'
    BY <1>0, <1>1, <1>2 DEF RequestOK, Writing
  <1> QED
    BY <1>0, <1>1, <1>3, GotoStep

LEMMA StepCheck ==
  ASSUME MapInv, NEW c \in Client, Check(c)
  PROVE  MapInv'
  <1>0. /\ TypeInv /\ DrivesOK /\ MapsOK /\ map[c] \in Map /\ index \in [Client -> [Thread -> Place]]
        /\ InCheck(c) /\ UNCHANGED drives /\ UNCHANGED <<at, purpose, keys>>
    BY Kept DEF Check, InCheck, counters
  <1>1. DrivesOK' /\ stored' = stored /\ dver' = dver
    BY <1>0 DEF DrivesOK, drives
  <1>2. CASE /\ Remaining(c) # {} /\ index' = [index EXCEPT ![c]["op"] = Min(Remaining(c))]
             /\ Goto(c, "op", "probe") /\ UNCHANGED <<maps, req, expect, sync>>
    <2>1. Remaining(c) \subseteq Drive
      BY DEF Remaining
    <2>2. Min(Remaining(c)) \in Drive /\ Min(Remaining(c)) \in Place
      BY <1>2, <2>1, MinIn, DrivesAreNat, Constants DEF Drive, Place
    <2>3. MapsOK' /\ map' = map
      BY <1>0, <1>2 DEF MapsOK, maps
    <2>4. /\ index' \in [Client -> [Thread -> Place]] /\ index'[c]["op"] \in Drive
          /\ \A x \in Client : x # c => index'[x] = index[x]
      BY <1>0, <1>2, <2>2, Threads
    <2> QED
      BY <1>0, <1>1, <1>2, <2>3, <2>4, CheckGoes
  <1>3. CASE Connect(c, map[c], Up(map[c])) /\ Return(c, "any") /\ UNCHANGED <<map, logs, index, sync>>
    <2>1. MapsOK'
      BY <1>0, <1>3, ConnectEffect DEF MapsOK
    <2> QED
      BY <1>0, <1>1, <1>3, <2>1, ReturnStep
  <1>4. CASE /\ ~Locked(c, "op") /\ Updates(c) # {} /\ getPartitionUpdate(c)
             /\ Goto(c, "op", "retest") /\ UNCHANGED <<req, index, sync, expect>>
    <2>1. MapsOK' /\ \A x \in Client : x # c => map'[x] = map[x]
      BY <1>0, <1>4, UpdateEffect
    <2> QED
      BY <1>0, <1>1, <1>4, <2>1, CheckGoes
  <1>5. CASE NoUpdate(c) /\ Return(c, "any") /\ UNCHANGED <<map, logs, index, sync>>
    <2>1. MapsOK'
      BY <1>0, <1>5, NoUpdateEffect DEF MapsOK
    <2> QED
      BY <1>0, <1>1, <1>5, <2>1, ReturnStep
  <1>6. CASE Restart(c)
    BY <1>0, <1>6, RestartStep
  <1> QED
    BY <1>2, <1>3, <1>4, <1>5, <1>6 DEF Check

LEMMA StepRetest ==
  ASSUME MapInv, NEW c \in Client, Retest(c)
  PROVE  MapInv'
  <1>0. /\ TypeInv /\ DrivesOK /\ MapsOK /\ map[c] \in Map
        /\ UNCHANGED drives /\ UNCHANGED <<at, purpose, keys>>
    BY Kept DEF Retest, counters
  <1>1. DrivesOK' /\ stored' = stored /\ dver' = dver
    BY <1>0 DEF DrivesOK, drives
  <1>2. CASE /\ Return(c, "any") /\ Connect(c, map[c], Tested(c, map[c]))
             /\ UNCHANGED <<map, logs, index, sync>>
    <2>1. MapsOK'
      BY <1>0, <1>2, ConnectEffect DEF MapsOK
    <2> QED
      BY <1>0, <1>1, <1>2, <2>1, ReturnStep
  <1>3. CASE Restart(c)
    BY <1>0, <1>3, RestartStep
  <1> QED
    BY <1>2, <1>3 DEF Retest

LEMMA StepProbe ==
  ASSUME MapInv, NEW c \in Client, Probe(c)
  PROVE  MapInv'
  <1> DEFINE i == index[c]["op"]
  <1>0. /\ DrivesOK /\ MapsOK /\ index \in [Client -> [Thread -> Place]]
        /\ pc[c]["op"] = "probe" /\ InCheck(c) /\ UNCHANGED drives
        /\ UNCHANGED <<map, logs, req, sync, at, purpose, keys>>
    BY Kept DEF Probe, InCheck, counters
  <1>1. DrivesOK' /\ stored' = stored /\ dver' = dver
    BY <1>0 DEF DrivesOK, drives
  <1>2. i \in Drive
    BY <1>0, Checks
  <1>3. CASE cver' = [cver EXCEPT ![c][i] = dver[i]] /\ Goto(c, "op", "enable") /\ UNCHANGED index
    <2>1. MapsOK'
      BY <1>0, <1>2, <1>3 DEF MapsOK, DrivesOK
    <2> QED
      BY <1>0, <1>1, <1>2, <1>3, <2>1, CheckGoes
  <1>4. ASSUME NextCheck(c), MapsOK' PROVE MapInv'
    BY <1>0, <1>1, <1>2, <1>4, NextCheckEffect, CheckGoes
  <1>5. CASE NextCheck(c) /\ UNCHANGED cver
    <2>1. MapsOK'
      BY <1>0, <1>5 DEF MapsOK
    <2> QED
      BY <1>4, <1>5, <2>1
  <1>6. ASSUME NextCheck(c), NEW v \in 0 .. dver[i], cver' = [cver EXCEPT ![c][i] = v]
        PROVE  MapInv'
    <2>1. v \in Version
      BY <1>0, <1>2, Constants DEF DrivesOK, Version
    <2>2. MapsOK'
      BY <1>0, <1>2, <1>6, <2>1 DEF MapsOK
    <2> QED
      BY <1>4, <1>6, <2>2
  <1> QED
    BY <1>3, <1>5, <1>6 DEF Probe

\* A map with another version, and another status of a drive.
LEMMA MapType ==
  ASSUME NEW m \in Map, NEW v \in Version, NEW d, NEW s \in Status
  PROVE  /\ [m EXCEPT !.version = v, !.status[d] = s] \in Map
         /\ [m EXCEPT !.version = v, !.status[d] = s].version = v
  <1> DEFINE st == [m.status EXCEPT ![d] = s]
             n == [m EXCEPT !.version = v]
  <1>1. st \in [Drive -> Status]
    BY DEF Map
  <1>2. n \in Map /\ n.version = v /\ n.status = m.status
    BY DEF Map, Version
  <1>3. [m EXCEPT !.version = v, !.status[d] = s] = [n EXCEPT !.status = st]
    BY <1>2
  <1> HIDE DEF st, n
  <1> QED
    BY <1>1, <1>2, <1>3 DEF Map

LEMMA StepEnable ==
  ASSUME MapInv, NEW c \in Client, Enable(c)
  PROVE  MapInv'
  <1> DEFINE i == index[c]["op"]
             n == [map[c] EXCEPT !.version = @ + 1, !.status[i] = "YELLOW"]
  <1>0. /\ TypeInv /\ DrivesOK /\ MapsOK /\ map[c] \in Map /\ index \in [Client -> [Thread -> Place]]
        /\ pc[c]["op"] = "enable" /\ InCheck(c) /\ ~Locked(c, "op") /\ map[c].version < MaxVersion
        /\ UNCHANGED drives /\ UNCHANGED <<logs, req, sync, keys>>
    BY Kept DEF Enable, InCheck, counters
  <1>1. DrivesOK' /\ stored' = stored /\ dver' = dver
    BY <1>0 DEF DrivesOK, drives
  <1>2. i \in Drive /\ (Writing(c) \/ req[c].op \in {"check", "mount"})
    BY <1>0, Checks
  <1>3. n \in Map /\ n.version >= 1
    <2>1. map[c].version + 1 \in Version /\ map[c].version + 1 >= 1 /\ "YELLOW" \in Status
      BY <1>0, Constants DEF Map, Version, Status
    <2>2. n = [map[c] EXCEPT !.version = map[c].version + 1, !.status[i] = "YELLOW"]
      OBVIOUS
    <2> HIDE DEF n
    <2> QED
      BY <1>0, <2>1, <2>2, MapType
  <1>4. /\ Connect(c, n, Tested(c, n))
        /\ \/ map' = [map EXCEPT ![c] = n] /\ PutPartitionUpdate(c, "op", "enable") /\ UNCHANGED index
           \/ NextCheck(c) /\ UNCHANGED <<map, at, purpose>>
    BY DEF Enable
  <1> HIDE DEF n
  <1>5. cver' \in [Client -> [Drive -> Version \cup {NoConnection}]]
    BY <1>0, <1>3, <1>4, ConnectEffect
  <1>6. CASE map' = [map EXCEPT ![c] = n] /\ PutPartitionUpdate(c, "op", "enable") /\ UNCHANGED index
    <2>1. map' \in [Client -> Map] /\ map'[c] = n /\ \A x \in Client : x # c => map'[x] = map[x]
      BY <1>0, <1>3, <1>6, NewMap
    <2>2. MapsOK'
      BY <1>0, <1>5, <2>1 DEF MapsOK
    <2>3. MayPut(c, "enable")
      BY <1>2 DEF MayPut
    <2>4. map'[c].version >= 1
      BY <1>3, <2>1
    <2> QED
      BY <1>0, <1>1, <1>6, <2>1, <2>2, <2>3, <2>4, PutStep, Threads
  <1>7. CASE NextCheck(c) /\ UNCHANGED <<map, at, purpose>>
    <2>1. MapsOK'
      BY <1>0, <1>5, <1>7 DEF MapsOK
    <2> QED
      BY <1>0, <1>1, <1>2, <1>7, <2>1, NextCheckEffect, CheckGoes
  <1> QED
    BY <1>4, <1>6, <1>7

LEMMA StepEnabled ==
  ASSUME MapInv, NEW c \in Client, Enabled(c)
  PROVE  MapInv'
  <1> DEFINE i == index[c]["op"]
  <1>0. /\ TypeInv /\ DrivesOK /\ MapsOK /\ ThreadsOK /\ RequestOK(c)
        /\ pc[c]["op"] = "putmap" /\ InCheck(c) /\ UNCHANGED drives /\ UNCHANGED maps
        /\ UNCHANGED <<req, sync, at, purpose, keys>>
        /\ pc' = [pc EXCEPT ![c]["op"] = "check", ![c]["sync"] = "start"]
        /\ index' = [index EXCEPT ![c]["sync"] = i, ![c]["op"] = @ + 1]
    BY Kept DEF Enabled, PutDone, InCheck, Putting, counters
  <1>1. DrivesOK' /\ MapsOK' /\ stored' = stored /\ dver' = dver /\ map' = map
    BY <1>0 DEF DrivesOK, MapsOK, drives, maps
  <1>2. i \in Drive /\ (Writing(c) \/ req[c].op \in {"check", "mount"})
    BY <1>0, Checks
  <1>3. i \in Place /\ i + 1 \in Place
    BY <1>2, Constants DEF Drive, Place
  <1>4. "check" \in Label /\ "start" \in Label /\ "check" \notin Putting
    BY SomeLabels
  <1>5. /\ pc' \in [Client -> [Thread -> Label]] /\ pc'[c]["op"] = "check" /\ pc'[c]["sync"] = "start"
        /\ \A x \in Client : x # c => pc'[x] = pc[x]
    BY <1>0, <1>4, Threads DEF ThreadsOK
  <1>6. index' \in [Client -> [Thread -> Place]] /\ \A x \in Client : x # c => index'[x] = index[x]
    BY <1>0, <1>3, Threads DEF ThreadsOK
  <1>7. TypeInv' /\ Others(c)
    BY <1>0, <1>1, <1>5, <1>6 DEF TypeInv, ThreadsOK, Others
  <1>8. RequestOK(c)' /\ IndexOK(c)'
    BY <1>0, <1>2, <1>4, <1>5 DEF RequestOK, IndexOK, Writing
  <1> QED
    BY <1>0, <1>1, <1>4, <1>5, <1>7, <1>8, OpStep

LEMMA StepEnableFails ==
  ASSUME MapInv, NEW c \in Client, EnableFails(c)
  PROVE  MapInv'
  <1> DEFINE i == index[c]["op"]
  <1>0. /\ TypeInv /\ DrivesOK /\ MapsOK /\ PutOK(c) /\ map[c] \in Map
        /\ index \in [Client -> [Thread -> Place]]
        /\ pc[c]["op"] = "putmap" /\ InCheck(c) /\ UNCHANGED drives
        /\ UNCHANGED <<req, sync, at, purpose, keys>>
    BY Kept DEF EnableFails, PutFails, InCheck, Putting, counters
  <1>1. DrivesOK' /\ stored' = stored /\ dver' = dver /\ pc[c]["op"] \in Putting
    BY <1>0 DEF DrivesOK, drives, Putting
  <1>2. i \in Drive
    BY <1>0, Checks
  <1>3. CASE Updates(c) # {} /\ getPartitionUpdate(c) /\ Goto(c, "op", "probe") /\ UNCHANGED index
    <2>1. MapsOK' /\ \A x \in Client : x # c => map'[x] = map[x]
      BY <1>0, <1>3, UpdateEffect
    <2> QED
      BY <1>0, <1>1, <1>2, <1>3, <2>1, CheckGoes
  <1>4. CASE /\ NoUpdate(c) /\ UNCHANGED logs /\ NextCheck(c)
             /\ map' = [map EXCEPT ![c].status[i] = "RED", ![c].version = @ - 1]
    <2> DEFINE n == [map[c] EXCEPT !.version = map[c].version - 1, !.status[i] = "RED"]
    <2>1. map' = [map EXCEPT ![c] = n]
      BY <1>0, <1>4 DEF MapsOK
    <2>2. n \in Map
      <3>1. map[c].version - 1 \in Version /\ "RED" \in Status
        BY <1>0, <1>1, Constants, Threads DEF PutOK, Map, Version, Status
      <3> QED
        BY <1>0, <3>1, MapType
    <2> HIDE DEF n
    <2>3. map' \in [Client -> Map] /\ \A x \in Client : x # c => map'[x] = map[x]
      BY <1>0, <2>1, <2>2, NewMap
    <2>4. MapsOK'
      BY <1>0, <1>4, <2>3, NoUpdateEffect DEF MapsOK
    <2> QED
      BY <1>0, <1>1, <1>2, <1>4, <2>3, <2>4, NextCheckEffect, CheckGoes
  <1> QED
    BY <1>3, <1>4 DEF EnableFails

-----------------------------------------------------------------------------
(* putPartitionUpdate.                                                     *)

\* One step of it leaves the request and the map alone; the other thread has
\* to wait.
LEMMA PuttingStep ==
  ASSUME MapInv, NEW c \in Client, NEW t \in Thread, NEW l \in Putting, NEW p \in Place,
         pc[c][t] \in Putting, Goto(c, t, l), at' = [at EXCEPT ![c][t] = p],
         UNCHANGED <<map, logs, req, sync, index, purpose, keys>>,
         DrivesOK', cver' \in [Client -> [Drive -> Version \cup {NoConnection}]],
         Grows, \A d \in Drive : MapsOfDrive(d)',
         l = "setversion" => p \in Drive /\ map[c] \in stored'[p]
  PROVE  MapInv'
  <1>0. /\ TypeInv /\ MapsOK /\ ThreadsOK /\ RequestOK(c) /\ IndexOK(c) /\ PutOK(c)
    BY Kept
  <1>1. l \in Label
    BY KnownLabels DEF Labels
  <1>2. /\ pc' \in [Client -> [Thread -> Label]] /\ pc'[c][t] = l
        /\ \A u \in Thread : u # t => pc'[c][u] = pc[c][u]
        /\ \A x \in Client : x # c => pc'[x] = pc[x]
    BY <1>0, <1>1, GotoEffect
  <1>3. /\ at' \in [Client -> [Thread -> Place]] /\ at'[c][t] = p
        /\ \A x \in Client : x # c => at'[x] = at[x]
    BY <1>0 DEF ThreadsOK
  <1>4. TypeInv'
    BY <1>0, <1>2, <1>3 DEF TypeInv, MapsOK, ThreadsOK
  <1>5. Others(c)
    BY <1>2, <1>3 DEF Others
  <1>6. \A u \in Thread : u # t => pc'[c][u] \notin Putting
    <2>1. ASSUME NEW u \in Thread, u # t, pc[c][u] \in Putting
          PROVE  FALSE
      <3>1. Locked(c, t) /\ pc[c][t] \in Putting
        BY <2>1 DEF Locked, Putting
      <3> QED
        BY <1>0, <3>1 DEF PutOK
    <2> QED
      BY <1>2, <2>1
  <1>7. PutOK(c)'
    BY <1>0, <1>2, <1>3, <1>6 DEF PutOK, Locked, Putting
  <1>8. RequestOK(c)' /\ IndexOK(c)'
    <2>1. CASE t = "op"
      <3>1. pc'[c]["op"] \in Putting /\ pc[c]["op"] \in Putting
        BY <1>2, <2>1
      <3> QED
        BY <1>0, <3>1 DEF RequestOK, IndexOK, Writing, Putting
    <2>2. CASE t # "op"
      <3>1. pc'[c]["op"] = pc[c]["op"]
        BY <1>2, <2>2, Threads
      <3> QED
        BY <1>0, <3>1 DEF RequestOK, IndexOK, Writing
    <2> QED
      BY <2>1, <2>2
  <1> QED
    BY <1>4, <1>5, <1>7, <1>8, StepOK DEF LocalOK

LEMMA StepPutMap ==
  ASSUME MapInv, NEW c \in Client, NEW t \in Thread, PutMap(c, t)
  PROVE  MapInv'
  <1> DEFINE i == Min(Rest(c, t))
  <1>0. /\ TypeInv /\ DrivesOK /\ map[c] \in Map /\ pc[c][t] \in Putting
        /\ Rest(c, t) # {} /\ Stores(c, i)
        /\ stored' = [stored EXCEPT ![i] = @ \cup {map[c]}] /\ at' = [at EXCEPT ![c][t] = i]
        /\ Goto(c, t, "setversion") /\ Connect(c, map[c], {i})
        /\ UNCHANGED <<data, dver, logged, map, logs, req, sync, index, purpose, keys>>
    BY Kept DEF PutMap, Putting, counters
  <1>1. i \in Drive /\ i \in Place
    <2>1. Rest(c, t) \subseteq Drive
      BY DEF Rest, Up
    <2>2. i \in Drive
      BY <1>0, <2>1, MinIn, DrivesAreNat
    <2> QED
      BY <2>2, Constants DEF Drive, Place
  <1> HIDE DEF i
  <1>2. DrivesOK' /\ Grows
    BY <1>0, <1>1 DEF DrivesOK, Grows
  <1>3. cver' \in [Client -> [Drive -> Version \cup {NoConnection}]]
    BY <1>0, ConnectEffect
  <1>4. ASSUME NEW d \in Drive
        PROVE  MapsOfDrive(d)'
    <2>0. MapsOfDrive(d)
      BY DEF MapInv
    <2>1. CASE d = i
      <3>1. stored'[d] = stored[d] \cup {map[c]} /\ dver'[d] = dver[d]
        BY <1>0, <1>1, <2>1 DEF DrivesOK
      <3>2. \A m \in stored[d] : m.version # map[c].version
        BY <1>0, <2>1 DEF Stores
      <3> QED
        BY <2>0, <3>1, <3>2 DEF MapsOfDrive
    <2>2. CASE d # i
      BY <1>0, <2>0, <2>2 DEF MapsOfDrive, DrivesOK
    <2> QED
      BY <2>1, <2>2
  <1>5. map[c] \in stored'[i] /\ "setversion" \in Putting
    BY <1>0, <1>1 DEF DrivesOK, Putting
  <1> QED
    BY <1>0, <1>1, <1>2, <1>3, <1>4, <1>5, PuttingStep

LEMMA StepSetVersion ==
  ASSUME MapInv, NEW c \in Client, NEW t \in Thread, SetVersion(c, t)
  PROVE  MapInv'
  <1> DEFINE i == at[c][t]
  <1>0. /\ TypeInv /\ DrivesOK /\ MapsOK /\ map[c] \in Map /\ PutOK(c)
        /\ pc[c][t] = "setversion" /\ pc[c][t] \in Putting
        /\ dver' = [dver EXCEPT ![i] = map[c].version] \/ dver' = dver
        /\ cver' = [cver EXCEPT ![c][i] = map[c].version]
        /\ at' = [at EXCEPT ![c][t] = i + 1] /\ Goto(c, t, "putmap")
        /\ UNCHANGED <<data, stored, logged, map, logs, req, sync, index, purpose, keys>>
    BY Kept DEF SetVersion, Putting, counters
  <1>1. i \in Drive /\ map[c] \in stored[i] /\ map[c].version \in Version
    BY <1>0 DEF PutOK, Map, Version
  <1>2. i + 1 \in Place
    BY <1>1, Constants DEF Drive, Place
  <1> HIDE DEF i
  <1>3. DrivesOK' /\ Grows
    BY <1>0, <1>1 DEF DrivesOK, Grows
  <1>4. cver' \in [Client -> [Drive -> Version \cup {NoConnection}]]
    BY <1>0, <1>1 DEF MapsOK
  <1>5. ASSUME NEW d \in Drive
        PROVE  MapsOfDrive(d)'
    <2>0. MapsOfDrive(d)
      BY DEF MapInv
    <2>1. dver'[d] = dver[d] \/ (d = i /\ dver'[d] = map[c].version)
      BY <1>0 DEF DrivesOK
    <2> QED
      BY <1>0, <1>1, <2>0, <2>1 DEF MapsOfDrive
  <1>6. "putmap" \in Putting /\ "putmap" # "setversion"
    BY DEF Putting
  <1> QED
    BY <1>0, <1>2, <1>3, <1>4, <1>5, <1>6, PuttingStep

-----------------------------------------------------------------------------
(* synchronizeDrive.                                                       *)

\* A step of the thread that synchronizes in which it does not put a map.
LEMMA SyncStep ==
  ASSUME MapInv, NEW c \in Client, TypeInv', Others(c), stored' = stored, dver' = dver,
         pc'[c]["op"] = pc[c]["op"], pc'[c]["sync"] \notin Putting,
         UNCHANGED <<req, index, at, purpose>>,
         map'[c] = map[c] \/ pc[c]["sync"] \in Putting
  PROVE  MapInv'
  <1>0. RequestOK(c) /\ IndexOK(c) /\ PutOK(c)
    BY Kept
  <1>1. ASSUME NEW t \in Thread, pc'[c][t] \in Putting
        PROVE  pc'[c][t] = pc[c][t] /\ at'[c][t] = at[c][t] /\ map'[c] = map[c]
    <2>1. t = "op" /\ pc[c]["op"] \in Putting
      BY <1>1, Threads
    <2>2. Locked(c, "sync")
      BY <2>1, Threads DEF Locked, Putting
    <2>3. pc[c]["sync"] \notin Putting
      BY <1>0, <2>2, Threads DEF PutOK
    <2> QED
      BY <2>1, <2>3
  <1>2. Grows
    BY DEF Grows
  <1>3. PutOK(c)'
    BY <1>0, <1>1, <1>2, PutKept
  <1>4. RequestOK(c)' /\ IndexOK(c)'
    BY <1>0 DEF RequestOK, IndexOK, Writing
  <1> QED
    BY <1>3, <1>4, QuietStep DEF LocalOK

\* It goes to l with the state s.
LEMMA SyncGoes ==
  ASSUME MapInv, NEW c \in Client, NEW l \in {"idle", "sync"}, NEW s \in SyncState,
         Goto(c, "sync", l), sync' = [sync EXCEPT ![c] = s],
         DrivesOK', MapsOK', stored' = stored, dver' = dver,
         \A x \in Client : x # c => map'[x] = map[x],
         UNCHANGED <<req, index, at, purpose, keys>>,
         map'[c] = map[c] \/ pc[c]["sync"] \in Putting
  PROVE  MapInv'
  <1>0. TypeInv /\ ThreadsOK /\ l \in Label /\ l \notin Putting
    BY Kept, SomeLabels
  <1>1. /\ pc' \in [Client -> [Thread -> Label]]
        /\ pc'[c]["sync"] = l /\ pc'[c]["op"] = pc[c]["op"]
        /\ \A x \in Client : x # c => pc'[x] = pc[x]
    BY <1>0, GotoEffect, Threads
  <1>2. sync' \in [Client -> SyncState]
    BY <1>0 DEF ThreadsOK
  <1>3. TypeInv'
    BY <1>0, <1>1, <1>2 DEF TypeInv, ThreadsOK
  <1>4. Others(c)
    BY <1>1 DEF Others
  <1> QED
    BY <1>0, <1>1, <1>3, <1>4, SyncStep

LEMMA NoSyncType == NoSync \in SyncState
  BY DEF NoSync, SyncState

LEMMA StepSyncKeys ==
  ASSUME MapInv, NEW c \in Client, SyncKeys(c)
  PROVE  MapInv'
  <1> DEFINE m == map[c]
  <1>0. /\ DrivesOK /\ MapsOK /\ m \in Map /\ UNCHANGED drives /\ UNCHANGED maps
        /\ UNCHANGED <<req, index, at, purpose, keys>>
    BY Kept DEF SyncKeys, counters
  <1>1. DrivesOK' /\ MapsOK' /\ stored' = stored /\ dver' = dver /\ map' = map
    BY <1>0 DEF DrivesOK, MapsOK, drives, maps
  <1>2. ASSUME NEW ks \in IF m.log # None THEN {logged[m.log]}
                          ELSE {{k \in Key : data[d][k] # 0} : d \in Green(m)},
               sync' = [sync EXCEPT ![c] = [keys |-> ks, record |-> 0, all |-> Up(m) = Drive]],
               Goto(c, "sync", "sync")
        PROVE  MapInv'
    <2> DEFINE s == [keys |-> ks, record |-> 0, all |-> Up(m) = Drive]
    <2>1. ks \subseteq Key
      <3>1. CASE m.log # None
        BY <1>0, <1>2, <3>1 DEF Map, DrivesOK
      <3>2. CASE m.log = None
        BY <1>2, <3>2
      <3> QED
        BY <3>1, <3>2
    <2>2. (Up(m) = Drive) \in BOOLEAN
      OBVIOUS
    <2>3. s \in SyncState
      BY <2>1, <2>2 DEF SyncState
    <2> HIDE DEF s
    <2> QED
      BY <1>0, <1>1, <1>2, <2>3, SyncGoes DEF s
  <1>3. CASE EndSync(c)
    BY <1>0, <1>1, <1>3, NoSyncType, SyncGoes DEF EndSync
  <1> QED
    BY <1>2, <1>3 DEF SyncKeys

LEMMA StepSyncKey ==
  ASSUME MapInv, NEW c \in Client, SyncKey(c)
  PROVE  MapInv'
  <1> DEFINE m == map[c]
             k == Min(sync[c].keys)
             found == data[Reference(c)][k]
             r == IF found # 0 THEN found ELSE sync[c].record
  <1>0. /\ TypeInv /\ DrivesOK /\ MapsOK /\ ThreadsOK /\ m \in Map
    BY Kept
  <1>1. /\ pc[c]["sync"] = "sync" /\ sync[c].keys # {} /\ Green(m) # {}
        /\ readRepair(c, k, r) \/ UNCHANGED data
        /\ \/ /\ sync' = [sync EXCEPT ![c].keys = @ \ {k}, ![c].record = r]
              /\ logged' = (IF m.log # None /\ sync[c].all
                            THEN [logged EXCEPT ![m.log] = @ \ {k}] ELSE logged)
              /\ UNCHANGED pc
           \/ EndSync(c) /\ UNCHANGED logged
        /\ UNCHANGED <<dver, stored, cut, maps, req, index, at, purpose, expect, counters>>
    BY Zenon DEF SyncKey
  <1>2. sync[c] \in SyncState /\ sync[c].keys \subseteq Key
    BY <1>0 DEF ThreadsOK, SyncState
  <1>3. k \in Key /\ r \in Key \cup {0}
    <2>1. k \in sync[c].keys
      BY <1>1, <1>2, MinIn, DrivesAreNat
    <2>2. k \in Key
      BY <1>2, <2>1
    <2> HIDE DEF k
    <2>3. Reference(c) \in Drive
      BY <1>1, ReferenceIsDrive
    <2>4. found \in Key \cup {0}
      BY <1>0, <2>2, <2>3 DEF DrivesOK
    <2> QED
      BY <1>2, <2>2, <2>4 DEF SyncState
  <1> HIDE DEF k, r
  <1>4. data' \in [Drive -> [Key -> Key \cup {0}]]
    <2>1. CASE readRepair(c, k, r)
      BY <1>0, <1>3, <2>1, RepairType
    <2>2. CASE UNCHANGED data
      BY <1>0, <2>2 DEF DrivesOK
    <2> QED
      BY <1>1, <2>1, <2>2
  <1>5. /\ MapsOK' /\ map' = map /\ stored' = stored /\ dver' = dver
        /\ UNCHANGED <<req, index, at, purpose, keys>>
    BY <1>0, <1>1 DEF MapsOK, maps, counters
  <1>6. logged' \in [Log -> SUBSET Key]
    BY <1>0, <1>1 DEF DrivesOK
  <1>7. DrivesOK'
    BY <1>0, <1>4, <1>5, <1>6 DEF DrivesOK
  <1>8. CASE sync' = [sync EXCEPT ![c].keys = @ \ {k}, ![c].record = r] /\ UNCHANGED pc
    <2> DEFINE s == [sync[c] EXCEPT !.keys = @ \ {k}]
               z == [s EXCEPT !.record = r]
    <2>1. sync' = [sync EXCEPT ![c] = z]
      BY <1>0, <1>8 DEF ThreadsOK
    <2>2. s \in SyncState
      BY <1>2 DEF SyncState
    <2> HIDE DEF s
    <2>3. z \in SyncState
      BY <1>3, <2>2 DEF SyncState
    <2> HIDE DEF z
    <2>4. sync' \in [Client -> SyncState]
      BY <1>0, <2>1, <2>3 DEF ThreadsOK
    <2>5. TypeInv'
      BY <1>0, <1>5, <1>7, <1>8, <2>4 DEF TypeInv, ThreadsOK
    <2>6. Others(c) /\ pc'[c]["sync"] \notin Putting
      BY <1>1, <1>5, <1>8 DEF Others, Putting
    <2> QED
      BY <1>5, <1>8, <2>5, <2>6, SyncStep
  <1>9. CASE EndSync(c)
    BY <1>5, <1>7, <1>9, NoSyncType, SyncGoes DEF EndSync
  <1> QED
    BY <1>1, <1>8, <1>9

LEMMA StepSyncGreen ==
  ASSUME MapInv, NEW c \in Client, SyncGreen(c)
  PROVE  MapInv'
  <1> DEFINE m == map[c]
             i == index[c]["sync"]
             n == [m EXCEPT !.version = @ + 1, !.status[i] = "GREEN"]
             o == IF Green(n) = Drive THEN [n EXCEPT !.log = None] ELSE n
  <1>0. /\ TypeInv /\ DrivesOK /\ MapsOK /\ m \in Map
        /\ ~Locked(c, "sync") /\ m.version < MaxVersion /\ map' = [map EXCEPT ![c] = o]
        /\ PutPartitionUpdate(c, "sync", "green")
        /\ UNCHANGED drives /\ UNCHANGED <<logs, cver, req, sync, index, keys>>
    BY Kept DEF SyncGreen, counters
  <1>1. DrivesOK' /\ stored' = stored /\ dver' = dver
    BY <1>0 DEF DrivesOK, drives
  <1>2. n \in Map /\ n.version >= 1
    <2>1. m.version + 1 \in Version /\ m.version + 1 >= 1 /\ "GREEN" \in Status
      BY <1>0, Constants DEF Map, Version, Status
    <2>2. n = [m EXCEPT !.version = m.version + 1, !.status[i] = "GREEN"]
      OBVIOUS
    <2> HIDE DEF n
    <2> QED
      BY <1>0, <2>1, <2>2, MapType
  <1> HIDE DEF n
  <1>3. o \in Map /\ o.version >= 1
    BY <1>2 DEF Map
  <1> HIDE DEF o
  <1>4. map' \in [Client -> Map] /\ map'[c] = o /\ \A x \in Client : x # c => map'[x] = map[x]
    BY <1>0, <1>3, NewMap
  <1>5. MapsOK' /\ map'[c].version >= 1
    BY <1>0, <1>3, <1>4 DEF MapsOK
  <1> QED
    BY <1>0, <1>1, <1>4, <1>5, PutStep, Threads

LEMMA StepSynchronized ==
  ASSUME MapInv, NEW c \in Client, Synchronized(c)
  PROVE  MapInv'
  <1> DEFINE i == index[c]["sync"]
  <1>0. /\ TypeInv /\ DrivesOK /\ MapsOK /\ PutOK(c) /\ map[c] \in Map
        /\ pc[c]["sync"] = "putmap" /\ EndSync(c) /\ UNCHANGED drives
        /\ UNCHANGED <<logs, cver, req, index, at, purpose, keys>>
    BY Kept DEF Synchronized, PutDone, PutFails, counters
  <1>1. DrivesOK' /\ stored' = stored /\ dver' = dver /\ pc[c]["sync"] \in Putting
    BY <1>0 DEF DrivesOK, drives, Putting
  <1>2. MapsOK' /\ \A x \in Client : x # c => map'[x] = map[x]
    <2>1. CASE UNCHANGED map
      BY <1>0, <2>1 DEF MapsOK
    <2>2. CASE map' = [map EXCEPT ![c].status[i] = "YELLOW", ![c].version = @ - 1]
      <3> DEFINE n == [map[c] EXCEPT !.version = map[c].version - 1, !.status[i] = "YELLOW"]
      <3>1. map' = [map EXCEPT ![c] = n]
        BY <1>0, <2>2 DEF MapsOK
      <3>2. map[c].version - 1 \in Version /\ "YELLOW" \in Status
        BY <1>0, <1>1, Constants, Threads DEF PutOK, Map, Version, Status
      <3>3. n \in Map
        BY <1>0, <3>2, MapType
      <3> HIDE DEF n
      <3> QED
        BY <1>0, <3>1, <3>3, NewMap DEF MapsOK
    <2> QED
      BY <2>1, <2>2 DEF Synchronized
  <1> QED
    BY <1>0, <1>1, <1>2, NoSyncType, SyncGoes DEF EndSync

-----------------------------------------------------------------------------
(* The theorems.                                                           *)

\* A drive fails or comes back: nothing that the invariant is about changes.
LEMMA Idle ==
  ASSUME MapInv, UNCHANGED <<drives, maps, threads, keys>>
  PROVE  MapInv'
  <1>1. UNCHANGED <<data, dver, stored, logged, map, logs, cver, pc, req, sync, index, at, purpose, keys>>
    BY DEF drives, maps, threads
  <1>2. TypeInv'
    BY <1>1 DEF MapInv, TypeInv, DrivesOK, MapsOK, ThreadsOK
  <1>3. ASSUME NEW c \in Client
        PROVE  LocalOK(c)'
    <2>1. LocalOK(c)
      BY DEF MapInv
    <2> QED
      BY <1>1, <2>1 DEF LocalOK, RequestOK, IndexOK, PutOK, Locked, Writing
  <1>4. \A d \in Drive : MapsOfDrive(d)'
    BY <1>1 DEF MapInv, MapsOfDrive
  <1> QED
    BY <1>2, <1>3, <1>4 DEF MapInv

LEMMA StepEnvironment ==
  ASSUME MapInv, NEW d, Heal(d) \/ \E cs \in SUBSET Client \ {{}} : Fail(cs, d)
  PROVE  MapInv'
  <1>1. UNCHANGED <<drives, maps, threads, expect, keys, crashes, checks>>
        \/ UNCHANGED <<drives, maps, threads, expect, counters>>
    BY Zenon DEF Heal, Fail
  <1>2. UNCHANGED <<drives, maps, threads, keys>>
    BY <1>1 DEF counters
  <1> QED
    BY <1>2, Idle

LEMMA InvInit ==
  ASSUME Init
  PROVE  MapInv
  <1>1. Configured \in Map
    BY Constants DEF Configured, Map, Status
  <1>2. DrivesOK
    BY Constants DEF Init, DrivesOK, Version
  <1>3. MapsOK
    BY <1>1, Constants DEF Init, MapsOK, Version
  <1>4. ThreadsOK
    <2>1. "idle" \in Label
      BY SomeLabels
    <2>2. NoRequest \in Request
      BY Constants DEF NoRequest, NoResults, Request, Operation, Answers
    <2>3. 1 \in Place /\ 0 \in 0 .. MaxKeys
      BY Constants DEF Place
    <2> QED
      BY <2>1, <2>2, <2>3, NoSyncType DEF Init, ThreadsOK
  <1>5. ASSUME NEW c \in Client
        PROVE  LocalOK(c)
    <2>1. (\A t \in Thread : pc[c][t] = "idle") /\ req[c].op = "none"
      BY DEF Init, NoRequest
    <2> QED
      BY <2>1, Threads DEF LocalOK, RequestOK, IndexOK, PutOK, Locked, Writing, Putting
  <1>6. \A d \in Drive : MapsOfDrive(d)
    BY DEF Init, MapsOfDrive
  <1> QED
    BY <1>2, <1>3, <1>4, <1>5, <1>6 DEF MapInv, TypeInv

LEMMA InvNext ==
  ASSUME MapInv, [Next]_vars
  PROVE  MapInv'
  <1>1. ASSUME NEW c \in Client,
               \/ BeginPut(c) \/ (\E k \in Key : BeginDelete(c, k)) \/ BeginRead(c) \/ BeginCheck(c)
               \/ \E d \in Drive : Send(c, d) \/ SendNull(c, d) \/ Read(c, d)
               \/ LogKey(c) \/ Repeat(c) \/ Evaluate(c) \/ NoGreen(c) \/ Repair(c)
        PROVE  MapInv'
    BY <1>1, StepBeginPut, StepBeginDelete, StepBeginRead, StepBeginCheck, StepSend, StepRestart, StepRead,
       StepLogKey, StepRepeat, StepEvaluate, StepRepair, Zenon
  <1>2. ASSUME NEW c \in Client,
               \/ Disable(c) \/ Disabled(c) \/ DisableFails(c) \/ LogGone(c)
               \/ Check(c) \/ Retest(c) \/ Probe(c) \/ Enable(c) \/ Enabled(c) \/ EnableFails(c)
        PROVE  MapInv'
    BY <1>2, StepDisable, StepDisabled, StepDisableFails, StepLogGone, StepCheck, StepRetest, StepProbe,
       StepEnable, StepEnabled, StepEnableFails, Zenon
  <1>3. ASSUME NEW c \in Client,
               \/ \E t \in Thread : PutMap(c, t) \/ SetVersion(c, t)
               \/ SyncKeys(c) \/ SyncKey(c) \/ SyncGreen(c) \/ Synchronized(c)
               \/ Crash(c)
        PROVE  MapInv'
    BY <1>3, StepPutMap, StepSetVersion, StepSyncKeys, StepSyncKey, StepSyncGreen, StepSynchronized,
       StepRestart, Zenon
  <1>4. ASSUME NEW d \in Drive \cup Log, Heal(d) \/ \E cs \in SUBSET Client \ {{}} : Fail(cs, d)
        PROVE  MapInv'
    BY <1>4, StepEnvironment, Zenon
  <1>5. CASE UNCHANGED vars
    BY <1>5, Idle DEF vars, counters
  <1> QED
    BY <1>1, <1>2, <1>3, <1>4, <1>5, Zenon DEF Next

\* The invariant holds whatever fails (all of disableDrive, enableDrive,
\* synchronizeDrive, getPartitionUpdate and putPartitionUpdate preserve it).
THEOREM Invariance == Spec => []MapInv
  <1>1. Init => MapInv
    BY InvInit
  <1>2. MapInv /\ [Next]_vars => MapInv'
    BY InvNext
  <1> QED
    BY <1>1, <1>2, PTL DEF Spec

\* Whatever fails, for any number of clients and drives: no cluster version is
\* counted below 0 when a failed putPartitionUpdate is taken back (enableDrive,
\* synchronizeDrive), and no index runs past the drives.
THEOREM Typing == Spec => []TypeOK
  <1>1. MapInv => TypeOK
    <2>1. ASSUME MapInv
          PROVE  TypeOK
      <3>1. DrivesOK /\ MapsOK /\ ThreadsOK
        BY <2>1 DEF MapInv, TypeInv
      <3> QED
        BY <3>1 DEF TypeOK, DrivesOK, MapsOK, ThreadsOK, Version, Place
    <2> QED
      BY <2>1
  <1> QED
    BY <1>1, Invariance, PTL

\* failure_lock: the threads of a client never put a map at the same time, so
\* that the map of one that does is not changed under it.
OneThreadPuts ==
    \A c \in Client : \A t, u \in Thread :
        pc[c][t] \in {"putmap", "setversion"} /\ pc[c][u] \in {"putmap", "setversion"} => t = u

\* What getPartitionUpdate relies on, whatever fails: a drive whose cluster
\* version putPartitionUpdate has set has stored one map of that version, and
\* no other.
DrivesHaveMaps ==
    \A d \in Drive : dver[d] # 0 =>
        \E m \in stored[d] : m.version = dver[d] /\ \A n \in stored[d] : n.version = dver[d] => n = m

\* The two at any time, for any number of clients and drives.
THEOREM DrivesHaveMapsCorrect == Spec => [](OneThreadPuts /\ DrivesHaveMaps)
  <1>1. MapInv => OneThreadPuts
    <2>1. ASSUME MapInv, NEW c \in Client, NEW t \in Thread, NEW u \in Thread,
                 pc[c][t] \in {"putmap", "setversion"}, pc[c][u] \in {"putmap", "setversion"}, t # u
          PROVE  FALSE
      <3>1. PutOK(c)
        BY <2>1, Kept
      <3>2. Locked(c, t) /\ pc[c][t] \in Putting
        BY <2>1 DEF Locked, Putting
      <3> QED
        BY <3>1, <3>2 DEF PutOK
    <2> QED
      BY <2>1, Zenon DEF OneThreadPuts
  <1>2. MapInv => DrivesHaveMaps
    BY DEF MapInv, MapsOfDrive, DrivesHaveMaps
  <1> QED
    BY <1>1, <1>2, Invariance, PTL

=============================================================================
