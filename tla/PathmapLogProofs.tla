-------------------------- MODULE PathmapLogProofs --------------------------
(***************************************************************************)
(* Proofs about the replicated log, for any number of clients, operations  *)
(* and log keys and any snapshot interval, with and without faults.        *)
(***************************************************************************)
EXTENDS PathmapLog, SequenceTheorems, TLAPS

USE ClientOfAssumption, BoundsAssumption

-----------------------------------------------------------------------------
(* Typing.                                                                 *)

\* The version key is only put after the entry, so it names an existing key.
KeyInRange == \A t \in Thread : pc[t] = "op_version" => fromVersion[t] + 1 \in Version

TypeInv == TypeOK /\ KeyInRange

LEMMA EmptyHistoryType == <<>> \in History
  BY DEF History

LEMMA NoSnapshotType == NoSnapshot \in SnapshotRecord
  BY DEF NoSnapshot, SnapshotRecord, History

LEMMA InitTyped == Init => TypeInv
  BY NoSnapshotType
     DEF Init, TypeInv, TypeOK, KeyInRange, Labels, History

\* Return, Die and FailWith leave well-typed locals and client states.
LEMMA ReturnTyped ==
  ASSUME TypeInv, NEW t \in Thread, Return(t)
  PROVE  /\ clientState' \in [Client -> {"down", "init", "up"} \cup Asserts]
         /\ pc' \in [Thread -> Labels]
         /\ ret' \in [Thread -> {"caller", "retry", "own"}]
         /\ doing' \in [Thread -> Entry \cup {NoEntry}]
         /\ fromVersion' \in [Thread -> Nat]
         /\ toVersion' \in [Thread -> 0 .. MaxVersion]
         /\ entries' \in [Thread -> Seq(Entry \cup {NoEntry})]
         /\ snap' \in [Thread -> SnapshotRecord]
         /\ KeyInRange'
  <1> USE DEF TypeInv, TypeOK, Return, Goto
  <1>1. KeyInRange'
    BY DEF KeyInRange
  <1>2. snap' \in [Thread -> SnapshotRecord]
    BY NoSnapshotType
  <1> QED
    BY <1>1, <1>2 DEF Labels

LEMMA DieTyped ==
  ASSUME TypeInv, NEW c \in Client, NEW why \in {"down"} \cup Asserts, Die(c, why)
  PROVE  /\ clientState' \in [Client -> {"down", "init", "up"} \cup Asserts]
         /\ snapshotVersion' \in [Client -> Nat]
         /\ applied' \in [Client -> History]
         /\ pc' \in [Thread -> Labels]
         /\ ret' \in [Thread -> {"caller", "retry", "own"}]
         /\ doing' \in [Thread -> Entry \cup {NoEntry}]
         /\ fromVersion' \in [Thread -> Nat]
         /\ toVersion' \in [Thread -> 0 .. MaxVersion]
         /\ entries' \in [Thread -> Seq(Entry \cup {NoEntry})]
         /\ snap' \in [Thread -> SnapshotRecord]
         /\ KeyInRange'
  <1> USE DEF TypeInv, TypeOK, Die
  <1>1. KeyInRange'
    BY DEF KeyInRange
  <1>2. snap' \in [Thread -> SnapshotRecord]
    BY NoSnapshotType
  <1>3. applied' \in [Client -> History]
    BY EmptyHistoryType
  <1> QED
    BY <1>1, <1>2, <1>3 DEF Labels

LEMMA FailWithTyped ==
  ASSUME TypeInv, NEW t \in Thread, FailWith(t), UNCHANGED <<dbVersionKey, dbSnapshot>>,
         log' \in [Version -> Entry \cup {NoEntry}]
  PROVE  TypeInv'
  BY ReturnTyped DEF TypeInv, TypeOK, FailWith, histVars

LEMMA AbortTyped ==
  ASSUME TypeInv, NEW t \in Thread, NEW why \in Asserts, Abort(t, why)
  PROVE  TypeInv'
  <1>1. ClientOf[t] \in Client
    OBVIOUS
  <1> QED
    BY <1>1, DieTyped DEF TypeInv, TypeOK, Abort, storeVars, histVars

\* What follows updateSnapshot, given what it did to the map.
LEMMA UpdatedTyped ==
  ASSUME TypeInv, NEW t \in Thread, Updated(t), UNCHANGED <<storeVars, started>>,
         snapshotVersion' \in [Client -> Nat], applied' \in [Client -> History]
  PROVE  TypeInv'
  <1> USE DEF TypeInv, TypeOK, Updated, storeVars
  <1>1. CASE ret[t] = "caller"
    BY <1>1, ReturnTyped
  <1>2. CASE ret[t] = "retry"
    <2>1. 0 \in 0 .. MaxVersion
      OBVIOUS
    <2>2. <<>> \in Seq(Entry \cup {NoEntry})
      OBVIOUS
    <2>3. KeyInRange' /\ pc' \in [Thread -> Labels]
      BY <1>2 DEF KeyInRange, Goto, Labels
    <2>4. /\ ret' = [ret EXCEPT ![t] = "caller"]
          /\ fromVersion' = [fromVersion EXCEPT ![t] = 0]
          /\ toVersion' = [toVersion EXCEPT ![t] = 0]
          /\ entries' = [entries EXCEPT ![t] = <<>>]
          /\ UNCHANGED <<clientState, doing, snap, acked>>
      BY <1>2
    <2> QED
      BY <2>1, <2>2, <2>3, <2>4
  <1>3. CASE ret[t] = "own" /\ fromVersion[t] % SnapInterval = 0
    BY <1>3 DEF KeyInRange, Goto, Labels, localVars
  <1>4. CASE ret[t] = "own" /\ fromVersion[t] % SnapInterval # 0
    BY <1>4, ReturnTyped
  <1> QED
    BY <1>1, <1>2, <1>3, <1>4

LEMMA StepTyped ==
  ASSUME TypeInv, NEW t \in Thread, Step(t)
  PROVE  TypeInv'
  <1> USE DEF At, storeVars, clientVars, localVars, histVars, getSnapshotVersion
  <1>1. CASE OpBegin(t) \/ UpdBegin(t)
    <2>1. KeyInRange' /\ pc' \in [Thread -> Labels]
      BY <1>1 DEF OpBegin, UpdBegin, Goto, Labels, TypeInv, TypeOK, KeyInRange
    <2> QED
      BY <1>1, <2>1 DEF OpBegin, UpdBegin, TypeInv, TypeOK
  <1>2. CASE PutEntryStored(t)
    <2>1. KeyInRange' /\ pc' \in [Thread -> Labels]
      BY <1>2 DEF PutEntryStored, Goto, Labels, TypeInv, TypeOK, KeyInRange
    <2> QED
      BY <1>2, <2>1 DEF PutEntryStored, TypeInv, TypeOK
  <1>3. CASE PutEntryExists(t)
    <2>1. KeyInRange' /\ pc' \in [Thread -> Labels]
      BY <1>3 DEF PutEntryExists, Goto, Labels, TypeInv, TypeOK, KeyInRange
    <2> QED
      BY <1>3, <2>1 DEF PutEntryExists, TypeInv, TypeOK
  <1>4. CASE PutEntryFails(t)
    BY <1>4, FailWithTyped DEF PutEntryFails, TypeInv, TypeOK
  <1>5. CASE PutVersion(t)
    <2>1. fromVersion[t] + 1 \in 0 .. MaxVersion
      BY <1>5 DEF PutVersion, TypeInv, TypeOK, KeyInRange, Version
    <2>2. <<doing[t]>> \in Seq(Entry \cup {NoEntry})
      BY DEF TypeInv, TypeOK
    <2>3. KeyInRange'
      BY <1>5 DEF PutVersion, Goto, TypeInv, TypeOK, KeyInRange
    <2>4. pc' \in [Thread -> Labels]
      BY <1>5 DEF PutVersion, Goto, TypeInv, TypeOK, Labels
    <2> QED
      BY <1>5, <2>1, <2>2, <2>3, <2>4 DEF PutVersion, TypeInv, TypeOK
  <1>6. CASE SerializeSnapshot(t)
    <2>1. KeyInRange' /\ pc' \in [Thread -> Labels]
      BY <1>6 DEF SerializeSnapshot, Goto, Labels, TypeInv, TypeOK, KeyInRange
    <2> QED
      BY <1>6, <2>1 DEF SerializeSnapshot, TypeInv, TypeOK, SnapshotRecord
  <1>7. CASE PutSnapshot(t)
    <2>1. dbSnapshot' \in SnapshotRecord
      BY <1>7 DEF PutSnapshot, TypeInv, TypeOK
    <2>2. acked' \subseteq Entry \cup {NoEntry}
      BY <1>7 DEF PutSnapshot, TypeInv, TypeOK
    <2> QED
      BY <1>7, <2>1, <2>2, ReturnTyped DEF PutSnapshot, TypeInv, TypeOK
  <1>8. CASE GetVersion(t)
    <2>1. CASE Abort(t, "assert dbVersion")
      BY <2>1, AbortTyped DEF Asserts
    <2> QED
      <3> SUFFICES ASSUME ~Abort(t, "assert dbVersion") PROVE TypeInv'
        BY <2>1
      <3>1. KeyInRange' /\ pc' \in [Thread -> Labels]
        BY <1>8 DEF GetVersion, AfterVersion, Goto, Labels, TypeInv, TypeOK, KeyInRange
      <3> QED
        BY <1>8, <3>1 DEF GetVersion, TypeInv, TypeOK
  <1>9. CASE ProbeFound(t)
    <2>1. KeyInRange' /\ pc' \in [Thread -> Labels]
      BY <1>9 DEF ProbeFound, AfterVersion, Goto, Labels, TypeInv, TypeOK, KeyInRange
    <2>2. toVersion' \in [Thread -> 0 .. MaxVersion]
      BY <1>9 DEF ProbeFound, TypeInv, TypeOK, Version
    <2> QED
      BY <1>9, <2>1, <2>2 DEF ProbeFound, TypeInv, TypeOK
  <1>10. CASE ProbeMissing(t) \/ UpdFails(t)
    BY <1>10, FailWithTyped DEF ProbeMissing, UpdFails, TypeInv, TypeOK
  <1>11. CASE GetSnapshot(t)
    <2>1. KeyInRange' /\ pc' \in [Thread -> Labels]
      BY <1>11 DEF GetSnapshot, Goto, Labels, TypeInv, TypeOK, KeyInRange
    <2>2. snap' \in [Thread -> SnapshotRecord]
      BY <1>11 DEF GetSnapshot, TypeInv, TypeOK
    <2> QED
      BY <1>11, <2>1, <2>2 DEF GetSnapshot, TypeInv, TypeOK
  <1>12. CASE LoadSnapshot(t)
    <2>1. KeyInRange' /\ pc' \in [Thread -> Labels]
      BY <1>12 DEF LoadSnapshot, Goto, Labels, TypeInv, TypeOK, KeyInRange
    <2>2. snap[t].version \in Nat /\ snap[t].applied \in History
      BY DEF TypeInv, TypeOK, SnapshotRecord
    <2>3. /\ snapshotVersion' \in [Client -> Nat]
          /\ applied' \in [Client -> History]
      BY <1>12, <2>2 DEF LoadSnapshot, TypeInv, TypeOK
    <2>4. fromVersion' \in [Thread -> Nat]
      BY <1>12, <2>3 DEF LoadSnapshot, TypeInv, TypeOK
    <2> QED
      BY <1>12, <2>1, <2>3, <2>4, NoSnapshotType DEF LoadSnapshot, TypeInv, TypeOK
  <1>13. CASE FetchEntry(t)
    <2>1. KeyInRange' /\ pc' \in [Thread -> Labels]
      BY <1>13 DEF FetchEntry, Goto, Labels, TypeInv, TypeOK, KeyInRange
    <2>2. entries' \in [Thread -> Seq(Entry \cup {NoEntry})]
      <3> DEFINE v == fromVersion[t] + Len(entries[t]) + 1
      <3>1. entries[t] \in Seq(Entry \cup {NoEntry}) /\ Len(entries[t]) \in Nat
        BY DEF TypeInv, TypeOK
      <3>2. CASE v <= toVersion[t] /\ entries' = [entries EXCEPT ![t] = Append(@, log[v])]
        <4>1. v \in Version
          BY <3>1, <3>2 DEF TypeInv, TypeOK, Version
        <4>2. log[v] \in Entry \cup {NoEntry}
          BY <4>1 DEF TypeInv, TypeOK
        <4>3. Append(entries[t], log[v]) \in Seq(Entry \cup {NoEntry})
          BY <3>1, <4>2
        <4> QED
          BY <3>2, <4>3 DEF TypeInv, TypeOK
      <3> QED
        BY <1>13, <3>2 DEF FetchEntry, TypeInv, TypeOK
    <2> QED
      BY <1>13, <2>1, <2>2 DEF FetchEntry, TypeInv, TypeOK
  <1>14. CASE UpdateCheck(t)
    <2>1. CASE Abort(t, "assert size") \/ Abort(t, "assert from")
      BY <2>1, AbortTyped DEF Asserts
    <2>2. CASE Updated(t) /\ UNCHANGED <<storeVars, snapshotVersion, applied, started>>
      BY <2>2, UpdatedTyped DEF TypeInv, TypeOK
    <2>3. CASE Goto(t, "us_apply") /\ UNCHANGED <<storeVars, clientVars, localVars, histVars>>
      <3>1. KeyInRange' /\ pc' \in [Thread -> Labels]
        BY <2>3 DEF Goto, Labels, TypeInv, TypeOK, KeyInRange
      <3> QED
        BY <2>3, <3>1 DEF TypeInv, TypeOK
    <2> QED
      BY <1>14, <2>1, <2>2, <2>3 DEF UpdateCheck
  <1>15. CASE ApplyEntry(t)
    <2>1. KeyInRange' /\ pc' \in [Thread -> Labels]
      BY <1>15 DEF ApplyEntry, Goto, Labels, TypeInv, TypeOK, KeyInRange
    <2>2. entries[t] \in Seq(Entry \cup {NoEntry}) /\ entries[t] # <<>>
      BY <1>15 DEF ApplyEntry, TypeInv, TypeOK
    <2>3. /\ Head(entries[t]) \in Entry \cup {NoEntry}
          /\ Tail(entries[t]) \in Seq(Entry \cup {NoEntry})
      BY <2>2, HeadTailProperties
    <2>4. snapshotVersion[ClientOf[t]] \in Nat /\ applied[ClientOf[t]] \in History
      BY DEF TypeInv, TypeOK
    <2>5. Append(applied[ClientOf[t]], [entry |-> Head(entries[t]),
                   version |-> snapshotVersion[ClientOf[t]] + 1]) \in History
      BY <2>3, <2>4 DEF History
    <2>6. applied' \in [Client -> History] /\ snapshotVersion' \in [Client -> Nat]
      BY <1>15, <2>4, <2>5 DEF ApplyEntry, TypeInv, TypeOK
    <2>7. entries' \in [Thread -> Seq(Entry \cup {NoEntry})]
      BY <1>15, <2>3 DEF ApplyEntry, TypeInv, TypeOK
    <2> QED
      BY <1>15, <2>1, <2>6, <2>7 DEF ApplyEntry, TypeInv, TypeOK
  <1>16. CASE SetVersion(t)
    <2>1. snapshotVersion' \in [Client -> Nat] /\ applied' \in [Client -> History]
      BY <1>16 DEF SetVersion, TypeInv, TypeOK
    <2> QED
      BY <1>16, <2>1, UpdatedTyped DEF SetVersion
  <1> QED
    BY <1>1, <1>2, <1>3, <1>4, <1>5, <1>6, <1>7, <1>8, <1>9, <1>10, <1>11,
       <1>12, <1>13, <1>14, <1>15, <1>16 DEF Step

LEMMA NextTyped == TypeInv /\ [Next]_vars => TypeInv'
  <1> SUFFICES ASSUME TypeInv, [Next]_vars PROVE TypeInv'
    OBVIOUS
  <1> USE DEF storeVars, clientVars, localVars, histVars
  <1>1. ASSUME NEW t \in Thread, Mount(t) PROVE TypeInv'
    <2>1. KeyInRange' /\ pc' \in [Thread -> Labels]
      BY <1>1 DEF Mount, Goto, Labels, TypeInv, TypeOK, KeyInRange
    <2> QED
      BY <1>1, <2>1 DEF Mount, TypeInv, TypeOK
  <1>2. ASSUME NEW t \in Thread, StartOperation(t) PROVE TypeInv'
    <2>1. started + 1 \in Entry /\ started + 1 \in 0 .. MaxOps
      BY <1>2 DEF StartOperation, TypeInv, TypeOK, Entry
    <2>2. KeyInRange' /\ pc' \in [Thread -> Labels]
      BY <1>2 DEF StartOperation, Goto, Labels, TypeInv, TypeOK, KeyInRange
    <2> QED
      BY <1>2, <2>1, <2>2 DEF StartOperation, TypeInv, TypeOK
  <1>3. ASSUME NEW t \in Thread, StartUpdate(t) PROVE TypeInv'
    <2>1. KeyInRange' /\ pc' \in [Thread -> Labels]
      BY <1>3 DEF StartUpdate, Goto, Labels, TypeInv, TypeOK, KeyInRange
    <2> QED
      BY <1>3, <2>1 DEF StartUpdate, TypeInv, TypeOK
  <1>4. ASSUME NEW c \in Client, Crash(c) PROVE TypeInv'
    BY <1>4, DieTyped DEF Crash, TypeInv, TypeOK
  <1>5. CASE UNCHANGED vars
    BY <1>5 DEF vars, TypeInv, TypeOK, KeyInRange
  <1> QED
    BY <1>1, <1>2, <1>3, <1>4, <1>5, StepTyped DEF Next

\* The store, the maps and the locals of database_operation, database_update
\* and updateSnapshot keep their types.
THEOREM Typing == Spec => []TypeOK
  <1>1. TypeInv => TypeOK
    BY DEF TypeInv
  <1> QED
    BY <1>1, InitTyped, NextTyped, PTL DEF Spec

-----------------------------------------------------------------------------
(* Replay.  The induction needs what a thread knows between two requests:  *)
(* that the version it read is still the version of the map (true for a    *)
(* client with one thread only), and that the entries it holds are the     *)
(* ones that follow that version in the log.                               *)

\* es are the entries of lg that follow version n.
Continues(lg, n, es) ==
    \A i \in 1 .. Len(es) : /\ n + i \in Version
                            /\ lg[n + i] = es[i]
                            /\ lg[n + i] # NoEntry

\* The version that was read is the version of the map.
VersionRead == {"op_put", "op_version", "upd_version", "upd_probe", "upd_snap",
                "upd_load", "upd_fetch", "us_check"}

NothingFetched == {"idle", "op_begin", "op_put", "op_version", "upd_begin",
                   "upd_version", "upd_probe", "upd_snap", "upd_load"}

LocalInv(t) ==
    /\ pc[t] \in VersionRead => fromVersion[t] = snapshotVersion[ClientOf[t]]
    /\ pc[t] \in {"op_begin", "op_put", "op_version"} => doing[t] \in Entry
    /\ ret[t] = "retry" => doing[t] \in Entry
    /\ pc[t] = "op_version" => log[fromVersion[t] + 1] = doing[t]
    /\ pc[t] \in {"upd_fetch", "us_check", "us_apply"} =>
         Continues(log, snapshotVersion[ClientOf[t]], entries[t])
    /\ pc[t] \in NothingFetched => entries[t] = <<>>
    /\ pc[t] = "us_apply" =>
         snapshotVersion[ClientOf[t]] + Len(entries[t]) = toVersion[t]
    /\ pc[t] = "us_set" => snapshotVersion[ClientOf[t]] = toVersion[t]
    /\ IsReplay(log, snap[t].applied, snap[t].version)

ReplayInv ==
    /\ TypeInv
    /\ SnapshotIsReplay
    /\ NoHoles
    /\ \A t \in Thread : LocalInv(t)

LEMMA EmptyIsReplay == ASSUME NEW lg PROVE IsReplay(lg, <<>>, 0)
  BY DEF IsReplay

LEMMA NoSnapshotIsReplay ==
  ASSUME NEW lg PROVE IsReplay(lg, NoSnapshot.applied, NoSnapshot.version)
  BY EmptyIsReplay DEF NoSnapshot

\* Entries stay where they are, so what was a replay remains one.
Grows(lg, lg2) == \A v \in Version : lg[v] # NoEntry => lg2[v] = lg[v]

LEMMA ReplayStable ==
  ASSUME NEW lg, NEW lg2, Grows(lg, lg2), NEW h, NEW n, IsReplay(lg, h, n)
  PROVE  IsReplay(lg2, h, n)
  BY DEF IsReplay, Grows, Version

LEMMA ContinuesStable ==
  ASSUME NEW lg, NEW lg2, Grows(lg, lg2), NEW n, NEW es, Continues(lg, n, es)
  PROVE  Continues(lg2, n, es)
  BY DEF Continues, Grows

LEMMA ContinuesEmpty == ASSUME NEW lg, NEW n PROVE Continues(lg, n, <<>>)
  BY DEF Continues

\* The replay of n entries and the next entry is the replay of n + 1.
LEMMA ReplayAppend ==
  ASSUME NEW lg, NEW h \in History, NEW n \in Nat, IsReplay(lg, h, n),
         NEW e \in Entry \cup {NoEntry}, n + 1 \in Version, lg[n + 1] = e, e # NoEntry
  PROVE  IsReplay(lg, Append(h, [entry |-> e, version |-> n + 1]), n + 1)
  <1> DEFINE r == [entry |-> e, version |-> n + 1]
             h2 == Append(h, r)
  <1>1. r \in [entry : Entry \cup {NoEntry}, version : Nat]
    OBVIOUS
  <1>2. Len(h) = n
    BY DEF IsReplay
  <1>3. /\ Len(h2) = n + 1
        /\ h2[n + 1] = r
        /\ \A i \in 1 .. n : h2[i] = h[i]
    BY <1>1, <1>2, AppendProperties DEF History
  <1>4. ASSUME NEW i \in 1 .. (n + 1)
        PROVE  lg[i] # NoEntry /\ h2[i].entry = lg[i] /\ h2[i].version = i
    <2>1. CASE i = n + 1
      BY <1>3, <2>1
    <2>2. CASE i \in 1 .. n
      BY <1>3, <2>2 DEF IsReplay
    <2>3. i = n + 1 \/ i \in 1 .. n
      OBVIOUS
    <2> QED
      BY <2>1, <2>2, <2>3
  <1> HIDE DEF h2
  <1>5. n + 1 \in 0 .. MaxVersion
    BY DEF Version
  <1>6. IsReplay(lg, h2, n + 1)
    BY <1>3, <1>4, <1>5 DEF IsReplay
  <1> QED
    BY <1>6 DEF h2

\* Applying the first of the entries leaves the rest to follow.
LEMMA ContinuesTail ==
  ASSUME NEW lg, NEW n \in Nat, NEW es \in Seq(Entry \cup {NoEntry}),
         es # <<>>, Continues(lg, n, es)
  PROVE  /\ Continues(lg, n + 1, Tail(es))
         /\ n + 1 \in Version
         /\ lg[n + 1] = Head(es)
         /\ Head(es) # NoEntry
         /\ Len(Tail(es)) = Len(es) - 1
         /\ Len(es) \in Nat \ {0}
  <1>1. /\ Len(es) \in Nat \ {0}
        /\ Len(Tail(es)) = Len(es) - 1
        /\ \A i \in 1 .. Len(Tail(es)) : Tail(es)[i] = es[i + 1]
        /\ Head(es) = es[1]
    BY HeadTailProperties
  <1>2. ASSUME NEW i \in 1 .. Len(Tail(es))
        PROVE  /\ (n + 1) + i \in Version
               /\ lg[(n + 1) + i] = Tail(es)[i]
               /\ lg[(n + 1) + i] # NoEntry
    <2>1. i + 1 \in 1 .. Len(es) /\ (n + 1) + i = n + (i + 1)
      BY <1>1
    <2> QED
      BY <1>1, <2>1 DEF Continues
  <1>3. n + 1 \in Version /\ lg[n + 1] = es[1] /\ lg[n + 1] # NoEntry
    BY <1>1 DEF Continues
  <1> QED
    BY <1>1, <1>2, <1>3 DEF Continues

\* Fetching the entry after the ones already there.
LEMMA ContinuesAppend ==
  ASSUME NEW lg, NEW n \in Nat, NEW es \in Seq(Entry \cup {NoEntry}),
         Continues(lg, n, es), n + Len(es) + 1 \in Version,
         NEW e \in Entry \cup {NoEntry}, lg[n + Len(es) + 1] = e, e # NoEntry
  PROVE  Continues(lg, n, Append(es, e))
  <1> DEFINE es2 == Append(es, e)
  <1>1. /\ Len(es) \in Nat
        /\ Len(es2) = Len(es) + 1
        /\ es2[Len(es) + 1] = e
        /\ \A i \in 1 .. Len(es) : es2[i] = es[i]
    BY AppendProperties
  <1>2. ASSUME NEW i \in 1 .. (Len(es) + 1)
        PROVE  n + i \in Version /\ lg[n + i] = es2[i] /\ lg[n + i] # NoEntry
    <2>1. CASE i = Len(es) + 1
      <3>1. n + i = n + Len(es) + 1
        BY <1>1, <2>1
      <3> QED
        BY <1>1, <2>1, <3>1
    <2>2. CASE i \in 1 .. Len(es)
      BY <1>1, <2>2 DEF Continues
    <2> QED
      BY <1>1, <2>1, <2>2
  <1> HIDE DEF es2
  <1>3. Continues(lg, n, es2)
    BY <1>1, <1>2 DEF Continues
  <1> QED
    BY <1>3 DEF es2

\* What a step of thread t leaves alone: the other threads and clients.
OthersUnchanged(t) ==
    /\ \A u \in Thread \ {t} :
         /\ pc'[u] = pc[u] /\ ret'[u] = ret[u] /\ doing'[u] = doing[u]
         /\ fromVersion'[u] = fromVersion[u] /\ toVersion'[u] = toVersion[u]
         /\ entries'[u] = entries[u] /\ snap'[u] = snap[u]
    /\ \A c \in Client \ {ClientOf[t]} :
         /\ snapshotVersion'[c] = snapshotVersion[c]
         /\ applied'[c] = applied[c]

\* What t itself has to show of its step.
OwnPart(t) ==
    /\ Grows(log, log')
    /\ OthersUnchanged(t)
    /\ LocalInv(t)'
    /\ IsReplay(log', applied'[ClientOf[t]], snapshotVersion'[ClientOf[t]])
    /\ IsReplay(log', dbSnapshot'.applied, dbSnapshot'.version)
    /\ NoHoles'

\* A thread keeps its local invariant when its locals and its client's version
\* do not change.
LEMMA LocalInvStable ==
  ASSUME NEW u \in Thread, LocalInv(u), Grows(log, log'),
         pc'[u] = pc[u], ret'[u] = ret[u], doing'[u] = doing[u],
         fromVersion'[u] = fromVersion[u], toVersion'[u] = toVersion[u],
         entries'[u] = entries[u], snap'[u] = snap[u],
         snapshotVersion'[ClientOf[u]] = snapshotVersion[ClientOf[u]],
         pc[u] = "op_version" => fromVersion[u] + 1 \in Version
  PROVE  LocalInv(u)'
  <1>1. IsReplay(log, snap[u].applied, snap[u].version)'
    BY ReplayStable DEF LocalInv
  <1>2. pc[u] \in {"upd_fetch", "us_check", "us_apply"} =>
          Continues(log, snapshotVersion[ClientOf[u]], entries[u])'
    BY ContinuesStable DEF LocalInv
  <1>3. pc[u] = "op_version" => log'[fromVersion[u] + 1] = doing[u]
    <2> SUFFICES ASSUME pc[u] = "op_version" PROVE log'[fromVersion[u] + 1] = doing[u]
      OBVIOUS
    <2>1. doing[u] \in Entry /\ log[fromVersion[u] + 1] = doing[u]
      BY DEF LocalInv
    <2>2. doing[u] # NoEntry
      BY <2>1 DEF Entry, NoEntry
    <2> QED
      BY <2>1, <2>2 DEF Grows
  <1> QED
    BY <1>1, <1>2, <1>3 DEF LocalInv

LEMMA OwnPartSuffices ==
  ASSUME SingleThreaded, ReplayInv, NEW t \in Thread, TypeInv', OwnPart(t)
  PROVE  ReplayInv'
  <1>1. ASSUME NEW u \in Thread PROVE LocalInv(u)'
    <2>1. CASE u = t
      BY <2>1 DEF OwnPart
    <2>2. CASE u # t
      <3>1. ClientOf[u] \in Client \ {ClientOf[t]}
        BY <2>2 DEF SingleThreaded
      <3>2. LocalInv(u) /\ (pc[u] = "op_version" => fromVersion[u] + 1 \in Version)
        BY DEF ReplayInv, TypeInv, KeyInRange
      <3> QED
        BY <2>2, <3>1, <3>2, LocalInvStable DEF OwnPart, OthersUnchanged
    <2> QED
      BY <2>1, <2>2
  <1>2. ASSUME NEW c \in Client PROVE IsReplay(log', applied'[c], snapshotVersion'[c])
    <2>1. CASE c = ClientOf[t]
      BY <2>1 DEF OwnPart
    <2>2. CASE c # ClientOf[t]
      <3>1. IsReplay(log, applied[c], snapshotVersion[c])
        BY DEF ReplayInv, SnapshotIsReplay
      <3> QED
        BY <2>2, <3>1, ReplayStable DEF OwnPart, OthersUnchanged
    <2> QED
      BY <2>1, <2>2
  <1> QED
    BY <1>1, <1>2 DEF ReplayInv, OwnPart, SnapshotIsReplay

\* Steps that only change the locals of t.
LEMMA LocalStep ==
  ASSUME ReplayInv, NEW t \in Thread, OthersUnchanged(t), LocalInv(t)',
         UNCHANGED <<log, dbSnapshot, snapshotVersion, applied>>
  PROVE  OwnPart(t)
  BY DEF OwnPart, ReplayInv, SnapshotIsReplay, NoHoles, Grows

\* A call that returns leaves nothing to be remembered.
LEMMA ReturnLocal ==
  ASSUME TypeInv, NEW t \in Thread, Return(t)
  PROVE  /\ LocalInv(t)'
         /\ \A u \in Thread \ {t} :
              /\ pc'[u] = pc[u] /\ ret'[u] = ret[u] /\ doing'[u] = doing[u]
              /\ fromVersion'[u] = fromVersion[u] /\ toVersion'[u] = toVersion[u]
              /\ entries'[u] = entries[u] /\ snap'[u] = snap[u]
  <1>1. /\ pc'[t] = "idle" /\ ret'[t] = "caller" /\ entries'[t] = <<>>
        /\ snap'[t] = NoSnapshot
    BY DEF Return, Goto, TypeInv, TypeOK
  <1>2. LocalInv(t)'
    BY <1>1, NoSnapshotIsReplay DEF LocalInv, VersionRead
  <1> QED
    BY <1>2 DEF Return, Goto, TypeInv, TypeOK

LEMMA FailWithOwn ==
  ASSUME ReplayInv, NEW t \in Thread, FailWith(t), UNCHANGED <<log, dbSnapshot>>
  PROVE  OwnPart(t)
  <1>1. LocalInv(t)' /\ OthersUnchanged(t)
    BY ReturnLocal DEF FailWith, OthersUnchanged, ReplayInv
  <1> QED
    BY <1>1, LocalStep DEF FailWith

LEMMA AbortOwn ==
  ASSUME SingleThreaded, ReplayInv, NEW t \in Thread, NEW why, Abort(t, why)
  PROVE  OwnPart(t)
  <1>1. /\ pc'[t] = "idle" /\ ret'[t] = "caller" /\ entries'[t] = <<>>
        /\ snap'[t] = NoSnapshot
        /\ snapshotVersion'[ClientOf[t]] = 0 /\ applied'[ClientOf[t]] = <<>>
    BY DEF Abort, Die, ReplayInv, TypeInv, TypeOK
  <1>2. LocalInv(t)'
    BY <1>1, NoSnapshotIsReplay DEF LocalInv, VersionRead
  <1>3. OthersUnchanged(t)
    BY DEF Abort, Die, ReplayInv, TypeInv, TypeOK, SingleThreaded, OthersUnchanged
  <1>4. UNCHANGED <<log, dbSnapshot>>
    BY DEF Abort, storeVars
  <1>5. Grows(log, log') /\ NoHoles' /\ IsReplay(log', dbSnapshot'.applied, dbSnapshot'.version)
    BY <1>4 DEF ReplayInv, SnapshotIsReplay, NoHoles, Grows
  <1> QED
    BY <1>1, <1>2, <1>3, <1>5, EmptyIsReplay DEF OwnPart

\* After updateSnapshot with the map at a replay.
LEMMA UpdatedOwn ==
  ASSUME ReplayInv, NEW t \in Thread, Updated(t),
         UNCHANGED <<log, dbSnapshot, snapshotVersion, applied>>
  PROVE  OwnPart(t)
  <1>1. CASE ret[t] = "caller"
    <2>1. LocalInv(t)' /\ OthersUnchanged(t)
      BY <1>1, ReturnLocal DEF Updated, OthersUnchanged, ReplayInv
    <2> QED
      BY <2>1, LocalStep
  <1>2. CASE ret[t] = "own" /\ fromVersion[t] % SnapInterval # 0
    <2>1. LocalInv(t)' /\ OthersUnchanged(t)
      BY <1>2, ReturnLocal DEF Updated, OthersUnchanged, ReplayInv
    <2> QED
      BY <2>1, LocalStep
  <1>3. CASE ret[t] = "retry"
    <2>1. OthersUnchanged(t)
      BY <1>3 DEF Updated, OthersUnchanged, Goto, ReplayInv, TypeInv, TypeOK
    <2>2. /\ pc'[t] = "op_begin" /\ ret'[t] = "caller" /\ entries'[t] = <<>>
          /\ doing'[t] = doing[t] /\ snap'[t] = snap[t]
      BY <1>3 DEF Updated, Goto, ReplayInv, TypeInv, TypeOK
    <2>3. doing[t] \in Entry /\ IsReplay(log, snap[t].applied, snap[t].version)
      BY <1>3 DEF ReplayInv, LocalInv
    <2>4. LocalInv(t)'
      BY <2>2, <2>3 DEF LocalInv, VersionRead
    <2> QED
      BY <2>1, <2>4, LocalStep
  <1>4. CASE ret[t] = "own" /\ fromVersion[t] % SnapInterval = 0
    <2>1. OthersUnchanged(t)
      BY <1>4 DEF Updated, OthersUnchanged, Goto, localVars, ReplayInv, TypeInv, TypeOK
    <2>2. pc'[t] = "op_serialize" /\ ret'[t] = "own" /\ snap'[t] = snap[t]
      BY <1>4 DEF Updated, Goto, localVars, ReplayInv, TypeInv, TypeOK
    <2>3. IsReplay(log, snap[t].applied, snap[t].version)
      BY DEF ReplayInv, LocalInv
    <2>4. LocalInv(t)'
      BY <2>2, <2>3 DEF LocalInv, VersionRead, NothingFetched
    <2> QED
      BY <2>1, <2>4, LocalStep
  <1> QED
    BY <1>1, <1>2, <1>3, <1>4 DEF Updated

LEMMA StepOwn ==
  ASSUME SingleThreaded, ReplayInv, NEW t \in Thread, Step(t)
  PROVE  OwnPart(t)
  <1> DEFINE c == ClientOf[t]
  <1> USE DEF At, getSnapshotVersion
  <1>0. /\ TypeOK /\ LocalInv(t) /\ c \in Client
        /\ IsReplay(log, applied[c], snapshotVersion[c])
        /\ IsReplay(log, dbSnapshot.applied, dbSnapshot.version)
        /\ pc[t] = "op_version" => fromVersion[t] + 1 \in Version
    BY DEF ReplayInv, TypeInv, SnapshotIsReplay, KeyInRange
  <1>1. CASE OpBegin(t) \/ UpdBegin(t)
    <2> USE <1>0, <1>1
        DEF OpBegin, UpdBegin, Goto, storeVars, clientVars
    <2>1. OthersUnchanged(t)
      BY DEF OthersUnchanged, TypeOK
    <2>2. LocalInv(t)'
      BY DEF LocalInv, TypeOK, VersionRead, NothingFetched
    <2> QED
      BY <2>1, <2>2, LocalStep
  <1>2. CASE PutEntryStored(t)
    <2> DEFINE v == fromVersion[t] + 1
    <2> USE <1>0, <1>2 DEF PutEntryStored, Goto, clientVars, localVars
    <2>1. Grows(log, log')
      BY DEF Grows, TypeOK
    <2>2. OthersUnchanged(t)
      BY DEF OthersUnchanged, TypeOK
    <2>3. log'[v] = doing[t] /\ v = snapshotVersion[c] + 1 /\ v \in Version
      BY DEF LocalInv, VersionRead, TypeOK
    <2>4. IsReplay(log', snap[t].applied, snap[t].version)
      BY <2>1, ReplayStable DEF LocalInv
    <2>5. LocalInv(t)'
      BY <2>3, <2>4 DEF LocalInv, TypeOK, VersionRead, NothingFetched
    <2>6. IsReplay(log', applied[c], snapshotVersion[c])
      BY <2>1, ReplayStable
    <2>7. IsReplay(log', dbSnapshot.applied, dbSnapshot.version)
      BY <2>1, ReplayStable
    <2>8. NoHoles'
      <3> SUFFICES ASSUME NEW x \in Version, NEW y \in Version, y < x, log'[x] # NoEntry
                   PROVE  log'[y] # NoEntry
        BY DEF NoHoles
      <3>1. CASE x = v
        <4>1. y \in 1 .. snapshotVersion[c]
          BY <2>3, <3>1 DEF Version, TypeOK
        <4> QED
          BY <4>1, <2>6 DEF IsReplay
      <3>2. CASE x # v
        <4>1. log[x] # NoEntry
          BY <3>2 DEF TypeOK
        <4>2. log[y] # NoEntry
          BY <4>1 DEF ReplayInv, NoHoles
        <4> QED
          BY <4>2, <2>1 DEF Grows
      <3> QED
        BY <3>1, <3>2
    <2> QED
      BY <2>1, <2>2, <2>5, <2>6, <2>7, <2>8 DEF OwnPart
  <1>3. CASE PutEntryExists(t)
    <2> USE <1>0, <1>3 DEF PutEntryExists, Goto, storeVars, clientVars
    <2>1. OthersUnchanged(t)
      BY DEF OthersUnchanged, TypeOK
    <2>2. LocalInv(t)'
      BY DEF LocalInv, TypeOK, VersionRead, NothingFetched
    <2> QED
      BY <2>1, <2>2, LocalStep
  <1>5. CASE PutVersion(t)
    <2> USE <1>0, <1>5 DEF PutVersion, Goto, clientVars
    <2>1. OthersUnchanged(t)
      BY DEF OthersUnchanged, TypeOK
    <2>2. /\ pc'[t] = "us_check" /\ ret'[t] = "own" /\ entries'[t] = <<doing[t]>>
          /\ UNCHANGED <<log, snapshotVersion, fromVersion, doing, snap>>
      BY DEF TypeOK
    <2>3. /\ fromVersion[t] = snapshotVersion[c] /\ doing[t] \in Entry
          /\ log[fromVersion[t] + 1] = doing[t]
          /\ fromVersion[t] + 1 \in Version
      BY DEF LocalInv, VersionRead
    <2>4. Continues(log, snapshotVersion[c], <<doing[t]>>)
      BY <2>3 DEF Continues, Entry, NoEntry
    <2>5. LocalInv(t)'
      BY <2>2, <2>3, <2>4 DEF LocalInv, VersionRead, NothingFetched
    <2> QED
      BY <2>1, <2>5, LocalStep
  <1>6. CASE SerializeSnapshot(t)
    <2> USE <1>0, <1>6 DEF SerializeSnapshot, Goto, storeVars, clientVars
    <2>1. OthersUnchanged(t)
      BY DEF OthersUnchanged, TypeOK
    <2>2. LocalInv(t)'
      BY DEF LocalInv, TypeOK, VersionRead, NothingFetched
    <2> QED
      BY <2>1, <2>2, LocalStep
  <1>7. CASE PutSnapshot(t)
    <2> USE <1>0, <1>7 DEF PutSnapshot
    <2>1. LocalInv(t)' /\ OthersUnchanged(t)
      BY ReturnLocal DEF OthersUnchanged, ReplayInv
    <2>2. IsReplay(log', dbSnapshot'.applied, dbSnapshot'.version)
      BY DEF LocalInv
    <2>3. Grows(log, log') /\ NoHoles'
      BY DEF Grows, NoHoles, ReplayInv
    <2> QED
      BY <2>1, <2>2, <2>3 DEF OwnPart
  <1>8. CASE GetVersion(t)
    <2>1. CASE Abort(t, "assert dbVersion")
      BY <2>1, AbortOwn
    <2>2. CASE ~Abort(t, "assert dbVersion")
      <3> USE <1>0, <1>8, <2>2 DEF GetVersion, AfterVersion, Goto, storeVars, clientVars
      <3>1. OthersUnchanged(t)
        BY DEF OthersUnchanged, TypeOK
      <3>2. /\ pc'[t] \in {"upd_probe", "upd_snap", "upd_fetch"}
            /\ UNCHANGED <<log, snapshotVersion, fromVersion, ret, doing, entries, snap>>
        BY DEF TypeOK
      <3>3. entries[t] = <<>> /\ fromVersion[t] = snapshotVersion[c]
        BY DEF LocalInv, VersionRead, NothingFetched
      <3>4. Continues(log, snapshotVersion[c], <<>>)
        BY ContinuesEmpty
      <3>5. LocalInv(t)'
        BY <3>2, <3>3, <3>4 DEF LocalInv, VersionRead, NothingFetched
      <3> QED
        BY <3>1, <3>5, LocalStep
    <2> QED
      BY <2>1, <2>2
  <1>9. CASE ProbeFound(t)
    <2> USE <1>0, <1>9 DEF ProbeFound, AfterVersion, Goto, storeVars, clientVars
    <2>1. OthersUnchanged(t)
      BY DEF OthersUnchanged, TypeOK
    <2>2. /\ pc'[t] \in {"upd_snap", "upd_fetch"}
          /\ UNCHANGED <<log, snapshotVersion, fromVersion, ret, doing, entries, snap>>
      BY DEF TypeOK
    <2>3. entries[t] = <<>> /\ fromVersion[t] = snapshotVersion[c]
      BY DEF LocalInv, VersionRead, NothingFetched
    <2>4. Continues(log, snapshotVersion[c], <<>>)
      BY ContinuesEmpty
    <2>5. LocalInv(t)'
      BY <2>2, <2>3, <2>4 DEF LocalInv, VersionRead, NothingFetched
    <2> QED
      BY <2>1, <2>5, LocalStep
  <1>10. CASE ProbeMissing(t) \/ UpdFails(t)
    BY <1>10, FailWithOwn DEF ProbeMissing, UpdFails, storeVars
  <1>11. CASE GetSnapshot(t)
    <2> USE <1>0, <1>11 DEF GetSnapshot, Goto, storeVars, clientVars
    <2>1. OthersUnchanged(t)
      BY DEF OthersUnchanged, TypeOK
    <2>2. /\ pc'[t] \in {"upd_load", "upd_fetch"}
          /\ snap'[t] \in {snap[t], dbSnapshot}
          /\ UNCHANGED <<log, snapshotVersion, fromVersion, ret, doing, entries>>
      BY DEF TypeOK
    <2>3. entries[t] = <<>> /\ fromVersion[t] = snapshotVersion[c]
      BY DEF LocalInv, VersionRead, NothingFetched
    <2>4. Continues(log, snapshotVersion[c], <<>>)
      BY ContinuesEmpty
    <2>5. LocalInv(t)'
      BY <2>2, <2>3, <2>4 DEF LocalInv, VersionRead, NothingFetched
    <2> QED
      BY <2>1, <2>5, LocalStep
  <1>12. CASE LoadSnapshot(t)
    <2> USE <1>0, <1>12 DEF LoadSnapshot, Goto, storeVars
    <2>1. OthersUnchanged(t)
      BY DEF OthersUnchanged, TypeOK
    <2>2. /\ pc'[t] = "upd_fetch" /\ snap'[t] = NoSnapshot
          /\ fromVersion'[t] = snapshotVersion'[c]
          /\ UNCHANGED <<log, dbSnapshot, ret, doing, entries>>
      BY DEF TypeOK
    <2>3. entries[t] = <<>>
      BY DEF LocalInv, NothingFetched
    <2>4. Continues(log, snapshotVersion'[c], <<>>)
      BY ContinuesEmpty
    <2>5. LocalInv(t)'
      BY <2>2, <2>3, <2>4, NoSnapshotIsReplay DEF LocalInv, VersionRead, NothingFetched
    <2>6. IsReplay(log', applied'[c], snapshotVersion'[c])
      <3>1. IsReplay(log, snap[t].applied, snap[t].version)
        BY DEF LocalInv
      <3>2. CASE snap[t].version <= snapshotVersion[c]
        BY <3>2
      <3>3. CASE ~(snap[t].version <= snapshotVersion[c])
        <4>1. applied'[c] = snap[t].applied /\ snapshotVersion'[c] = snap[t].version
          BY <3>3 DEF TypeOK
        <4> QED
          BY <3>1, <4>1
      <3> QED
        BY <3>2, <3>3
    <2>7. Grows(log, log') /\ NoHoles'
      BY DEF Grows, NoHoles, ReplayInv
    <2> QED
      BY <2>1, <2>5, <2>6, <2>7 DEF OwnPart
  <1>13. CASE FetchEntry(t)
    <2> DEFINE v == fromVersion[t] + Len(entries[t]) + 1
    <2> USE <1>0, <1>13 DEF FetchEntry, Goto, storeVars, clientVars
    <2>1. OthersUnchanged(t)
      BY DEF OthersUnchanged, TypeOK
    <2>2. /\ fromVersion[t] = snapshotVersion[c]
          /\ Continues(log, snapshotVersion[c], entries[t])
          /\ entries[t] \in Seq(Entry \cup {NoEntry}) /\ Len(entries[t]) \in Nat
          /\ snapshotVersion[c] \in Nat
      BY DEF LocalInv, VersionRead, TypeOK
    <2>3. CASE pc'[t] = "us_check" /\ entries' = entries
      <3>1. LocalInv(t)'
        BY <2>2, <2>3 DEF LocalInv, VersionRead, NothingFetched
      <3> QED
        BY <2>1, <3>1, LocalStep
    <2>4. CASE /\ v <= toVersion[t] /\ log[v] # NoEntry
               /\ entries' = [entries EXCEPT ![t] = Append(@, log[v])]
               /\ UNCHANGED pc
      <3>1. v \in Version
        BY <2>2, <2>4 DEF TypeOK, Version
      <3>2. log[v] \in Entry \cup {NoEntry}
        BY <3>1 DEF TypeOK
      <3>3. Continues(log, snapshotVersion[c], Append(entries[t], log[v]))
        BY <2>2, <2>4, <3>1, <3>2, ContinuesAppend
      <3>4. entries'[t] = Append(entries[t], log[v])
        BY <2>4 DEF TypeOK
      <3>5. LocalInv(t)'
        BY <2>2, <2>4, <3>3, <3>4 DEF LocalInv, VersionRead, NothingFetched
      <3> QED
        BY <2>1, <3>5, LocalStep
    <2> QED
      BY <2>3, <2>4 DEF TypeOK
  <1>14. CASE UpdateCheck(t)
    <2>1. CASE Abort(t, "assert size") \/ Abort(t, "assert from")
      BY <2>1, AbortOwn
    <2>2. CASE Updated(t) /\ UNCHANGED <<storeVars, snapshotVersion, applied, started>>
      BY <2>2, UpdatedOwn DEF storeVars
    <2>3. CASE /\ fromVersion[t] + Len(entries[t]) = toVersion[t]
               /\ Goto(t, "us_apply")
               /\ UNCHANGED <<storeVars, clientVars, localVars, histVars>>
      <3> USE <1>0, <1>14, <2>3 DEF UpdateCheck, Goto, storeVars, clientVars, localVars
      <3>1. OthersUnchanged(t)
        BY DEF OthersUnchanged, TypeOK
      <3>2. fromVersion[t] = snapshotVersion[c] /\ pc'[t] = "us_apply"
        BY DEF LocalInv, VersionRead, TypeOK
      <3>3. LocalInv(t)'
        BY <3>2 DEF LocalInv, VersionRead, NothingFetched
      <3> QED
        BY <3>1, <3>3, LocalStep
    <2> QED
      BY <1>14, <2>1, <2>2, <2>3 DEF UpdateCheck
  <1>15. CASE ApplyEntry(t)
    <2> USE <1>0, <1>15 DEF ApplyEntry, Goto, storeVars
    <2>1. OthersUnchanged(t)
      BY DEF OthersUnchanged, TypeOK
    <2>2. /\ entries[t] \in Seq(Entry \cup {NoEntry}) /\ entries[t] # <<>>
          /\ snapshotVersion[c] \in Nat /\ applied[c] \in History
          /\ Continues(log, snapshotVersion[c], entries[t])
          /\ snapshotVersion[c] + Len(entries[t]) = toVersion[t]
      BY DEF LocalInv, TypeOK
    <2>3. /\ Continues(log, snapshotVersion[c] + 1, Tail(entries[t]))
          /\ snapshotVersion[c] + 1 \in Version
          /\ log[snapshotVersion[c] + 1] = Head(entries[t])
          /\ Head(entries[t]) # NoEntry
          /\ Len(Tail(entries[t])) = Len(entries[t]) - 1
          /\ Len(entries[t]) \in Nat \ {0}
      BY <2>2, ContinuesTail
    <2>4. /\ snapshotVersion'[c] = snapshotVersion[c] + 1
          /\ entries'[t] = Tail(entries[t])
          /\ pc'[t] = IF Len(entries[t]) = 1 THEN "us_set" ELSE "us_apply"
          /\ applied'[c] = Append(applied[c], [entry |-> Head(entries[t]),
                                               version |-> snapshotVersion[c] + 1])
          /\ UNCHANGED <<log, dbSnapshot, ret, doing, toVersion, snap>>
      BY DEF TypeOK
    <2>5. LocalInv(t)'
      <3>1. snapshotVersion'[c] + Len(entries'[t]) = toVersion'[t]
        <4>1. Len(entries'[t]) = Len(entries[t]) - 1 /\ toVersion'[t] = toVersion[t]
          BY <2>3, <2>4
        <4>2. (snapshotVersion[c] + 1) + (Len(entries[t]) - 1)
                = snapshotVersion[c] + Len(entries[t])
          <5>1. \A a, b \in Nat : (a + 1) + (b - 1) = a + b
            OBVIOUS
          <5>2. snapshotVersion[c] \in Nat /\ Len(entries[t]) \in Nat
            BY <2>2, <2>3
          <5> QED
            BY <5>1, <5>2
        <4> QED
          BY <2>2, <2>4, <4>1, <4>2
      <3>2. pc'[t] = "us_set" => snapshotVersion'[c] = toVersion'[t]
        BY <2>2, <2>4
      <3>3. pc'[t] \in {"us_set", "us_apply"}
        BY <2>4
      <3> HIDE <1>15
      <3> QED
        BY <2>3, <2>4, <3>1, <3>2, <3>3 DEF LocalInv, VersionRead, NothingFetched
    <2>6. Head(entries[t]) \in Entry \cup {NoEntry}
      BY <2>2, HeadTailProperties
    <2>7. IsReplay(log', applied'[c], snapshotVersion'[c])
      BY <2>2, <2>3, <2>4, <2>6, ReplayAppend
    <2>8. Grows(log, log') /\ NoHoles'
      BY DEF Grows, NoHoles, ReplayInv
    <2> QED
      BY <2>1, <2>4, <2>5, <2>7, <2>8 DEF OwnPart
  <1>16. CASE SetVersion(t)
    <2>1. snapshotVersion' = snapshotVersion
      BY <1>0, <1>16 DEF SetVersion, LocalInv, TypeOK
    <2> QED
      BY <1>16, <2>1, UpdatedOwn DEF SetVersion, storeVars
  <1>17. CASE PutEntryFails(t)
    <2> USE <1>0, <1>17 DEF PutEntryFails, FailWith
    <2>1. CASE UNCHANGED log
      BY <2>1, FailWithOwn
    <2>2. CASE log' # log
      <3> DEFINE v == fromVersion[t] + 1
      <3>1. log[v] = NoEntry /\ log' = [log EXCEPT ![v] = doing[t]] /\ v \in Version
        BY <2>2
      <3>2. Grows(log, log')
        BY <3>1 DEF Grows, TypeOK
      <3>3. LocalInv(t)' /\ OthersUnchanged(t)
        BY ReturnLocal DEF OthersUnchanged, ReplayInv
      <3>4. IsReplay(log', applied[c], snapshotVersion[c])
        BY <3>2, ReplayStable
      <3>5. IsReplay(log', dbSnapshot.applied, dbSnapshot.version)
        BY <3>2, ReplayStable
      <3>6. v = snapshotVersion[c] + 1
        BY DEF LocalInv, VersionRead
      <3>7. NoHoles'
        <4> SUFFICES ASSUME NEW x \in Version, NEW y \in Version, y < x, log'[x] # NoEntry
                     PROVE  log'[y] # NoEntry
          BY DEF NoHoles
        <4>1. CASE x = v
          <5>1. y \in 1 .. snapshotVersion[c]
            BY <3>6, <4>1 DEF Version, TypeOK
          <5> QED
            BY <5>1, <3>4 DEF IsReplay
        <4>2. CASE x # v
          <5>1. log[x] # NoEntry
            BY <3>1, <4>2 DEF TypeOK
          <5>2. log[y] # NoEntry
            BY <5>1 DEF ReplayInv, NoHoles
          <5> QED
            BY <5>2, <3>2 DEF Grows
        <4> QED
          BY <4>1, <4>2
      <3> QED
        BY <3>2, <3>3, <3>4, <3>5, <3>7 DEF OwnPart
    <2> QED
      BY <2>1, <2>2
  <1> QED
    BY <1>1, <1>2, <1>3, <1>5, <1>6, <1>7, <1>8, <1>9, <1>10, <1>11, <1>12,
       <1>13, <1>14, <1>15, <1>16, <1>17 DEF Step

LEMMA InitReplay == Init => ReplayInv
  <1> SUFFICES ASSUME Init PROVE ReplayInv
    OBVIOUS
  <1>1. SnapshotIsReplay
    BY EmptyIsReplay, NoSnapshotIsReplay DEF Init, SnapshotIsReplay
  <1>2. NoHoles
    BY DEF Init, NoHoles
  <1>3. ASSUME NEW t \in Thread PROVE LocalInv(t)
    BY NoSnapshotIsReplay DEF Init, LocalInv, VersionRead
  <1> QED
    BY <1>1, <1>2, <1>3, InitTyped DEF ReplayInv

LEMMA NextReplay == SingleThreaded /\ ReplayInv /\ [Next]_vars => ReplayInv'
  <1> SUFFICES ASSUME SingleThreaded, ReplayInv, [Next]_vars PROVE ReplayInv'
    OBVIOUS
  <1>0. TypeInv /\ TypeOK /\ TypeInv'
    BY NextTyped DEF ReplayInv, TypeInv
  <1>1. ASSUME NEW t \in Thread, Step(t) PROVE ReplayInv'
    BY <1>0, <1>1, StepOwn, OwnPartSuffices
  <1>2. ASSUME NEW t \in Thread, Mount(t) \/ StartOperation(t) \/ StartUpdate(t)
        PROVE  ReplayInv'
    <2> USE <1>0, <1>2 DEF Mount, StartOperation, StartUpdate, Goto, At,
                           storeVars, clientVars, localVars, histVars
    <2>1. OthersUnchanged(t)
      BY DEF OthersUnchanged, TypeOK
    <2>2. /\ pc'[t] \in {"upd_begin", "op_begin"}
          /\ pc'[t] = "op_begin" => doing'[t] \in Entry
          /\ doing'[t] # doing[t] => doing'[t] \in Entry
          /\ UNCHANGED <<log, dbSnapshot, snapshotVersion, applied, ret, entries, snap>>
      BY DEF TypeOK, Entry
    <2>3. entries[t] = <<>> /\ LocalInv(t)
      BY DEF ReplayInv, LocalInv, NothingFetched
    <2>4. LocalInv(t)'
      BY <2>2, <2>3 DEF LocalInv, VersionRead, NothingFetched
    <2> QED
      BY <2>1, <2>2, <2>4, LocalStep, OwnPartSuffices
  <1>3. ASSUME NEW c \in Client, Crash(c) PROVE ReplayInv'
    <2> USE <1>0, <1>3 DEF Crash, Die, storeVars
    <2>1. Grows(log, log') /\ NoHoles'
      BY DEF ReplayInv, Grows, NoHoles
    <2>2. SnapshotIsReplay'
      <3>1. ASSUME NEW d \in Client PROVE IsReplay(log', applied'[d], snapshotVersion'[d])
        BY EmptyIsReplay DEF ReplayInv, SnapshotIsReplay, TypeOK
      <3> QED
        BY <3>1 DEF ReplayInv, SnapshotIsReplay
    <2>3. ASSUME NEW t \in Thread PROVE LocalInv(t)'
      <3>1. CASE ClientOf[t] = c
        <4>1. /\ pc'[t] = "idle" /\ ret'[t] = "caller" /\ entries'[t] = <<>>
              /\ snap'[t] = NoSnapshot
          BY <3>1
        <4> QED
          BY <4>1, NoSnapshotIsReplay DEF LocalInv, VersionRead
      <3>2. CASE ClientOf[t] # c
        <4>1. /\ pc'[t] = pc[t] /\ ret'[t] = ret[t] /\ doing'[t] = doing[t]
              /\ fromVersion'[t] = fromVersion[t] /\ toVersion'[t] = toVersion[t]
              /\ entries'[t] = entries[t] /\ snap'[t] = snap[t]
              /\ snapshotVersion'[ClientOf[t]] = snapshotVersion[ClientOf[t]]
          BY <3>2 DEF TypeOK
        <4>2. LocalInv(t) /\ (pc[t] = "op_version" => fromVersion[t] + 1 \in Version)
          BY DEF ReplayInv, TypeInv, KeyInRange
        <4> QED
          BY <2>1, <4>1, <4>2, LocalInvStable
      <3> QED
        BY <3>1, <3>2
    <2> QED
      BY <2>1, <2>2, <2>3 DEF ReplayInv
  <1>4. CASE UNCHANGED vars
    <2> USE <1>4 DEF vars, storeVars, clientVars, localVars
    <2>1. ASSUME NEW t \in Thread PROVE LocalInv(t)'
      BY DEF ReplayInv, LocalInv
    <2>2. SnapshotIsReplay' /\ NoHoles'
      BY DEF ReplayInv, SnapshotIsReplay, NoHoles
    <2> QED
      BY <1>0, <2>1, <2>2 DEF ReplayInv
  <1> QED
    BY <1>1, <1>2, <1>3, <1>4 DEF Next

\* If every client serves one request at a time, the map of every client and
\* the stored snapshot are at all times the replay of a prefix of the log, for
\* any interleaving of database_operation and database_update, any snapshot
\* interval, failed requests and crashes; and the log has no holes.
THEOREM ReplayCorrect ==
  ASSUME SingleThreaded
  PROVE  Spec => [](SnapshotIsReplay /\ NoHoles)
  <1>1. ReplayInv /\ [Next]_vars => ReplayInv'
    BY NextReplay
  <1>2. ReplayInv => SnapshotIsReplay /\ NoHoles
    BY DEF ReplayInv
  <1> QED
    BY <1>1, <1>2, InitReplay, PTL DEF Spec

\* The same for the log alone: nobody appends behind a missing entry, although
\* the place of the next entry is only known from the local version.
THEOREM NoHolesCorrect ==
  ASSUME SingleThreaded
  PROVE  Spec => []NoHoles
  BY ReplayCorrect, PTL

-----------------------------------------------------------------------------
(* Every operation is logged once.  This needs no assumption on the number *)
(* of threads: an operation that is retried has not been logged, one that  *)
(* goes on to apply its own entry has been.                                *)

Logged(e) == \E v \in Version : log[v] = e

OperationInv(t) ==
    /\ doing[t] <= started
    /\ pc[t] \in {"idle", "op_begin", "op_put", "op_version"} => ret[t] = "caller"
    /\ pc[t] \in {"op_serialize", "op_store"} => ret[t] = "own"
    /\ pc[t] \in {"upd_begin", "upd_version", "upd_probe", "upd_snap", "upd_load",
                  "upd_fetch"} => ret[t] # "own"
    /\ pc[t] \in {"op_begin", "op_put"} \/ ret[t] = "retry" =>
         doing[t] \in Entry /\ ~Logged(doing[t])
    /\ pc[t] = "op_version" \/ ret[t] = "own" =>
         doing[t] \in Entry /\ Logged(doing[t])

LoggedInv ==
    /\ TypeInv
    /\ LoggedOnce
    /\ acked \subseteq Entry
    /\ \A v \in Version : log[v] <= started
    /\ \A t \in Thread : OperationInv(t)
    /\ \A t, u \in Thread : doing[t] = doing[u] /\ doing[t] # NoEntry => t = u

LEMMA InitLogged == Init => LoggedInv
  <1> SUFFICES ASSUME Init PROVE LoggedInv
    OBVIOUS
  <1> USE DEF Init, NoEntry
  <1>1. LoggedOnce /\ \A v \in Version : log[v] <= started
    BY DEF LoggedOnce, Version
  <1>2. ASSUME NEW t \in Thread PROVE OperationInv(t)
    BY DEF OperationInv
  <1> QED
    BY <1>1, <1>2, InitTyped DEF LoggedInv

\* Steps that neither append nor start an operation.
LEMMA LoggedFrame ==
  ASSUME LoggedInv, TypeInv', UNCHANGED <<log, started>>,
         \A e \in acked' : e \in Entry /\ Logged(e),
         \A u \in Thread : \/ pc'[u] = pc[u] /\ ret'[u] = ret[u] /\ doing'[u] = doing[u]
                           \/ doing'[u] \in {doing[u], NoEntry} /\ OperationInv(u)'
  PROVE  LoggedInv'
  <1>1. LoggedOnce'
    BY DEF LoggedInv, LoggedOnce, Logged
  <1>2. \A v \in Version : log'[v] <= started'
    BY DEF LoggedInv
  <1>3. \A u \in Thread : OperationInv(u)'
    BY DEF LoggedInv, OperationInv, Logged
  <1>4. \A t, u \in Thread : doing'[t] = doing'[u] /\ doing'[t] # NoEntry => t = u
    BY DEF LoggedInv
  <1> QED
    BY <1>1, <1>2, <1>3, <1>4 DEF LoggedInv

\* A call that returns has no operation any more.
LEMMA ReturnLogged ==
  ASSUME TypeInv, NEW t \in Thread, Return(t), UNCHANGED started
  PROVE  \A u \in Thread :
            \/ pc'[u] = pc[u] /\ ret'[u] = ret[u] /\ doing'[u] = doing[u]
            \/ doing'[u] \in {doing[u], NoEntry} /\ OperationInv(u)'
  <1>1. /\ pc'[t] = "idle" /\ ret'[t] = "caller" /\ doing'[t] = NoEntry
        /\ \A u \in Thread \ {t} :
              pc'[u] = pc[u] /\ ret'[u] = ret[u] /\ doing'[u] = doing[u]
    BY DEF TypeInv, TypeOK, Return, Goto
  <1>2. OperationInv(t)'
    BY <1>1 DEF OperationInv, NoEntry, TypeInv, TypeOK
  <1> QED
    BY <1>1, <1>2

\* Neither has any thread of a client that dies.
LEMMA DieLogged ==
  ASSUME LoggedInv, TypeInv', NEW c \in Client, NEW why, Die(c, why),
         UNCHANGED <<log, started, acked>>
  PROVE  LoggedInv'
  <1>1. ASSUME NEW u \in Thread
        PROVE  \/ pc'[u] = pc[u] /\ ret'[u] = ret[u] /\ doing'[u] = doing[u]
               \/ doing'[u] \in {doing[u], NoEntry} /\ OperationInv(u)'
    <2>1. CASE ClientOf[u] = c
      <3>1. pc'[u] = "idle" /\ ret'[u] = "caller" /\ doing'[u] = NoEntry
        BY <2>1 DEF Die
      <3>2. OperationInv(u)'
        BY <3>1 DEF OperationInv, NoEntry, LoggedInv, TypeInv, TypeOK
      <3> QED
        BY <3>1, <3>2
    <2>2. CASE ClientOf[u] # c
      BY <2>2 DEF Die
    <2> QED
      BY <2>1, <2>2
  <1> QED
    BY <1>1, LoggedFrame DEF LoggedInv, LoggedOnce, Logged

\* Steps of one thread that keeps its operation.
LEMMA KeepsOperation ==
  ASSUME LoggedInv, TypeInv', NEW t \in Thread, NEW label, NEW r,
         pc' = [pc EXCEPT ![t] = label], ret' = [ret EXCEPT ![t] = r],
         UNCHANGED <<log, started, acked, doing>>,
         pc'[t] = label /\ ret'[t] = r => OperationInv(t)'
  PROVE  LoggedInv'
  <1>1. pc'[t] = label /\ ret'[t] = r
    BY DEF LoggedInv, TypeInv, TypeOK
  <1>2. \A u \in Thread \ {t} :
           pc'[u] = pc[u] /\ ret'[u] = ret[u] /\ doing'[u] = doing[u]
    BY DEF LoggedInv, TypeInv, TypeOK
  <1> QED
    BY <1>1, <1>2, LoggedFrame DEF LoggedInv, LoggedOnce, Logged

\* The operation is acknowledged, retried or goes on to serialize the map.
LEMMA UpdatedLogged ==
  ASSUME LoggedInv, TypeInv', NEW t \in Thread, Updated(t),
         UNCHANGED <<log, started>>
  PROVE  LoggedInv'
  <1>0. OperationInv(t) /\ TypeInv /\ TypeOK
    BY DEF LoggedInv, TypeInv
  <1>1. CASE ret[t] = "caller"
    BY <1>0, <1>1, ReturnLogged, LoggedFrame DEF Updated, LoggedInv, LoggedOnce, Logged
  <1>2. CASE ret[t] = "own" /\ fromVersion[t] % SnapInterval # 0
    <2>1. \A e \in acked' : e \in Entry /\ Logged(e)
      BY <1>0, <1>2 DEF Updated, OperationInv, LoggedInv, LoggedOnce, Logged
    <2> QED
      BY <1>0, <1>2, <2>1, ReturnLogged, LoggedFrame DEF Updated
  <1>3. CASE ret[t] = "retry"
    <2>1. pc'[t] = "op_begin" /\ ret'[t] = "caller" => OperationInv(t)'
      BY <1>0, <1>3 DEF Updated, OperationInv, Logged
    <2> QED
      BY <1>3, <2>1, KeepsOperation DEF Updated, Goto
  <1>4. CASE ret[t] = "own" /\ fromVersion[t] % SnapInterval = 0
    <2>1. pc'[t] = "op_serialize" /\ ret'[t] = ret[t] => OperationInv(t)'
      BY <1>0, <1>4 DEF Updated, OperationInv, Logged, localVars
    <2>2. ret' = [ret EXCEPT ![t] = ret[t]]
      BY <1>0, <1>4 DEF Updated, localVars, TypeOK
    <2> QED
      BY <1>4, <2>1, <2>2, KeepsOperation DEF Updated, Goto, localVars
  <1> QED
    BY <1>1, <1>2, <1>3, <1>4 DEF Updated

\* An entry that no other thread holds goes into a free place of the log.
LEMMA AppendLogged ==
  ASSUME LoggedInv, TypeInv', NEW t \in Thread, NEW v \in Version,
         doing[t] \in Entry, ~Logged(doing[t]), log[v] = NoEntry,
         log' = [log EXCEPT ![v] = doing[t]], UNCHANGED <<started, acked>>,
         \A u \in Thread \ {t} :
            pc'[u] = pc[u] /\ ret'[u] = ret[u] /\ doing'[u] = doing[u],
         doing'[t] \in {doing[t], NoEntry}, OperationInv(t)'
  PROVE  LoggedInv'
  <1>0. /\ TypeOK /\ doing[t] # NoEntry /\ doing[t] <= started
        /\ \A u \in Thread : OperationInv(u)
    BY DEF LoggedInv, TypeInv, OperationInv, Entry, NoEntry
  <1>1. /\ log'[v] = doing[t]
        /\ \A w \in Version \ {v} : log'[w] = log[w]
    BY <1>0 DEF TypeOK
  <1>2. ASSUME NEW e, e # NoEntry, e # doing[t] 
        PROVE  (\E w \in Version : log'[w] = e) <=> Logged(e)
    BY <1>1, <1>2 DEF Logged
  <1>3. LoggedOnce'
    <2>1. \A e \in acked' : \E w \in Version : log'[w] = e
      <3> SUFFICES ASSUME NEW e \in acked PROVE \E w \in Version : log'[w] = e
        OBVIOUS
      <3>1. PICK w \in Version : log[w] = e
        BY DEF LoggedInv, LoggedOnce
      <3>2. e # NoEntry
        BY DEF LoggedInv, Entry, NoEntry
      <3> QED
        BY <3>1, <3>2, <1>1
    <2>2. \A x, y \in Version : log'[x] = log'[y] /\ log'[x] # NoEntry => x = y
      BY <1>1 DEF LoggedInv, LoggedOnce, Logged
    <2> QED
      BY <2>1, <2>2 DEF LoggedOnce
  <1>4. \A w \in Version : log'[w] <= started'
    BY <1>0, <1>1 DEF LoggedInv
  <1>5. ASSUME NEW u \in Thread PROVE OperationInv(u)'
    <2>1. CASE u = t
      BY <2>1
    <2>2. CASE u # t
      <3>1. doing[u] # NoEntry => doing[u] # doing[t]
        BY <2>2 DEF LoggedInv
      <3>2. doing[u] \in Entry => doing[u] # NoEntry
        BY DEF Entry, NoEntry
      <3>3. doing[u] \in Entry => 
              ((\E w \in Version : log'[w] = doing[u]) <=> Logged(doing[u]))
        BY <2>2, <3>1, <3>2, <1>2
      <3> QED
        BY <2>2, <3>3, <1>0 DEF OperationInv, Logged
    <2> QED
      BY <2>1, <2>2
  <1>6. \A x, y \in Thread : doing'[x] = doing'[y] /\ doing'[x] # NoEntry => x = y
    BY DEF LoggedInv
  <1> QED
    BY <1>3, <1>4, <1>5, <1>6 DEF LoggedInv

LEMMA StepLogged ==
  ASSUME LoggedInv, TypeInv', NEW t \in Thread, Step(t)
  PROVE  LoggedInv'
  <1> USE DEF At, Goto, storeVars, clientVars, localVars, histVars
  <1>0. OperationInv(t) /\ TypeInv /\ TypeOK /\ ret = [ret EXCEPT ![t] = ret[t]]
    BY DEF LoggedInv, TypeInv, TypeOK
  <1>1. CASE OpBegin(t)
    <2>1. pc'[t] = "op_put" /\ ret'[t] = ret[t] => OperationInv(t)'
      BY <1>0, <1>1 DEF OpBegin, OperationInv, Logged
    <2> QED
      BY <1>0, <1>1, <2>1, KeepsOperation DEF OpBegin
  <1>2. CASE PutEntryStored(t)
    <2> DEFINE v == fromVersion[t] + 1
    <2> USE <1>2 DEF PutEntryStored
    <2>1. doing[t] \in Entry /\ ~Logged(doing[t])
      BY <1>0 DEF OperationInv
    <2>2. pc'[t] = "op_version" /\ ret'[t] = "caller" /\ log'[v] = doing[t] /\ v \in Version
      BY <1>0 DEF TypeOK, OperationInv
    <2>3. OperationInv(t)'
      BY <1>0, <2>1, <2>2 DEF OperationInv, Logged
    <2> QED
      BY <1>0, <2>1, <2>2, <2>3, AppendLogged DEF TypeOK
  <1>3. CASE PutEntryExists(t)
    <2>1. pc'[t] = "upd_begin" /\ ret'[t] = "retry" => OperationInv(t)'
      BY <1>0, <1>3 DEF PutEntryExists, OperationInv, Logged
    <2> QED
      BY <1>3, <2>1, KeepsOperation DEF PutEntryExists
  <1>4. CASE PutEntryFails(t)
    <2> DEFINE v == fromVersion[t] + 1
    <2>1. Return(t) /\ UNCHANGED <<started, acked>>
      BY <1>4 DEF PutEntryFails, FailWith
    <2>2. CASE UNCHANGED log
      BY <1>0, <2>1, <2>2, ReturnLogged, LoggedFrame DEF LoggedInv, LoggedOnce, Logged
    <2>3. CASE log[v] = NoEntry /\ log' = [log EXCEPT ![v] = doing[t]]
      <3>1. doing[t] \in Entry /\ ~Logged(doing[t]) /\ v \in Version
        BY <1>0, <1>4 DEF OperationInv, PutEntryFails
      <3>2. /\ pc'[t] = "idle" /\ ret'[t] = "caller" /\ doing'[t] = NoEntry
            /\ \A u \in Thread \ {t} :
                  pc'[u] = pc[u] /\ ret'[u] = ret[u] /\ doing'[u] = doing[u]
        BY <1>0, <2>1 DEF TypeOK, Return
      <3>3. OperationInv(t)'
        BY <1>0, <2>1, <3>2 DEF OperationInv, NoEntry, TypeOK
      <3> QED
        BY <2>1, <2>3, <3>1, <3>2, <3>3, AppendLogged
    <2> QED
      BY <1>4, <2>2, <2>3 DEF PutEntryFails
  <1>5. CASE PutVersion(t)
    <2>1. pc'[t] = "us_check" /\ ret'[t] = "own" => OperationInv(t)'
      BY <1>0, <1>5 DEF PutVersion, OperationInv, Logged
    <2> QED
      BY <1>5, <2>1, KeepsOperation DEF PutVersion
  <1>6. CASE SerializeSnapshot(t)
    <2>1. pc'[t] = "op_store" /\ ret'[t] = ret[t] => OperationInv(t)'
      BY <1>0, <1>6 DEF SerializeSnapshot, OperationInv, Logged
    <2> QED
      BY <1>0, <1>6, <2>1, KeepsOperation DEF SerializeSnapshot
  <1>7. CASE PutSnapshot(t)
    <2>1. \A e \in acked' : e \in Entry /\ Logged(e)
      BY <1>0, <1>7 DEF PutSnapshot, OperationInv, LoggedInv, LoggedOnce, Logged
    <2> QED
      BY <1>0, <1>7, <2>1, ReturnLogged, LoggedFrame DEF PutSnapshot
  <1>8. CASE UpdBegin(t) \/ ProbeFound(t) \/ GetSnapshot(t) \/ LoadSnapshot(t)
    <2>1. \E label \in {"upd_version", "upd_snap", "upd_load", "upd_fetch"} :
             pc' = [pc EXCEPT ![t] = label]
      BY <1>8 DEF UpdBegin, ProbeFound, GetSnapshot, LoadSnapshot, AfterVersion
    <2>2. PICK label \in {"upd_version", "upd_snap", "upd_load", "upd_fetch"} :
             pc' = [pc EXCEPT ![t] = label]
      BY <2>1
    <2>3. UNCHANGED <<log, ret, doing, started, acked>>
      BY <1>8 DEF UpdBegin, ProbeFound, GetSnapshot, LoadSnapshot
    <2>4. ret[t] # "own"
      BY <1>0, <1>8 DEF OperationInv, UpdBegin, ProbeFound, GetSnapshot, LoadSnapshot
    <2>5. pc'[t] = label /\ ret'[t] = ret[t] => OperationInv(t)'
      BY <1>0, <2>3, <2>4 DEF OperationInv, Logged
    <2> QED
      BY <1>0, <2>2, <2>3, <2>5, KeepsOperation
  <1>9. CASE GetVersion(t)
    <2>1. CASE Abort(t, "assert dbVersion")
      BY <2>1, DieLogged DEF Abort
    <2>2. CASE ~Abort(t, "assert dbVersion")
      <3>1. \E label \in {"upd_probe", "upd_snap", "upd_fetch"} :
               pc' = [pc EXCEPT ![t] = label]
        BY <1>9, <2>2 DEF GetVersion, AfterVersion
      <3>2. PICK label \in {"upd_probe", "upd_snap", "upd_fetch"} :
               pc' = [pc EXCEPT ![t] = label]
        BY <3>1
      <3>3. UNCHANGED <<log, ret, doing, started, acked>> /\ ret[t] # "own"
        BY <1>0, <1>9, <2>2 DEF GetVersion, OperationInv
      <3>4. pc'[t] = label /\ ret'[t] = ret[t] => OperationInv(t)'
        BY <1>0, <3>3 DEF OperationInv, Logged
      <3> QED
        BY <1>0, <3>2, <3>3, <3>4, KeepsOperation
    <2> QED
      BY <2>1, <2>2
  <1>10. CASE ProbeMissing(t) \/ UpdFails(t)
    <2>1. Return(t) /\ UNCHANGED <<log, started, acked>>
      BY <1>10 DEF ProbeMissing, UpdFails, FailWith
    <2> QED
      BY <1>0, <2>1, ReturnLogged, LoggedFrame DEF LoggedInv, LoggedOnce, Logged
  <1>11. CASE FetchEntry(t) \/ ApplyEntry(t)
    <2>1. \E label \in {"upd_fetch", "us_check", "us_apply", "us_set"} :
             /\ pc' = [pc EXCEPT ![t] = label]
             /\ label = "upd_fetch" => pc[t] = "upd_fetch"
      BY <1>0, <1>11 DEF FetchEntry, ApplyEntry, TypeOK
    <2>2. PICK label \in {"upd_fetch", "us_check", "us_apply", "us_set"} :
             /\ pc' = [pc EXCEPT ![t] = label]
             /\ label = "upd_fetch" => pc[t] = "upd_fetch"
      BY <2>1
    <2>3. UNCHANGED <<log, ret, doing, started, acked>>
      BY <1>11 DEF FetchEntry, ApplyEntry
    <2>4. pc'[t] = label /\ ret'[t] = ret[t] => OperationInv(t)'
      BY <1>0, <2>2, <2>3 DEF OperationInv, Logged
    <2> QED
      BY <1>0, <2>2, <2>3, <2>4, KeepsOperation
  <1>12. CASE UpdateCheck(t)
    <2>1. CASE Abort(t, "assert size") \/ Abort(t, "assert from")
      BY <2>1, DieLogged DEF Abort
    <2>2. CASE Updated(t) /\ UNCHANGED <<log, started>>
      BY <2>2, UpdatedLogged
    <2>3. CASE Goto(t, "us_apply") /\ UNCHANGED <<log, ret, doing, started, acked>>
      <3>1. pc'[t] = "us_apply" /\ ret'[t] = ret[t] => OperationInv(t)'
        BY <1>0, <2>3 DEF OperationInv, Logged
      <3> QED
        BY <1>0, <2>3, <3>1, KeepsOperation
    <2> QED
      BY <1>12, <2>1, <2>2, <2>3 DEF UpdateCheck
  <1>13. CASE SetVersion(t)
    BY <1>13, UpdatedLogged DEF SetVersion
  <1> QED
    BY <1>1, <1>2, <1>3, <1>4, <1>5, <1>6, <1>7, <1>8, <1>9, <1>10, <1>11,
       <1>12, <1>13 DEF Step

LEMMA NextLogged == LoggedInv /\ [Next]_vars => LoggedInv'
  <1> SUFFICES ASSUME LoggedInv, [Next]_vars PROVE LoggedInv'
    OBVIOUS
  <1> USE DEF At, Goto, storeVars, clientVars, localVars, histVars
  <1>0. TypeInv /\ TypeOK /\ TypeInv'
    BY NextTyped DEF LoggedInv, TypeInv
  <1>1. ASSUME NEW t \in Thread, Mount(t) \/ StartUpdate(t) PROVE LoggedInv'
    <2>1. ret = [ret EXCEPT ![t] = ret[t]] /\ OperationInv(t)
      BY <1>0 DEF TypeOK, LoggedInv
    <2>2. pc'[t] = "upd_begin" /\ ret'[t] = ret[t] => OperationInv(t)'
      BY <1>1, <2>1 DEF OperationInv, Logged, Mount, StartUpdate
    <2> QED
      BY <1>0, <1>1, <2>1, <2>2, KeepsOperation DEF Mount, StartUpdate
  <1>2. ASSUME NEW t \in Thread, StartOperation(t) PROVE LoggedInv'
    <2> USE <1>0, <1>2 DEF StartOperation
    <2>1. /\ started' = started + 1 /\ started \in Nat /\ started + 1 \in Entry
          /\ pc'[t] = "op_begin" /\ doing'[t] = started + 1 /\ ret'[t] = "caller"
          /\ \A u \in Thread \ {t} :
                pc'[u] = pc[u] /\ ret'[u] = ret[u] /\ doing'[u] = doing[u]
          /\ \A u \in Thread : OperationInv(u) /\ doing[u] \in Nat
          /\ \A v \in Version : log[v] <= started /\ log[v] \in Nat
          /\ UNCHANGED <<log, acked>>
      BY DEF TypeOK, Entry, NoEntry, LoggedInv, OperationInv
    <2> HIDE <1>2
    <2>2. OperationInv(t)'
      BY <2>1 DEF OperationInv, Logged
    <2>3. ASSUME NEW u \in Thread \ {t} PROVE OperationInv(u)'
      BY <2>1 DEF OperationInv, Logged
    <2>4. \A v \in Version : log'[v] <= started'
      BY <2>1
    <2>5. \A x, y \in Thread : doing'[x] = doing'[y] /\ doing'[x] # NoEntry => x = y
      <3>1. \A x \in Thread \ {t} : doing'[x] # doing'[t]
        BY <2>1 DEF OperationInv
      <3> QED
        BY <2>1, <3>1 DEF LoggedInv
    <2> QED
      BY <2>1, <2>2, <2>3, <2>4, <2>5 DEF LoggedInv, LoggedOnce
  <1>3. ASSUME NEW c \in Client, Crash(c) PROVE LoggedInv'
    BY <1>0, <1>3, DieLogged DEF Crash
  <1>4. CASE UNCHANGED vars
    BY <1>0, <1>4, LoggedFrame DEF vars, LoggedInv, LoggedOnce, Logged
  <1> QED
    BY <1>0, <1>1, <1>2, <1>3, <1>4, StepLogged DEF Next

\* Every operation that returned 0 is in the log and none is there twice, for
\* any number of clients and of threads in each: neither a retry after EEXIST
\* nor a put that failed after it was stored logs an entry a second time.
THEOREM LoggedOnceCorrect == Spec => []LoggedOnce
  <1>1. LoggedInv => LoggedOnce
    BY DEF LoggedInv
  <1> QED
    BY <1>1, InitLogged, NextLogged, PTL DEF Spec

-----------------------------------------------------------------------------
(* Action properties of the replay.                                        *)

\* What a step may do to the maps and the log.
Forward ==
    /\ \A c \in Client :
          clientState'[c] \in {"init", "up"} => snapshotVersion'[c] >= snapshotVersion[c]
    /\ \A v \in Version : log[v] # NoEntry => log'[v] = log[v]

LEMMA NextForward ==
  ASSUME SingleThreaded, ReplayInv, [Next]_vars
  PROVE  Forward
  <1> USE DEF storeVars, clientVars, localVars, histVars
  <1>0. TypeOK /\ (\A c \in Client : snapshotVersion[c] \in Nat)
    BY DEF ReplayInv, TypeInv, TypeOK
  <1>1. ASSUME UNCHANGED <<log, snapshotVersion>> PROVE Forward
    BY <1>0, <1>1 DEF Forward
  <1>2. ASSUME NEW c \in Client, NEW why \in {"down"} \cup Asserts, Die(c, why),
               UNCHANGED log
        PROVE  Forward
    <2>1. clientState'[c] \notin {"init", "up"}
      BY <1>0, <1>2 DEF Die, Asserts, TypeOK
    <2>2. \A d \in Client \ {c} : snapshotVersion'[d] = snapshotVersion[d]
      BY <1>0, <1>2 DEF Die, TypeOK
    <2> QED
      BY <1>0, <1>2, <2>1, <2>2 DEF Forward
  <1>3. ASSUME NEW t \in Thread, Step(t) PROVE Forward
    <2> DEFINE c == ClientOf[t]
    <2>0. OwnPart(t) /\ LocalInv(t) /\ c \in Client
      BY <1>3, StepOwn DEF ReplayInv
    <2>1. CASE clientState'[c] \notin {"init", "up"}
      BY <1>0, <2>0, <2>1 DEF Forward, OwnPart, OthersUnchanged, Grows
    <2>2. CASE snapshotVersion'[c] >= snapshotVersion[c]
      BY <1>0, <2>0, <2>2 DEF Forward, OwnPart, OthersUnchanged, Grows
    <2>3. CASE LoadSnapshot(t)
      <3>1. snapshotVersion'[c] >= snapshotVersion[c]
        BY <1>0, <2>0, <2>3 DEF LoadSnapshot, TypeOK, SnapshotRecord
      <3> QED
        BY <3>1, <2>2
    <2>4. CASE ApplyEntry(t)
      BY <1>0, <2>0, <2>2, <2>4 DEF ApplyEntry, TypeOK
    <2>5. CASE SetVersion(t)
      BY <1>0, <2>0, <2>2, <2>5 DEF SetVersion, TypeOK, LocalInv, At
    <2>6. CASE GetVersion(t) \/ UpdateCheck(t)
      <3>1. CASE \E why \in Asserts : Abort(t, why)
        BY <1>2, <2>0, <3>1 DEF Abort
      <3>2. CASE ~\E why \in Asserts : Abort(t, why)
        <4>1. UNCHANGED snapshotVersion
          BY <2>6, <3>2 DEF GetVersion, UpdateCheck, Asserts
        <4> QED
          BY <1>0, <2>0, <2>2, <4>1
      <3> QED
        BY <3>1, <3>2
    <2>7. CASE UNCHANGED snapshotVersion
      BY <1>0, <2>0, <2>2, <2>7
    <2>8. OpBegin(t) \/ PutEntryStored(t) \/ PutEntryExists(t) \/ PutEntryFails(t)
            \/ PutVersion(t) \/ SerializeSnapshot(t) \/ PutSnapshot(t) \/ UpdBegin(t)
            \/ ProbeFound(t) \/ ProbeMissing(t) \/ GetSnapshot(t) \/ FetchEntry(t)
            \/ UpdFails(t)
          => UNCHANGED snapshotVersion
      BY DEF OpBegin, PutEntryStored, PutEntryExists, PutEntryFails, PutVersion,
             SerializeSnapshot, PutSnapshot, UpdBegin, ProbeFound, ProbeMissing,
             GetSnapshot, FetchEntry, UpdFails, FailWith
    <2> QED
      BY <1>3, <2>3, <2>4, <2>5, <2>6, <2>7, <2>8 DEF Step
  <1>4. ASSUME NEW t \in Thread, Mount(t) \/ StartOperation(t) \/ StartUpdate(t)
        PROVE  Forward
    BY <1>1, <1>4 DEF Mount, StartOperation, StartUpdate
  <1>5. ASSUME NEW c \in Client, Crash(c) PROVE Forward
    BY <1>2, <1>5 DEF Crash
  <1>6. CASE UNCHANGED vars
    BY <1>1, <1>6 DEF vars
  <1> QED
    BY <1>3, <1>4, <1>5, <1>6 DEF Next

\* If every client serves one request at a time, no step takes the map of a
\* running client back to an older version (not the last assignment of
\* updateSnapshot, not an older snapshot that was fetched), and no step
\* replaces an entry that has been stored.
THEOREM OnlyForwardCorrect ==
  ASSUME SingleThreaded
  PROVE  Spec => OnlyForward
  <1>1. ReplayInv /\ [Next]_vars => ReplayInv'
    BY NextReplay
  <1>2. ReplayInv /\ [Next]_vars => [Forward]_vars
    BY NextForward
  <1>3. Spec => [][Forward]_vars
    BY <1>1, <1>2, InitReplay, PTL DEF Spec
  <1> QED
    BY <1>3 DEF OnlyForward, Forward

\* The probe asks for the entry after the version of the map.
ProbesNext == \A t \in Thread : pc[t] = "upd_probe" => toVersion[t] = fromVersion[t]

LEMMA NextProbes ==
  ASSUME TypeInv, ProbesNext, [Next]_vars
  PROVE  ProbesNext'
  <1> SUFFICES ASSUME NEW u \in Thread, pc'[u] = "upd_probe"
               PROVE  toVersion'[u] = fromVersion'[u]
    BY DEF ProbesNext
  <1> USE DEF TypeInv, TypeOK, storeVars, clientVars, localVars, histVars, Goto, At
  <1>1. ASSUME pc'[u] = pc[u], toVersion'[u] = toVersion[u], fromVersion'[u] = fromVersion[u]
        PROVE  toVersion'[u] = fromVersion'[u]
    BY <1>1 DEF ProbesNext
  <1>2. ASSUME NEW c \in Client, NEW why, Die(c, why) PROVE toVersion'[u] = fromVersion'[u]
    BY <1>1, <1>2 DEF Die
  <1>3. ASSUME NEW t \in Thread, Return(t) PROVE toVersion'[u] = fromVersion'[u]
    BY <1>1, <1>3 DEF Return
  <1>4. ASSUME NEW t \in Thread, Updated(t) PROVE toVersion'[u] = fromVersion'[u]
    BY <1>1, <1>3, <1>4 DEF Updated
  <1>5. ASSUME NEW t \in Thread, Step(t) PROVE toVersion'[u] = fromVersion'[u]
    <2>1. CASE OpBegin(t) \/ PutEntryStored(t) \/ PutEntryExists(t) \/ PutVersion(t)
               \/ SerializeSnapshot(t) \/ UpdBegin(t)
      BY <1>1, <2>1 DEF OpBegin, PutEntryStored, PutEntryExists, PutVersion,
                        SerializeSnapshot, UpdBegin
    <2>2. CASE PutEntryFails(t) \/ PutSnapshot(t) \/ ProbeMissing(t) \/ UpdFails(t)
      BY <1>3, <2>2 DEF PutEntryFails, PutSnapshot, ProbeMissing, UpdFails, FailWith
    <2>3. CASE GetVersion(t)
      <3>1. CASE Abort(t, "assert dbVersion")
        BY <1>2, <3>1 DEF Abort
      <3>2. CASE ~Abort(t, "assert dbVersion")
        BY <1>1, <2>3, <3>2 DEF GetVersion, AfterVersion
      <3> QED
        BY <3>1, <3>2
    <2>4. CASE ProbeFound(t) \/ GetSnapshot(t) \/ LoadSnapshot(t)
      BY <1>1, <2>4 DEF ProbeFound, GetSnapshot, LoadSnapshot, AfterVersion
    <2>5. CASE FetchEntry(t) \/ ApplyEntry(t)
      BY <1>1, <2>5 DEF FetchEntry, ApplyEntry
    <2>6. CASE UpdateCheck(t)
      <3>1. CASE \E why \in Asserts : Abort(t, why)
        BY <1>2, <3>1 DEF Abort
      <3>2. CASE Updated(t)
        BY <1>4, <3>2
      <3>3. CASE Goto(t, "us_apply") /\ UNCHANGED <<toVersion, fromVersion>>
        BY <1>1, <3>3
      <3> QED
        BY <2>6, <3>1, <3>2, <3>3 DEF UpdateCheck, Asserts
    <2>7. CASE SetVersion(t)
      BY <1>4, <2>7 DEF SetVersion
    <2> QED
      BY <1>5, <2>1, <2>2, <2>3, <2>4, <2>5, <2>6, <2>7 DEF Step
  <1>6. ASSUME NEW t \in Thread, Mount(t) \/ StartOperation(t) \/ StartUpdate(t)
        PROVE  toVersion'[u] = fromVersion'[u]
    BY <1>1, <1>6 DEF Mount, StartOperation, StartUpdate
  <1>7. CASE UNCHANGED vars
    BY <1>1, <1>7 DEF vars
  <1> QED
    BY <1>2, <1>5, <1>6, <1>7 DEF Next, Crash

\* If every client serves one request at a time, -EALREADY is right: one probe
\* behind a version key that may be outdated is enough, because the log has no
\* holes.
THEOREM EAlreadyCorrect ==
  ASSUME SingleThreaded
  PROVE  Spec => EAlreadyMeansNewest
  <1> DEFINE Newest == \A t \in Thread : ProbeMissing(t) =>
                \A v \in Version : log[v] # NoEntry => v <= getSnapshotVersion(t)
  <1>1. ReplayInv /\ [Next]_vars => ReplayInv'
    BY NextReplay
  <1>2. ReplayInv /\ ProbesNext /\ [Next]_vars => ProbesNext'
    BY NextProbes DEF ReplayInv
  <1>3. ReplayInv /\ ProbesNext => Newest
    <2> SUFFICES ASSUME ReplayInv, ProbesNext, NEW t \in Thread, ProbeMissing(t),
                        NEW v \in Version, log[v] # NoEntry
                 PROVE  v <= getSnapshotVersion(t)
      OBVIOUS
    <2>1. /\ toVersion[t] = snapshotVersion[ClientOf[t]]
          /\ toVersion[t] \in Nat
          /\ toVersion[t] + 1 \in Version => log[toVersion[t] + 1] = NoEntry
      BY DEF ReplayInv, TypeInv, TypeOK, ProbesNext, LocalInv, VersionRead, ProbeMissing, At
    <2>2. CASE v > toVersion[t] + 1
      <3>1. toVersion[t] + 1 \in Version
        BY <2>1, <2>2 DEF Version
      <3> QED
        BY <2>1, <2>2, <3>1 DEF ReplayInv, NoHoles
    <2>3. CASE v = toVersion[t] + 1
      BY <2>1, <2>3
    <2> QED
      BY <2>1, <2>2, <2>3 DEF getSnapshotVersion, Version
  <1>4. Init => ProbesNext
    BY DEF Init, ProbesNext
  <1> HIDE DEF Newest
  <1>5. Spec => [][Newest]_vars
    BY <1>1, <1>2, <1>3, <1>4, InitReplay, PTL DEF Spec
  <1> QED
    BY <1>5 DEF EAlreadyMeansNewest, Newest
=============================================================================
