------------------------- MODULE LookupCacheProofs -------------------------
(***************************************************************************)
(* Proofs about the fill protocol of lookup and about the list and the map *)
(* of the cache, for any number of threads and keys and any capacity.      *)
(***************************************************************************)
EXTENDS LookupCache, SequenceTheorems, FiniteSetTheorems, TLAPS

USE CacheAssumption

-----------------------------------------------------------------------------
(* The part of the state that get, block and add are coordinated with.  A  *)
(* thread that is not idle serves a request on a key.                      *)

ServesOK ==
    /\ pc \in [Thread -> Label]
    /\ op \in [Thread -> AllOps \cup {"none"}]
    /\ key \in [Thread -> Key \cup {"none"}]
    /\ \A t \in Thread : pc[t] # "idle" => op[t] # "none" /\ key[t] \in Key

FillInv == ServesOK /\ BlockedIsFetched

Fetching == {"fetch", "add"}

\* Only thread t moves.
Moves(t) == \A u \in Thread \ {t} : pc'[u] = pc[u] /\ key'[u] = key[u] /\ op'[u] = op[u]

\* A step of t that blocks nothing, and takes t away from its fetch only when
\* it unblocks the key, leaves every blocked key with its fetching thread.
LEMMA OwnKeyOnly ==
  ASSUME FillInv, ServesOK', NEW t \in Thread, Moves(t),
         blocked' \subseteq blocked,
         \/ pc[t] \notin Fetching
         \/ pc'[t] \in Fetching /\ key'[t] = key[t]
         \/ key[t] \notin blocked'
  PROVE  FillInv'
  <1>1. ASSUME NEW k \in blocked'
        PROVE  \E u \in Thread : pc'[u] \in Fetching /\ key'[u] = k
    <2>1. PICK u \in Thread : pc[u] \in Fetching /\ key[u] = k
      BY <1>1 DEF FillInv, BlockedIsFetched, Fetching
    <2>2. CASE u = t
      BY <1>1, <2>1, <2>2
    <2>3. CASE u # t
      BY <2>1, <2>3 DEF Moves
    <2> QED
      BY <2>2, <2>3
  <1> QED
    BY <1>1 DEF FillInv, BlockedIsFetched, Fetching

\* The process ends with nothing blocked.
LEMMA ExitUnblocks ==
  ASSUME Exit
  PROVE  FillInv'
  BY DEF Exit, FillInv, ServesOK, BlockedIsFetched, Label

LEMMA ReturnMoves ==
  ASSUME ServesOK, NEW t \in Thread, Return(t)
  PROVE  ServesOK' /\ Moves(t)
  BY DEF ServesOK, Moves, Return, Goto, Label

LEMMA GotoMoves ==
  ASSUME ServesOK, NEW t \in Thread, pc[t] # "idle", NEW label \in Label, Goto(t, label),
         UNCHANGED <<op, key>>
  PROVE  ServesOK' /\ Moves(t) /\ pc'[t] = label
  BY DEF ServesOK, Moves, Goto

LEMMA ProceedLabels ==
  ASSUME NEW t \in Thread, NEW o,
         op[t] \in AllOps, NEW label \in Proceed(t, o)
  PROVE  label \in Label \ Fetching
  BY DEF Proceed, Label, Fetching, AllOps

-----------------------------------------------------------------------------
LEMMA FillInit == Init => FillInv
  BY DEF Init, FillInv, ServesOK, BlockedIsFetched, Label

LEMMA FillStart ==
  ASSUME FillInv, NEW t \in Thread, NEW k \in Key, NEW o \in Ops, StartRequest(t, k, o)
  PROVE  FillInv'
  <1>1. pc[t] = "idle" /\ blocked' = blocked
    BY DEF StartRequest, cacheVars
  <1>2. ServesOK' /\ Moves(t)
    BY DEF StartRequest, FillInv, ServesOK, Moves, Goto, Label, AllOps
  <1> QED
    BY <1>1, <1>2, OwnKeyOnly DEF Fetching

\* get, block, fetch and add.
LEMMA FillLookup ==
  ASSUME FillInv, NEW t \in Thread,
         \/ GetHit(t) \/ GetMiss(t) \/ Block(t) \/ Fetch(t) \/ FetchFails(t)
         \/ AddItem(t) \/ AddRefusedExits(t)
  PROVE  FillInv'
  <1> USE DEF FillInv
  <1>1. CASE GetHit(t)
    <2>1. pc[t] = "get" /\ blocked' = blocked /\ UNCHANGED <<op, key>>
      BY <1>1 DEF GetHit
    <2>2. PICK label \in Proceed(t, item[key[t]]) : Goto(t, label)
      BY <1>1 DEF GetHit
    <2>3. label \in Label
      BY <2>1, <2>2, ProceedLabels DEF ServesOK
    <2> QED
      BY <2>1, <2>2, <2>3, GotoMoves, OwnKeyOnly DEF Fetching
  <1>2. CASE GetMiss(t)
    <2>1. pc[t] = "get" /\ blocked' = blocked /\ UNCHANGED <<op, key>> /\ Goto(t, "block")
      BY <1>2 DEF GetMiss, threadVars
    <2> QED
      BY <2>1, GotoMoves, OwnKeyOnly DEF Fetching, Label
  <1>3. CASE Block(t)
    <2>1. pc[t] = "block" /\ blocked' = blocked \cup {key[t]} /\ UNCHANGED <<op, key>>
      BY <1>3 DEF Block, threadVars
    <2>2. CASE key[t] \in blocked
      <3>1. Goto(t, "get") /\ blocked' = blocked
        BY <1>3, <2>1, <2>2 DEF Block
      <3> QED
        BY <2>1, <3>1, GotoMoves, OwnKeyOnly DEF Fetching, Label
    <2>3. CASE key[t] \notin blocked
      <3>1. Goto(t, "fetch")
        BY <1>3, <2>3 DEF Block
      <3>2. ServesOK' /\ Moves(t) /\ pc'[t] = "fetch" /\ key'[t] = key[t]
        BY <2>1, <3>1, GotoMoves DEF Label
      <3>3. ASSUME NEW k \in blocked'
            PROVE  \E u \in Thread : pc'[u] \in Fetching /\ key'[u] = k
        <4>1. CASE k = key[t]
          BY <3>2, <4>1 DEF Fetching
        <4>2. CASE k # key[t]
          <5>1. PICK u \in Thread : pc[u] \in Fetching /\ key[u] = k
            BY <2>1, <3>3, <4>2 DEF BlockedIsFetched, Fetching
          <5> QED
            BY <3>2, <4>2, <5>1 DEF Moves
        <4> QED
          BY <4>1, <4>2
      <3> QED
        BY <3>2, <3>3 DEF BlockedIsFetched, Fetching
    <2> QED
      BY <2>2, <2>3
  <1>4. CASE Fetch(t)
    <2>1. pc[t] = "fetch" /\ blocked' = blocked /\ UNCHANGED <<op, key>> /\ Goto(t, "add")
      BY <1>4 DEF Fetch, cacheVars
    <2> QED
      BY <2>1, GotoMoves, OwnKeyOnly DEF Fetching, Label
  <1>5. CASE FetchFails(t)
    <2>1. Return(t) /\ blocked' = blocked \ {key[t]}
      BY <1>5 DEF FetchFails, Invalidate
    <2> QED
      BY <2>1, ReturnMoves, OwnKeyOnly
  <1>6. CASE AddItem(t)
    <2>1. pc[t] = "add" /\ blocked' = blocked \ {key[t]} /\ UNCHANGED <<op, key>>
      BY <1>6 DEF AddItem, Add, threadVars
    <2>2. PICK label \in Proceed(t, mdi[t]) : Goto(t, label)
      BY <1>6 DEF AddItem
    <2>3. label \in Label
      BY <2>1, <2>2, ProceedLabels DEF ServesOK
    <2> QED
      BY <2>1, <2>2, <2>3, GotoMoves, OwnKeyOnly
  <1>7. CASE AddRefusedExits(t)
    BY <1>7, ExitUnblocks DEF AddRefusedExits
  <1> QED
    BY <1>1, <1>2, <1>3, <1>4, <1>5, <1>6, <1>7

\* Every other step of a request blocks nothing and is made by a thread that
\* is not fetching: it goes on, returns or ends the process.
LEMMA FillRequest ==
  ASSUME FillInv, NEW t \in Thread,
         \/ PutRemote(t) \/ PutDone(t) \/ PutStale(t) \/ PutFailed(t)
         \/ CreateEntry(t) \/ InitializeMetadata(t) \/ CreateMetadata(t) \/ CreateFails(t)
         \/ DeleteInvalidate(t) \/ DeleteRemote(t) \/ DeleteEntry(t) \/ DeleteEntryFails(t)
         \/ WriteData(t) \/ SetDirtyData(t) \/ CallFsync(t) \/ Flush(t) \/ Done(t)
  PROVE  FillInv'
  <1>1. CASE CreateFails(t) \/ DeleteEntryFails(t)
    BY <1>1, ExitUnblocks DEF CreateFails, DeleteEntryFails
  <1>2. CASE CallFsync(t)
    <2>1. pc[t] = "sync" /\ blocked' = blocked
      BY <1>2 DEF CallFsync, cacheVars
    <2>2. ServesOK' /\ Moves(t)
      BY <1>2 DEF CallFsync, FillInv, ServesOK, Moves, Goto, Label, AllOps
    <2> QED
      BY <2>1, <2>2, OwnKeyOnly DEF Fetching
  <1>3. ASSUME ~(CreateFails(t) \/ DeleteEntryFails(t)), ~CallFsync(t)
        PROVE  /\ pc[t] \notin Fetching /\ pc[t] # "idle" /\ blocked' \subseteq blocked
               /\ \/ Return(t)
                  \/ UNCHANGED <<op, key>> /\ \E label \in Label : Goto(t, label)
    <2>1. CASE PutRemote(t)
      BY <2>1 DEF PutRemote, cacheVars, Fetching, Label
    <2>2. CASE PutDone(t)
      BY <2>2 DEF PutDone, threadVars, Fetching, Label
    <2>3. CASE PutStale(t)
      BY <2>3 DEF PutStale, Invalidate, threadVars, Fetching, Label
    <2>4. CASE PutFailed(t)
      BY <2>4 DEF PutFailed, Invalidate, threadVars, Fetching, Label
    <2>5. CASE CreateEntry(t)
      BY <2>5 DEF CreateEntry, cacheVars, threadVars, Fetching, Label
    <2>6. CASE InitializeMetadata(t)
      BY <2>6 DEF InitializeMetadata, cacheVars, threadVars, Fetching, Label
    <2>7. CASE CreateMetadata(t)
      BY <2>7 DEF CreateMetadata, cacheVars, Fetching
    <2>8. CASE DeleteInvalidate(t)
      BY <2>8 DEF DeleteInvalidate, Invalidate, threadVars, Fetching, Label
    <2>9. CASE DeleteRemote(t)
      BY <2>9 DEF DeleteRemote, cacheVars, threadVars, Fetching, Label
    <2>10. CASE DeleteEntry(t)
      BY <2>10 DEF DeleteEntry, cacheVars, Fetching
    <2>11. CASE WriteData(t)
      BY <2>11 DEF WriteData, cacheVars, threadVars, Fetching, Label
    <2>12. CASE SetDirtyData(t)
      BY <2>12 DEF SetDirtyData, cacheVars, threadVars, Fetching, Label
    <2>13. CASE Flush(t)
      BY <2>13 DEF Flush, cacheVars, Fetching
    <2>14. CASE Done(t)
      BY <2>14 DEF Done, cacheVars, Fetching
    <2> QED
      BY <1>3, <2>1, <2>2, <2>3, <2>4, <2>5, <2>6, <2>7, <2>8, <2>9, <2>10, <2>11, <2>12,
         <2>13, <2>14
  <1>4. ASSUME ~(CreateFails(t) \/ DeleteEntryFails(t)), ~CallFsync(t)
        PROVE  ServesOK' /\ Moves(t)
    BY <1>3, <1>4, ReturnMoves, GotoMoves DEF FillInv
  <1> QED
    BY <1>1, <1>2, <1>3, <1>4, OwnKeyOnly

LEMMA FillNext == FillInv /\ [Next]_vars => FillInv'
  <1> SUFFICES ASSUME FillInv, [Next]_vars
               PROVE  FillInv'
    OBVIOUS
  <1>1. ASSUME NEW t \in Thread, Step(t)
        PROVE  FillInv'
    BY <1>1, FillLookup, FillRequest DEF Step
  <1>2. ASSUME UNCHANGED <<pc, op, key, blocked>>
        PROVE  FillInv'
    BY <1>2 DEF FillInv, ServesOK, BlockedIsFetched
  <1>3. ASSUME NEW k \in Key, Expire(k) \/ ForeignWrite(k)
        PROVE  FillInv'
    BY <1>2, <1>3 DEF Expire, ForeignWrite, threadVars, cacheVars
  <1>4. CASE Remount \/ AllServed \/ UNCHANGED vars
    BY <1>2, <1>4 DEF Remount, AllServed, vars, threadVars, cacheVars
  <1> QED
    BY <1>1, <1>3, <1>4, FillStart DEF Next

\* Every blocked key has a thread that is fetching it, whatever the threads do
\* and whichever requests fail: each way out of lookup between block and add
\* unblocks the key of the thread that takes it.
THEOREM BlockedIsFetchedCorrect == Spec => []BlockedIsFetched
  <1>1. FillInv => BlockedIsFetched
    BY DEF FillInv
  <1> QED
    BY <1>1, FillInit, FillNext, PTL DEF Spec

-----------------------------------------------------------------------------
(* The loop in add.                                                        *)

LEMMA LeastNat ==
  ASSUME NEW S, S # {}, S \subseteq Nat
  PROVE  \E n \in S : \A k \in S : n <= k
  <1>1. PICK n \in S : \A k \in S : ~(<<k, n>> \in OpToRel(<, Nat))
    BY WFMin, NatLessThanWellFounded
  <1>2. \A k \in S : ~(k < n)
    BY <1>1 DEF OpToRel
  <1> QED
    BY <1>2

\* What the recursive function loop of MakeRoom is.
LEMMA LoopUnfolds ==
  ASSUME NEW list
  PROVE  \E f : /\ f[0] = [list |-> list, at |-> Len(list)]
                /\ \A n \in Nat : f[n + 1] = Visit(f[n])
                /\ MakeRoom(list) = f[Len(list) * Len(list)].list
  <1> DEFINE st == [list |-> list, at |-> Len(list)]
             f == CHOOSE g : g = [n \in Nat |-> IF n = 0 THEN st ELSE Visit(g[n - 1])]
  <1>0. MakeRoom(list) = f[Len(list) * Len(list)].list
    BY Zenon DEF MakeRoom
  <1> HIDE DEF st, f
  <1> DEFINE Run(g, n) == g[0] = st /\ \A i \in 0 .. n - 1 : g[i + 1] = Visit(g[i])
  <1>1. \A n \in Nat : \E g : Run(g, n)
    <2> DEFINE S == {n \in Nat : \A g : ~Run(g, n)}
    <2> SUFFICES ASSUME S # {} PROVE FALSE
      OBVIOUS
    <2>0. S \subseteq Nat
      OBVIOUS
    <2>1. PICK n \in S : \A k \in S : n <= k
      <3> HIDE DEF S
      <3> QED
        BY <2>0, LeastNat
    <2>2. CASE n = 0
      <3>1. Run([i \in {0} |-> st], 0)
        OBVIOUS
      <3> QED
        BY <2>1, <2>2, <3>1
    <2>3. CASE n # 0
      <3>1. n - 1 \in Nat /\ n - 1 \notin S
        <4> HIDE DEF S
        <4> QED
          BY <2>0, <2>1, <2>3
      <3>2. PICK g : Run(g, n - 1)
        BY <3>1
      <3>3. PICK h : h = [i \in 0 .. n |-> IF i < n THEN g[i] ELSE Visit(g[n - 1])]
        OBVIOUS
      <3>4. h[0] = st
        BY <2>3, <3>2, <3>3
      <3>5. ASSUME NEW i \in 0 .. n - 1 PROVE h[i + 1] = Visit(h[i])
        <4>1. CASE i = n - 1
          BY <2>1, <3>3, <4>1
        <4>2. CASE i # n - 1
          <5>1. i \in 0 .. (n - 1) - 1 /\ i + 1 < n /\ i + 1 \in 0 .. n /\ i \in 0 .. n
            BY <2>1, <4>2
          <5>2. g[i + 1] = Visit(g[i])
            BY <3>2, <5>1
          <5> QED
            BY <3>3, <5>1, <5>2
        <4> QED
          BY <4>1, <4>2
      <3> QED
        BY <2>1, <3>4, <3>5
    <2> QED
      BY <2>2, <2>3
  <1>2. ASSUME NEW n \in Nat, NEW g, NEW h, Run(g, n), Run(h, n)
        PROVE  g[n] = h[n]
    <2> DEFINE S == {i \in 0 .. n : g[i] # h[i]}
    <2> SUFFICES ASSUME S # {} PROVE FALSE
      OBVIOUS
    <2>0. S \subseteq Nat
      OBVIOUS
    <2>1. PICK i \in S : \A k \in S : i <= k
      <3> HIDE DEF S
      <3> QED
        BY <2>0, LeastNat
    <2>2. i # 0
      BY <1>2, <2>1
    <2>3. i - 1 \in 0 .. n - 1 /\ i - 1 \notin S /\ i - 1 \in 0 .. n
      BY <2>1, <2>2
    <2>4. g[i - 1] = h[i - 1]
      BY <2>3
    <2>5. g[(i - 1) + 1] = Visit(g[i - 1]) /\ h[(i - 1) + 1] = Visit(h[i - 1])
      BY <1>2, <2>3
    <2> QED
      BY <2>1, <2>4, <2>5
  <1>3. PICK F : F = [n \in Nat |-> (CHOOSE g : Run(g, n))[n]]
    OBVIOUS
  <1>4. \A n \in Nat : \A g : Run(g, n) => F[n] = g[n]
    <2> SUFFICES ASSUME NEW n \in Nat, NEW g, Run(g, n) PROVE F[n] = g[n]
      OBVIOUS
    <2>1. Run(CHOOSE h : Run(h, n), n)
      OBVIOUS
    <2> QED
      BY <1>2, <1>3, <2>1
  <1>5. F[0] = st /\ \A n \in Nat : F[n + 1] = Visit(F[n])
    <2>1. F[0] = st
      <3>1. PICK g : Run(g, 0)
        BY <1>1
      <3> QED
        BY <1>4, <3>1
    <2>2. ASSUME NEW n \in Nat PROVE F[n + 1] = Visit(F[n])
      <3>1. PICK g : Run(g, n + 1)
        <4> HIDE DEF Run
        <4> QED
          BY <1>1
      <3>2. Run(g, n) /\ g[n + 1] = Visit(g[n])
        BY <3>1
      <3> QED
        BY <1>4, <3>1, <3>2
    <2> QED
      BY <2>1, <2>2
  <1>6. F = [n \in Nat |-> IF n = 0 THEN st ELSE Visit(F[n - 1])]
    <2>1. \A n \in Nat : F[n] = IF n = 0 THEN st ELSE Visit(F[n - 1])
      <3> SUFFICES ASSUME NEW n \in Nat, n # 0 PROVE F[n] = Visit(F[n - 1])
        BY <1>5
      <3>1. n - 1 \in Nat /\ (n - 1) + 1 = n
        OBVIOUS
      <3> QED
        BY <1>5, <3>1
    <2> QED
      BY <1>3, <2>1
  <1> HIDE DEF Run
  <1>7. f = [n \in Nat |-> IF n = 0 THEN st ELSE Visit(f[n - 1])]
    BY <1>6, Zenon DEF f
  <1>8. PICK G : G = [n \in Nat |-> IF n = 0 THEN st ELSE Visit(f[n - 1])]
    OBVIOUS
  <1>9. G[0] = st /\ \A n \in Nat : G[n + 1] = Visit(f[n])
    BY <1>8
  <1>10. G = f
    BY <1>7, <1>8, Zenon
  <1>11. MakeRoom(list) = G[Len(list) * Len(list)].list
    BY <1>0, <1>10, Zenon
  <1> QED
    BY <1>9, <1>10, <1>11 DEF st

\* No key is in the list twice.
Distinct(list) == \A i, j \in 1 .. Len(list) : list[i] = list[j] => i = j

LEMMA RangeOfList ==
  ASSUME NEW list \in Seq(Key)
  PROVE  Range(list) = {list[i] : i \in 1 .. Len(list)} /\ Range(list) \subseteq Key
  BY DEF Range

LEMMA RemoveAtEffect ==
  ASSUME NEW list \in Seq(Key), NEW i \in 1 .. Len(list), Distinct(list)
  PROVE  /\ RemoveAt(list, i) \in Seq(Key) /\ Len(RemoveAt(list, i)) = Len(list) - 1
         /\ Distinct(RemoveAt(list, i)) /\ Range(RemoveAt(list, i)) = Range(list) \ {list[i]}
  <1>1. PICK a, b : a = SubSeq(list, 1, i - 1) /\ b = SubSeq(list, i + 1, Len(list))
    OBVIOUS
  <1>2. /\ a \in Seq(Key) /\ Len(a) = i - 1
        /\ \A j \in 1 .. i - 1 : a[j] = list[j]
    BY <1>1, SubSeqProperties, ElementOfSeq
  <1>3. /\ b \in Seq(Key) /\ Len(b) = Len(list) - i
        /\ \A j \in 1 .. Len(list) - i : b[j] = list[i + j]
    BY <1>1, SubSeqProperties, ElementOfSeq
  <1>4. PICK r : r = RemoveAt(list, i)
    OBVIOUS
  <1>5. r = a \o b
    BY <1>1, <1>4 DEF RemoveAt
  <1>6. /\ r \in Seq(Key) /\ Len(r) = Len(list) - 1
        /\ \A j \in 1 .. Len(list) - 1 : r[j] = IF j < i THEN list[j] ELSE list[j + 1]
    <2>1. /\ r \in Seq(Key) /\ Len(r) = Len(a) + Len(b)
          /\ \A j \in 1 .. Len(a) + Len(b) : r[j] = IF j <= Len(a) THEN a[j] ELSE b[j - Len(a)]
      BY <1>2, <1>3, <1>5, ConcatProperties
    <2>2. Len(a) + Len(b) = Len(list) - 1
      BY <1>2, <1>3
    <2>3. ASSUME NEW j \in 1 .. Len(list) - 1 PROVE r[j] = IF j < i THEN list[j] ELSE list[j + 1]
      <3>1. CASE j < i
        BY <1>2, <2>1, <2>2, <3>1
      <3>2. CASE ~(j < i)
        <4>1. j - Len(a) \in 1 .. Len(list) - i /\ i + (j - Len(a)) = j + 1 /\ ~(j <= Len(a))
          BY <1>2, <3>2
        <4>2. b[j - Len(a)] = list[j + 1]
          BY <1>3, <4>1
        <4> QED
          BY <2>1, <2>2, <3>2, <4>1, <4>2
      <3> QED
        BY <3>1, <3>2
    <2> QED
      BY <2>1, <2>2, <2>3
  <1>7. Distinct(r)
    BY <1>6 DEF Distinct
  <1>8. Range(r) = Range(list) \ {list[i]}
    <2>1. Range(r) \subseteq Range(list) \ {list[i]}
      <3> SUFFICES ASSUME NEW j \in 1 .. Len(list) - 1 PROVE r[j] \in Range(list) \ {list[i]}
        BY <1>6, RangeOfList
      <3>1. CASE j < i
        BY <1>6, <3>1, RangeOfList DEF Distinct
      <3>2. CASE ~(j < i)
        BY <1>6, <3>2, RangeOfList DEF Distinct
      <3> QED
        BY <3>1, <3>2
    <2>2. ASSUME NEW j \in 1 .. Len(list), j # i PROVE list[j] \in Range(r)
      <3>1. CASE j < i
        BY <1>6, <3>1, RangeOfList
      <3>2. CASE ~(j < i)
        <4>1. j - 1 \in 1 .. Len(list) - 1 /\ ~(j - 1 < i) /\ (j - 1) + 1 = j
          BY <2>2, <3>2
        <4>2. r[j - 1] = list[j] /\ j - 1 \in 1 .. Len(r)
          BY <1>6, <4>1
        <4> QED
          BY <1>6, <4>2, RangeOfList
      <3> QED
        BY <3>1, <3>2
    <2> QED
      BY <2>1, <2>2, RangeOfList
  <1> QED
    BY <1>4, <1>6, <1>7, <1>8

LEMMA WithoutEffect ==
  ASSUME NEW list \in Seq(Key), NEW k \in Key, Distinct(list)
  PROVE  /\ Without(list, k) \in Seq(Key) /\ Distinct(Without(list, k))
         /\ Range(Without(list, k)) = Range(list) \ {k}
  <1>1. CASE k \notin Range(list)
    BY <1>1 DEF Without
  <1>2. CASE k \in Range(list)
    <2>1. PICK i : i = CHOOSE j \in DOMAIN list : list[j] = k
      OBVIOUS
    <2>2. i \in 1 .. Len(list) /\ list[i] = k
      BY <1>2, <2>1, RangeOfList
    <2>3. Without(list, k) = RemoveAt(list, i)
      BY <1>2, <2>1 DEF Without
    <2> QED
      BY <2>2, <2>3, RemoveAtEffect
  <1> QED
    BY <1>1, <1>2

LEMMA InFront ==
  ASSUME NEW list \in Seq(Key), NEW k \in Key, Distinct(list), k \notin Range(list)
  PROVE  /\ <<k>> \o list \in Seq(Key) /\ Distinct(<<k>> \o list)
         /\ Range(<<k>> \o list) = Range(list) \cup {k}
  <1>1. PICK r : r = <<k>> \o list
    OBVIOUS
  <1>2. /\ r \in Seq(Key) /\ Len(r) = Len(list) + 1 /\ r[1] = k
        /\ \A j \in 1 .. Len(list) : r[j + 1] = list[j]
    BY <1>1, ConcatProperties
  <1>3. \A j \in 2 .. Len(r) : r[j] = list[j - 1] /\ r[j] \in Range(list) /\ j - 1 \in 1 .. Len(list)
    <2> SUFFICES ASSUME NEW j \in 2 .. Len(r)
                 PROVE  r[j] = list[j - 1] /\ r[j] \in Range(list) /\ j - 1 \in 1 .. Len(list)
      OBVIOUS
    <2>1. j - 1 \in 1 .. Len(list) /\ (j - 1) + 1 = j
      BY <1>2
    <2> QED
      BY <1>2, <2>1, RangeOfList
  <1>4. Distinct(r)
    <2> SUFFICES ASSUME NEW i \in 1 .. Len(r), NEW j \in 1 .. Len(r), r[i] = r[j] PROVE i = j
      BY DEF Distinct
    <2>1. CASE i = 1 \/ j = 1
      BY <1>2, <1>3, <2>1
    <2>2. CASE i # 1 /\ j # 1
      <3>1. i \in 2 .. Len(r) /\ j \in 2 .. Len(r)
        BY <1>2, <2>2
      <3>2. list[i - 1] = list[j - 1] /\ i - 1 \in 1 .. Len(list) /\ j - 1 \in 1 .. Len(list)
        BY <1>3, <3>1
      <3>3. i - 1 = j - 1
        BY <3>2 DEF Distinct
      <3> QED
        BY <3>3
    <2> QED
      BY <2>1, <2>2
  <1>5. Range(r) = Range(list) \cup {k}
    <2>1. Range(r) \subseteq Range(list) \cup {k}
      <3> SUFFICES ASSUME NEW j \in 1 .. Len(r) PROVE r[j] \in Range(list) \cup {k}
        BY <1>2, RangeOfList
      <3>1. j = 1 \/ j \in 2 .. Len(r)
        BY <1>2
      <3> QED
        BY <1>2, <1>3, <3>1
    <2>2. k \in Range(r)
      BY <1>2, RangeOfList
    <2>3. ASSUME NEW j \in 1 .. Len(list) PROVE list[j] \in Range(r)
      <3>1. j + 1 \in 1 .. Len(r)
        BY <1>2
      <3> QED
        BY <1>2, <3>1, RangeOfList
    <2> QED
      BY <2>1, <2>2, <2>3, RangeOfList
  <1> QED
    BY <1>1, <1>2, <1>4, <1>5

\* A pass through the loop takes at most one clean item out.
Sublist(st, list) ==
    /\ st.list \in Seq(Key) /\ Distinct(st.list) /\ st.at \in 0 .. Len(st.list)
    /\ Range(st.list) \subseteq Range(list)
    /\ \A k \in Range(list) : Dirty(item[k]) => k \in Range(st.list)

LEMMA VisitEffect ==
  ASSUME NEW list \in Seq(Key), NEW st, Sublist(st, list)
  PROVE  Sublist(Visit(st), list)
  <1>0. /\ st.list \in Seq(Key) /\ Distinct(st.list) /\ st.at \in 0 .. Len(st.list)
        /\ Range(st.list) \subseteq Range(list) /\ Len(st.list) \in Nat
    BY DEF Sublist
  <1>1. CASE st.at = 0 \/ Len(st.list) < Capacity
    BY <1>1 DEF Visit
  <1>2. CASE ~(st.at = 0 \/ Len(st.list) < Capacity) /\ Dirty(item[st.list[st.at]])
    <2>1. Visit(st) = [st EXCEPT !.at = st.at - 1]
      BY <1>2 DEF Visit
    <2>2. st.at - 1 \in 0 .. Len(st.list)
      BY <1>0, <1>2
    <2>3. Visit(st).list = st.list
      BY <2>1
    <2> QED
      BY <2>1, <2>2, <2>3 DEF Sublist
  <1>3. CASE ~(st.at = 0 \/ Len(st.list) < Capacity) /\ ~Dirty(item[st.list[st.at]])
    <2>1. PICK r : r = RemoveAt(st.list, st.at)
      OBVIOUS
    <2>2. st.at \in 1 .. Len(st.list)
      BY <1>0, <1>3
    <2>3. /\ r \in Seq(Key) /\ Len(r) = Len(st.list) - 1 /\ Distinct(r)
          /\ Range(r) = Range(st.list) \ {st.list[st.at]}
      BY <1>0, <2>1, <2>2, RemoveAtEffect
    <2>4. Visit(st) = [list |-> r, at |-> IF st.at = 1 THEN Len(st.list) - 1 ELSE st.at - 2]
      BY <1>3, <2>1 DEF Visit
    <2>5. (IF st.at = 1 THEN Len(st.list) - 1 ELSE st.at - 2) \in 0 .. Len(r)
      BY <2>2, <2>3
    <2> QED
      BY <1>0, <1>3, <2>3, <2>4, <2>5 DEF Sublist
  <1> QED
    BY <1>1, <1>2, <1>3

\* add makes room with clean items only, and the list stays one.
LEMMA MakeRoomEffect ==
  ASSUME NEW list \in Seq(Key), Distinct(list)
  PROVE  /\ MakeRoom(list) \in Seq(Key) /\ Distinct(MakeRoom(list))
         /\ Range(MakeRoom(list)) \subseteq Range(list)
         /\ \A k \in Range(list) : Dirty(item[k]) => k \in Range(MakeRoom(list))
  <1>1. PICK f : /\ f[0] = [list |-> list, at |-> Len(list)]
                 /\ \A n \in Nat : f[n + 1] = Visit(f[n])
                 /\ MakeRoom(list) = f[Len(list) * Len(list)].list
    BY LoopUnfolds
  <1>2. \A n \in Nat : Sublist(f[n], list)
    <2> DEFINE S == {n \in Nat : ~Sublist(f[n], list)}
    <2> SUFFICES ASSUME S # {} PROVE FALSE
      OBVIOUS
    <2>1. S \subseteq Nat
      OBVIOUS
    <2>2. PICK n \in S : \A k \in S : n <= k
      <3> HIDE DEF S
      <3> QED
        BY <2>1, LeastNat
    <2>3. n # 0
      <3>1. f[0].list = list /\ f[0].at = Len(list)
        BY <1>1
      <3>2. Sublist(f[0], list)
        BY <3>1 DEF Sublist
      <3> QED
        BY <2>2, <3>2
    <2>4. n - 1 \in Nat /\ n - 1 \notin S /\ (n - 1) + 1 = n
      <3> HIDE DEF S
      <3> QED
        BY <2>1, <2>2, <2>3
    <2>5. Sublist(f[n - 1], list) /\ f[n] = Visit(f[n - 1])
      BY <1>1, <2>4
    <2>6. Sublist(f[n], list)
      BY <2>5, VisitEffect
    <2> QED
      BY <2>2, <2>6
  <1>3. Len(list) * Len(list) \in Nat
    OBVIOUS
  <1> QED
    BY <1>1, <1>2, <1>3 DEF Sublist

-----------------------------------------------------------------------------
(* The invariant of the whole client.                                      *)

\* List and hash map have the same keys.
CacheOK ==
    /\ lru \in Seq(Key) /\ Distinct(lru)
    /\ item \in [Key -> Object \cup {NoObject}]
    /\ Range(lru) = {k \in Key : Cached(k)}
    /\ outdated \subseteq Range(lru) /\ blocked \subseteq Key

ObjectsOK ==
    /\ version \in [Object -> 0 .. MaxWrites]
    /\ live \subseteq Object
    /\ dirtyData \in [Object -> Key \cup {"none"}]
    /\ updates \subseteq Key

\* What is added or initialized is an object; a request writes a version once.
HeldOK ==
    /\ mdi \in [Thread -> Object \cup {NoObject}]
    /\ written \in [Thread -> 0 .. MaxWrites]
    /\ \A t \in Thread : pc[t] \in {"add", "entry", "init"} => mdi[t] # NoObject
    /\ \A t \in Thread : pc[t] \notin {"putdone", "flush"} => written[t] = 0

\* The requests that may still write a version have room for it.
Pending == {t \in Thread : op[t] # "none" /\ written[t] = 0}
DrivesOK ==
    /\ store \in [Key -> 0 .. MaxWrites]
    /\ entries \subseteq Key
    /\ writes \in 1 .. MaxWrites
    /\ writes + Cardinality(Pending) <= MaxWrites

ClientInv ==
    /\ FillInv /\ CacheOK /\ ObjectsOK /\ HeldOK /\ DrivesOK
    /\ started \in 0 .. MaxOps /\ exits \in BOOLEAN

LEMMA NoObjectIsNone == NoObject \notin Object
  BY DEF NoObject, Object

\* There is always a MetadataInfo that nobody refers to.
LEMMA FreeObjectExists ==
  ASSUME item \in [Key -> Object \cup {NoObject}], mdi \in [Thread -> Object \cup {NoObject}]
  PROVE  FreeObject \in Object
  <1> DEFINE I == {item[k] : k \in Key}
             M == {mdi[t] : t \in Thread}
  <1>1. item \in Surjection(Key, I) /\ mdi \in Surjection(Thread, M)
    BY DEF Surjection
  <1>2. /\ IsFiniteSet(I) /\ Cardinality(I) <= Cardinality(Key)
        /\ IsFiniteSet(M) /\ Cardinality(M) <= Cardinality(Thread)
    BY <1>1, FS_Surjection
  <1> HIDE DEF I, M
  <1>3. /\ IsFiniteSet(I \cup M) /\ Cardinality(I \cup M) <= Cardinality(I) + Cardinality(M)
    <2>1. IsFiniteSet(I \cap M)
      BY <1>2, FS_Subset
    <2>2. Cardinality(I \cap M) \in Nat /\ Cardinality(I) \in Nat /\ Cardinality(M) \in Nat
      BY <1>2, <2>1, FS_CardinalityType
    <2> QED
      BY <1>2, <2>2, FS_Union
  <1>4. /\ Cardinality(Key) \in Nat /\ Cardinality(Thread) \in Nat
        /\ Cardinality(I) \in Nat /\ Cardinality(M) \in Nat /\ Cardinality(I \cup M) \in Nat
    BY <1>2, <1>3, FS_CardinalityType
  <1>5. Cardinality(Object) = Cardinality(Thread) + Cardinality(Key) + 1
    <2>1. PICK n \in Nat : n = Cardinality(Thread) + Cardinality(Key) + 1
      BY <1>4
    <2>2. Object = 1 .. n /\ n >= 1
      BY <1>4, <2>1 DEF Object
    <2>3. Cardinality(1 .. n) = IF 1 > n THEN 0 ELSE n - 1 + 1
      BY FS_Interval
    <2> QED
      BY <2>1, <2>2, <2>3
  <1>6. ~(Object \subseteq I \cup M)
    <2> SUFFICES ASSUME Object \subseteq I \cup M PROVE FALSE
      OBVIOUS
    <2>1. Cardinality(Object) <= Cardinality(I \cup M)
      BY <1>3, FS_Subset
    <2> QED
      BY <1>2, <1>3, <1>4, <1>5, <2>1
  <1>7. PICK o \in Object : o \notin I /\ o \notin M
    BY <1>6
  <1>8. ~Referenced(o)
    BY <1>7 DEF Referenced, I, M
  <1> QED
    BY <1>8 DEF FreeObject

-----------------------------------------------------------------------------
(* List and hash map.                                                      *)

LEMMA RemoveKeepsList ==
  ASSUME CacheOK, NEW k \in Key, RemoveItem(k), blocked' \subseteq Key
  PROVE  CacheOK'
  <1>1. lru' \in Seq(Key) /\ Distinct(lru') /\ Range(lru') = Range(lru) \ {k}
    BY WithoutEffect DEF CacheOK, RemoveItem
  <1>2. item' \in [Key -> Object \cup {NoObject}] /\ \A x \in Key : item'[x] = IF x = k THEN NoObject ELSE item[x]
    BY DEF CacheOK, RemoveItem
  <1>3. Range(lru') = {x \in Key : Cached(x)'}
    BY <1>1, <1>2 DEF CacheOK, Cached
  <1>4. outdated' \subseteq Range(lru')
    BY <1>1 DEF CacheOK, RemoveItem
  <1> QED
    BY <1>1, <1>2, <1>3, <1>4 DEF CacheOK

LEMMA InvalidateKeepsList ==
  ASSUME CacheOK, NEW k \in Key, Invalidate(k)
  PROVE  CacheOK'
  BY RemoveKeepsList DEF Invalidate, CacheOK

LEMMA HitKeepsList ==
  ASSUME CacheOK, NEW k \in Key, Cached(k), lru' = <<k>> \o Without(lru, k),
         UNCHANGED <<item, outdated, blocked>>
  PROVE  CacheOK'
  <1>1. /\ Without(lru, k) \in Seq(Key) /\ Distinct(Without(lru, k))
        /\ Range(Without(lru, k)) = Range(lru) \ {k}
    BY WithoutEffect DEF CacheOK
  <1>2. lru' \in Seq(Key) /\ Distinct(lru') /\ Range(lru') = (Range(lru) \ {k}) \cup {k}
    BY <1>1, InFront
  <1>3. Range(lru') = Range(lru)
    BY <1>2 DEF CacheOK
  <1> QED
    BY <1>2, <1>3 DEF CacheOK, Cached

LEMMA AddKeepsList ==
  ASSUME CacheOK, NEW k \in Key, NEW o \in Object, Add(k, o)
  PROVE  /\ CacheOK'
         /\ \A x \in Key : x # k /\ Cached(x) /\ Dirty(item[x]) => item'[x] = item[x]
  <1>1. PICK list, room : list = Without(lru, k) /\ room = MakeRoom(list)
    OBVIOUS
  <1>2. list \in Seq(Key) /\ Distinct(list) /\ Range(list) = Range(lru) \ {k}
    BY <1>1, WithoutEffect DEF CacheOK
  <1>3. /\ room \in Seq(Key) /\ Distinct(room) /\ Range(room) \subseteq Range(list)
        /\ \A x \in Range(list) : Dirty(item[x]) => x \in Range(room)
    BY <1>1, <1>2, MakeRoomEffect
  <1>4. /\ lru' = <<k>> \o room
        /\ item' = [x \in Key |-> IF x = k THEN o ELSE IF x \in Range(room) THEN item[x] ELSE NoObject]
        /\ outdated' = (outdated \cap Range(room)) \ {k} /\ blocked' = blocked \ {k}
    BY <1>1 DEF Add
  <1>5. lru' \in Seq(Key) /\ Distinct(lru') /\ Range(lru') = Range(room) \cup {k}
    BY <1>2, <1>3, <1>4, InFront
  <1>6. item' \in [Key -> Object \cup {NoObject}]
    BY <1>4 DEF CacheOK
  <1>7. Range(lru') = {x \in Key : Cached(x)'}
    BY <1>2, <1>3, <1>4, <1>5, NoObjectIsNone DEF CacheOK, Cached
  <1>8. CacheOK'
    BY <1>4, <1>5, <1>6, <1>7 DEF CacheOK
  <1>9. \A x \in Key : x # k /\ Cached(x) /\ Dirty(item[x]) => item'[x] = item[x]
    BY <1>2, <1>3, <1>4 DEF CacheOK
  <1> QED
    BY <1>8, <1>9

LEMMA CacheStays ==
  ASSUME CacheOK, UNCHANGED cacheVars
  PROVE  CacheOK'
  BY DEF CacheOK, cacheVars, Cached

LEMMA ObjectsStay ==
  ASSUME ObjectsOK, UNCHANGED objectVars
  PROVE  ObjectsOK'
  BY DEF ObjectsOK, objectVars

-----------------------------------------------------------------------------
(* Ways to go on.                                                          *)

LEMMA PendingShrinks ==
  ASSUME DrivesOK, writes' = writes, Pending' \subseteq Pending
  PROVE  writes' \in 1 .. MaxWrites /\ writes' + Cardinality(Pending') <= MaxWrites
  <1>1. IsFiniteSet(Pending)
    BY FS_Subset DEF Pending
  <1>2. IsFiniteSet(Pending') /\ Cardinality(Pending') <= Cardinality(Pending)
    BY <1>1, FS_Subset
  <1>3. Cardinality(Pending) \in Nat /\ Cardinality(Pending') \in Nat
    BY <1>1, <1>2, FS_CardinalityType
  <1> QED
    BY <1>2, <1>3 DEF DrivesOK

\* A version is written by a request that may, and does not any more.
LEMMA PendingWrites ==
  ASSUME DrivesOK, NEW t \in Pending, writes' = writes + 1, Pending' \subseteq Pending \ {t}
  PROVE  writes + 1 \in 1 .. MaxWrites /\ writes' + Cardinality(Pending') <= MaxWrites
  <1>1. IsFiniteSet(Pending)
    BY FS_Subset DEF Pending
  <1>2. IsFiniteSet(Pending \ {t}) /\ Cardinality(Pending \ {t}) = Cardinality(Pending) - 1
    BY <1>1, FS_RemoveElement
  <1>3. IsFiniteSet(Pending') /\ Cardinality(Pending') <= Cardinality(Pending \ {t})
    BY <1>2, FS_Subset
  <1>4. Cardinality(Pending) \in Nat /\ Cardinality(Pending') \in Nat
    BY <1>1, <1>3, FS_CardinalityType
  <1> QED
    BY <1>2, <1>3, <1>4 DEF DrivesOK

LEMMA Goes ==
  ASSUME ClientInv, FillInv', CacheOK', ObjectsOK', NEW t \in Thread, pc[t] # "idle",
         NEW label \in Label \ {"add"}, Goto(t, label),
         pc[t] \notin {"putdone", "flush"} \/ label \in {"putdone", "flush"},
         NEW o \in Object \cup {NoObject}, mdi' = [mdi EXCEPT ![t] = o],
         label \in {"entry", "init"} => o # NoObject,
         op' = op \/ op' = [op EXCEPT ![t] = "fsync"],
         UNCHANGED <<written, store, writes, started, exits>>, entries' \subseteq Key
  PROVE  ClientInv'
  <1>1. HeldOK'
    BY DEF ClientInv, HeldOK, Goto, FillInv, ServesOK
  <1>2. Pending' \subseteq Pending
    BY DEF Pending, ClientInv, FillInv, ServesOK
  <1>3. DrivesOK'
    BY <1>2, PendingShrinks DEF ClientInv, DrivesOK
  <1> QED
    BY <1>1, <1>3 DEF ClientInv

LEMMA GoesOn ==
  ASSUME ClientInv, FillInv', CacheOK', ObjectsOK', NEW t \in Thread, pc[t] # "idle",
         NEW label \in Label \ {"add"}, Goto(t, label),
         pc[t] \notin {"putdone", "flush"} \/ label \in {"putdone", "flush"},
         label \in {"entry", "init"} => mdi[t] # NoObject,
         UNCHANGED <<threadVars, store, writes, started, exits>>, entries' \subseteq Key
  PROVE  ClientInv'
  <1>1. mdi[t] \in Object \cup {NoObject} /\ mdi' = [mdi EXCEPT ![t] = mdi[t]]
    BY DEF ClientInv, HeldOK, threadVars
  <1>2. op' = op /\ written' = written /\ UNCHANGED <<written, store, writes, started, exits>>
    BY DEF threadVars
  <1> QED
    BY <1>1, <1>2, Goes

LEMMA HeldReturns ==
  ASSUME ClientInv, NEW t \in Thread, Return(t)
  PROVE  HeldOK' /\ Pending' \subseteq Pending \ {t}
  <1>1. HeldOK'
    BY DEF ClientInv, HeldOK, Return, Goto, FillInv, ServesOK
  <1>2. Pending' \subseteq Pending \ {t}
    BY DEF Pending, Return, ClientInv, FillInv, ServesOK, HeldOK
  <1> QED
    BY <1>1, <1>2

LEMMA Returns ==
  ASSUME ClientInv, FillInv', CacheOK', ObjectsOK', NEW t \in Thread, Return(t),
         UNCHANGED <<writes, started, exits>>, entries' \subseteq Key, store' \in [Key -> 0 .. MaxWrites]
  PROVE  ClientInv'
  <1>1. HeldOK' /\ Pending' \subseteq Pending
    BY HeldReturns
  <1>2. DrivesOK'
    BY <1>1, PendingShrinks DEF ClientInv, DrivesOK
  <1> QED
    BY <1>1, <1>2 DEF ClientInv

LEMMA ProcessEnds ==
  ASSUME ClientInv, Exit, UNCHANGED <<driveVars, started>>
  PROVE  ClientInv' /\ exits'
  <1>1. FillInv'
    BY ExitUnblocks
  <1>2. HeldOK' /\ ObjectsOK'
    BY DEF Exit, HeldOK, ObjectsOK
  <1>3. CacheOK'
    <2>1. lru' = <<>> /\ \A k \in Key : ~Cached(k)'
      BY DEF Exit, Cached
    <2>2. lru' \in Seq(Key) /\ Distinct(lru') /\ Range(lru') = {}
      BY <2>1 DEF Distinct, Range
    <2> QED
      BY <2>1, <2>2 DEF CacheOK, Exit
  <1>4. Pending' \subseteq Pending /\ writes' = writes /\ store' = store /\ entries' = entries
    BY DEF Exit, Pending, driveVars
  <1>5. DrivesOK'
    BY <1>4, PendingShrinks DEF ClientInv, DrivesOK
  <1>6. exits' = TRUE
    BY DEF Exit
  <1> QED
    BY <1>1, <1>2, <1>3, <1>5, <1>6 DEF ClientInv

-----------------------------------------------------------------------------
(* The steps.                                                              *)

LEMMA ClientInit == Init => ClientInv
  <1> SUFFICES ASSUME Init PROVE ClientInv
    OBVIOUS
  <1>1. FillInv
    BY FillInit
  <1>2. HeldOK /\ ObjectsOK
    BY DEF Init, HeldOK, ObjectsOK
  <1>3. CacheOK
    <2>1. lru = <<>> /\ \A k \in Key : ~Cached(k)
      BY DEF Init, Cached
    <2>2. lru \in Seq(Key) /\ Distinct(lru) /\ Range(lru) = {}
      BY <2>1 DEF Distinct, Range
    <2> QED
      BY <2>1, <2>2 DEF CacheOK, Init
  <1>4. DrivesOK
    <2>1. Pending = {}
      BY DEF Pending, Init
    <2>2. Cardinality(Pending) = 0
      BY <2>1, FS_EmptySet
    <2> QED
      BY <2>2 DEF DrivesOK, Init
  <1>5. started \in 0 .. MaxOps /\ exits \in BOOLEAN
    <2>1. started \in 0 .. MaxOps
      BY DEF Init
    <2>2. exits \in BOOLEAN
      BY Zenon DEF Init
    <2> QED
      BY <2>1, <2>2
  <1> QED
    BY <1>1, <1>2, <1>3, <1>4, <1>5 DEF ClientInv

LEMMA ClientStart ==
  ASSUME ClientInv, NEW t \in Thread, NEW k \in Key, NEW o \in Ops, StartRequest(t, k, o)
  PROVE  ClientInv'
  <1>1. FillInv'
    BY FillStart DEF ClientInv
  <1>2. CacheOK' /\ ObjectsOK'
    BY CacheStays, ObjectsStay DEF ClientInv, StartRequest
  <1>3. HeldOK'
    BY DEF ClientInv, HeldOK, StartRequest, Goto, FillInv, ServesOK
  <1>4. DrivesOK'
    <2> DEFINE A == {u \in Thread : op[u] # "none"}
    <2>1. IsFiniteSet(A) /\ IsFiniteSet(Pending) /\ Cardinality(Pending) <= Cardinality(A)
      <3>1. IsFiniteSet(A)
        BY FS_Subset
      <3>2. Pending \in SUBSET A
        BY DEF Pending
      <3> HIDE DEF A
      <3> QED
        BY <3>1, <3>2, FS_Subset
    <2>2. writes + Cardinality(A) < MaxWrites
      BY DEF StartRequest, WritesLeft
    <2> HIDE DEF A
    <2>3. Pending' \subseteq Pending \cup {t}
      BY DEF Pending, StartRequest, ClientInv, FillInv, ServesOK
    <2>4. /\ IsFiniteSet(Pending \cup {t})
          /\ Cardinality(Pending \cup {t}) = IF t \in Pending THEN Cardinality(Pending) ELSE Cardinality(Pending) + 1
      BY <2>1, FS_AddElement
    <2>5. IsFiniteSet(Pending') /\ Cardinality(Pending') <= Cardinality(Pending \cup {t})
      BY <2>3, <2>4, FS_Subset
    <2>6. Cardinality(Pending) \in Nat /\ Cardinality(Pending') \in Nat /\ Cardinality(A) \in Nat
      BY <2>1, <2>5, FS_CardinalityType
    <2>7. writes' = writes /\ store' = store /\ entries' = entries
      BY DEF StartRequest, driveVars
    <2>8. writes' + Cardinality(Pending') <= MaxWrites
      BY <2>1, <2>2, <2>4, <2>5, <2>6, <2>7 DEF ClientInv, DrivesOK
    <2> QED
      BY <2>7, <2>8 DEF ClientInv, DrivesOK
  <1>5. started' \in 0 .. MaxOps /\ exits' \in BOOLEAN
    BY DEF StartRequest, ClientInv
  <1> QED
    BY <1>1, <1>2, <1>3, <1>4, <1>5 DEF ClientInv

\* get, block, fetch and add.
LEMMA ClientLookup ==
  ASSUME ClientInv, FillInv', NEW t \in Thread,
         \/ GetHit(t) \/ GetMiss(t) \/ Block(t) \/ Fetch(t) \/ FetchFails(t)
         \/ AddItem(t) \/ AddRefusedExits(t)
  PROVE  ClientInv'
  <1>0. FillInv /\ CacheOK /\ ObjectsOK /\ HeldOK /\ DrivesOK /\ ServesOK /\ entries \subseteq Key
    BY DEF ClientInv, FillInv, DrivesOK
  <1>1. CASE GetHit(t)
    <2>1. pc[t] = "get" /\ key[t] \in Key /\ Cached(key[t]) /\ UNCHANGED objectVars /\ entries' = entries
      BY <1>0, <1>1 DEF GetHit, ServesOK, driveVars
    <2>2. PICK label \in Proceed(t, item[key[t]]) : Goto(t, label)
      BY <1>1 DEF GetHit
    <2>3. label \in Label \ {"add"}
      BY <1>0, <2>1, <2>2, ProceedLabels DEF ServesOK, Fetching
    <2>4. CacheOK' /\ ObjectsOK'
      BY <1>0, <1>1, <2>1, HitKeepsList, ObjectsStay DEF GetHit
    <2>5. /\ item[key[t]] \in Object \cup {NoObject} /\ item[key[t]] # NoObject
          /\ mdi' = [mdi EXCEPT ![t] = item[key[t]]]
      BY <1>0, <1>1, <2>1 DEF GetHit, CacheOK, Cached
    <2>6. op' = op /\ UNCHANGED <<written, store, writes, started, exits>>
      BY <1>1 DEF GetHit, driveVars
    <2> QED
      BY <1>0, <2>1, <2>2, <2>3, <2>4, <2>5, <2>6, Goes
  <1>2. CASE GetMiss(t)
    <2>1. /\ pc[t] = "get" /\ key[t] \in Key /\ RemoveItem(key[t]) /\ blocked' = blocked /\ Goto(t, "block")
          /\ UNCHANGED objectVars /\ entries' = entries /\ UNCHANGED <<threadVars, store, writes, started, exits>>
      BY <1>0, <1>2 DEF GetMiss, ServesOK, driveVars
    <2>2. CacheOK' /\ ObjectsOK'
      BY <1>0, <2>1, RemoveKeepsList, ObjectsStay DEF CacheOK
    <2> QED
      BY <1>0, <2>1, <2>2, GoesOn DEF Label
  <1>3. CASE Block(t)
    <2>1. PICK label \in {"get", "fetch"} : Goto(t, label)
      BY <1>3 DEF Block
    <2>2. /\ pc[t] = "block" /\ key[t] \in Key /\ blocked' = blocked \cup {key[t]}
          /\ UNCHANGED <<lru, item, outdated>>
          /\ UNCHANGED objectVars /\ entries' = entries /\ UNCHANGED <<threadVars, store, writes, started, exits>>
      BY <1>0, <1>3 DEF Block, ServesOK, driveVars
    <2>3. CacheOK' /\ ObjectsOK'
      BY <1>0, <2>2, ObjectsStay DEF CacheOK, Cached
    <2> QED
      BY <1>0, <2>1, <2>2, <2>3, GoesOn DEF Label
  <1>4. CASE Fetch(t)
    <2>1. PICK o : o = FreeObject
      OBVIOUS
    <2>2. o \in Object
      BY <1>0, <2>1, FreeObjectExists DEF CacheOK, HeldOK
    <2>3. /\ pc[t] = "fetch" /\ key[t] \in Key /\ Goto(t, "add") /\ mdi' = [mdi EXCEPT ![t] = o]
          /\ version' = [version EXCEPT ![o] = store[key[t]]]
          /\ live' \subseteq live \cup {o} /\ dirtyData' = [dirtyData EXCEPT ![o] = "none"] /\ updates' = updates
          /\ UNCHANGED cacheVars /\ UNCHANGED <<store, entries, writes, op, written, started, exits>>
      BY <1>0, <1>4, <2>1 DEF Fetch, ServesOK, driveVars
    <2>4. CacheOK' /\ ObjectsOK'
      BY <1>0, <2>2, <2>3, CacheStays DEF ObjectsOK, DrivesOK
    <2>5. HeldOK'
      BY <1>0, <2>2, <2>3, NoObjectIsNone DEF HeldOK, Goto, ServesOK
    <2>6. DrivesOK'
      BY <1>0, <2>3 DEF DrivesOK, Pending
    <2> QED
      BY <2>3, <2>4, <2>5, <2>6 DEF ClientInv
  <1>5. CASE FetchFails(t)
    <2>1. /\ key[t] \in Key /\ Invalidate(key[t]) /\ Return(t)
          /\ UNCHANGED objectVars /\ UNCHANGED <<store, entries, writes, started, exits>>
      BY <1>0, <1>5 DEF FetchFails, ServesOK, driveVars
    <2>2. CacheOK' /\ ObjectsOK'
      BY <1>0, <2>1, InvalidateKeepsList, ObjectsStay
    <2>3. store' \in [Key -> 0 .. MaxWrites] /\ entries' \subseteq Key
      BY <1>0, <2>1 DEF DrivesOK
    <2> QED
      BY <2>1, <2>2, <2>3, Returns
  <1>6. CASE AddItem(t)
    <2>1. /\ pc[t] = "add" /\ key[t] \in Key /\ Add(key[t], mdi[t]) /\ UNCHANGED objectVars
          /\ entries' = entries /\ UNCHANGED <<threadVars, store, writes, started, exits>>
      BY <1>0, <1>6 DEF AddItem, ServesOK, driveVars
    <2>2. PICK label \in Proceed(t, mdi[t]) : Goto(t, label)
      BY <1>6 DEF AddItem
    <2>3. label \in Label \ {"add"}
      BY <1>0, <2>1, <2>2, ProceedLabels DEF ServesOK, Fetching
    <2>4. mdi[t] \in Object
      BY <1>0, <2>1 DEF HeldOK
    <2>5. CacheOK' /\ ObjectsOK'
      BY <1>0, <2>1, <2>4, AddKeepsList, ObjectsStay
    <2> QED
      BY <1>0, <2>1, <2>2, <2>3, <2>4, <2>5, NoObjectIsNone, GoesOn
  <1>7. CASE AddRefusedExits(t)
    BY <1>7, ProcessEnds DEF AddRefusedExits
  <1> QED
    BY <1>1, <1>2, <1>3, <1>4, <1>5, <1>6, <1>7

\* The other steps of a request that store a version.
LEMMA ClientWrites ==
  ASSUME ClientInv, FillInv', NEW t \in Thread, PutRemote(t) \/ CreateMetadata(t)
  PROVE  ClientInv'
  <1>0. FillInv /\ CacheOK /\ ObjectsOK /\ HeldOK /\ DrivesOK /\ ServesOK
    BY DEF ClientInv, FillInv
  <1>1. CASE PutRemote(t)
    <2>1. /\ pc[t] = "put" /\ key[t] \in Key /\ op[t] # "none" /\ written[t] = 0
          /\ UNCHANGED cacheVars /\ UNCHANGED objectVars
          /\ UNCHANGED <<entries, op, key, mdi, started, exits>>
      BY <1>0, <1>1 DEF PutRemote, ServesOK, HeldOK
    <2>2. CacheOK' /\ ObjectsOK'
      BY <1>0, <2>1, CacheStays, ObjectsStay
    <2>3. CASE /\ store' = [store EXCEPT ![key[t]] = writes + 1] /\ writes' = writes + 1
               /\ written' = [written EXCEPT ![t] = writes + 1] /\ Goto(t, "putdone")
      <3>1. t \in Pending
        BY <2>1 DEF Pending
      <3>2. writes + 1 # 0
        BY <1>0 DEF DrivesOK
      <3>3. Pending' \subseteq Pending \ {t}
        BY <1>0, <2>1, <2>3, <3>2 DEF Pending, HeldOK
      <3>4. writes + 1 \in 1 .. MaxWrites /\ writes' + Cardinality(Pending') <= MaxWrites
        BY <1>0, <2>3, <3>1, <3>3, PendingWrites
      <3>5. DrivesOK'
        BY <1>0, <2>1, <2>3, <3>4 DEF DrivesOK
      <3>6. HeldOK'
        BY <1>0, <2>1, <2>3, <3>4 DEF HeldOK, Goto, ServesOK
      <3> QED
        BY <2>1, <2>2, <3>5, <3>6 DEF ClientInv
    <2>4. CASE UNCHANGED <<store, writes, written>> /\ \E label \in {"putstale", "putfailed"} : Goto(t, label)
      <3>1. PICK label \in {"putstale", "putfailed"} : Goto(t, label)
        BY <2>4
      <3>2. entries' \subseteq Key /\ UNCHANGED <<threadVars, store, writes, started, exits>>
        BY <1>0, <2>1, <2>4 DEF threadVars, DrivesOK
      <3> QED
        BY <2>1, <2>2, <3>1, <3>2, GoesOn DEF Label
    <2> QED
      BY <1>1, <2>3, <2>4 DEF PutRemote
  <1>2. CASE CreateMetadata(t)
    <2>1. /\ pc[t] = "create" /\ key[t] \in Key /\ op[t] # "none" /\ written[t] = 0 /\ Return(t)
          /\ store' = [store EXCEPT ![key[t]] = writes + 1] /\ writes' = writes + 1
          /\ version' = [version EXCEPT ![mdi[t]] = writes + 1]
          /\ UNCHANGED cacheVars /\ UNCHANGED <<live, dirtyData, updates>>
          /\ UNCHANGED <<entries, started, exits>>
      BY <1>0, <1>2 DEF CreateMetadata, ServesOK, HeldOK
    <2>2. t \in Pending
      BY <2>1 DEF Pending
    <2>3. HeldOK' /\ Pending' \subseteq Pending \ {t}
      BY <2>1, HeldReturns
    <2>4. writes + 1 \in 1 .. MaxWrites /\ writes' + Cardinality(Pending') <= MaxWrites
      BY <1>0, <2>1, <2>2, <2>3, PendingWrites
    <2>5. CacheOK' /\ ObjectsOK'
      <3>1. CacheOK'
        BY <1>0, <2>1, CacheStays
      <3>2. PICK w \in 0 .. MaxWrites : w = writes + 1
        BY <2>4
      <3>3. version' \in [Object -> 0 .. MaxWrites]
        BY <1>0, <2>1, <3>2 DEF ObjectsOK
      <3> QED
        BY <1>0, <2>1, <3>1, <3>3 DEF ObjectsOK
    <2>6. DrivesOK'
      BY <1>0, <2>1, <2>4 DEF DrivesOK
    <2> QED
      BY <2>1, <2>3, <2>5, <2>6 DEF ClientInv
  <1> QED
    BY <1>1, <1>2

\* Steps that invalidate the item or take its new version.
LEMMA ClientInvalidates ==
  ASSUME ClientInv, FillInv', NEW t \in Thread,
         PutDone(t) \/ PutStale(t) \/ PutFailed(t) \/ DeleteInvalidate(t)
  PROVE  ClientInv'
  <1>0. /\ FillInv /\ CacheOK /\ ObjectsOK /\ HeldOK /\ DrivesOK /\ ServesOK
        /\ entries \subseteq Key /\ store \in [Key -> 0 .. MaxWrites]
    BY DEF ClientInv, FillInv, DrivesOK
  <1>1. /\ pc[t] \in {"putdone", "putstale", "putfailed", "invalidate"} /\ key[t] \in Key
        /\ UNCHANGED <<store, entries, writes, started, exits>>
    BY <1>0 DEF PutDone, PutStale, PutFailed, DeleteInvalidate, driveVars, ServesOK
  <1>2. entries' \subseteq Key /\ store' \in [Key -> 0 .. MaxWrites]
    BY <1>0, <1>1
  <1>3. CacheOK' /\ ObjectsOK'
    <2>1. CASE PutDone(t)
      <3>1. /\ version' = [version EXCEPT ![mdi[t]] = written[t]] /\ outdated' = outdated \ {key[t]}
            /\ UNCHANGED <<lru, item, blocked, live, dirtyData, updates>>
        BY <2>1 DEF PutDone
      <3>2. CacheOK'
        BY <1>0, <3>1 DEF CacheOK, Cached
      <3>3. ObjectsOK'
        BY <1>0, <3>1 DEF ObjectsOK, HeldOK
      <3> QED
        BY <3>2, <3>3
    <2>2. CASE ~PutDone(t)
      <3>1. Invalidate(key[t]) /\ UNCHANGED objectVars
        BY <2>2 DEF PutStale, PutFailed, DeleteInvalidate
      <3> QED
        BY <1>0, <1>1, <3>1, InvalidateKeepsList, ObjectsStay
    <2> QED
      BY <2>1, <2>2
  <1>4. \/ Return(t)
        \/ /\ UNCHANGED threadVars
           /\ \/ Goto(t, "flush")
              \/ pc[t] # "putdone" /\ \E label \in {"get", "delete"} : Goto(t, label)
    BY DEF PutDone, PutStale, PutFailed, DeleteInvalidate
  <1>5. CASE Return(t)
    BY <1>1, <1>2, <1>3, <1>5, Returns
  <1>6. CASE UNCHANGED threadVars /\ Goto(t, "flush")
    BY <1>1, <1>2, <1>3, <1>6, GoesOn DEF Label
  <1>7. CASE UNCHANGED threadVars /\ pc[t] # "putdone" /\ \E label \in {"get", "delete"} : Goto(t, label)
    <2>1. PICK label \in {"get", "delete"} : Goto(t, label)
      BY <1>7
    <2> QED
      BY <1>1, <1>2, <1>3, <1>7, <2>1, GoesOn DEF Label
  <1> QED
    BY <1>4, <1>5, <1>6, <1>7

\* The rest leaves the cache alone.
LEMMA ClientRequest ==
  ASSUME ClientInv, FillInv', NEW t \in Thread,
         \/ CreateEntry(t) \/ InitializeMetadata(t) \/ DeleteRemote(t) \/ DeleteEntry(t)
         \/ WriteData(t) \/ SetDirtyData(t) \/ CallFsync(t) \/ Flush(t) \/ Done(t)
  PROVE  ClientInv'
  <1>0. /\ FillInv /\ CacheOK /\ ObjectsOK /\ HeldOK /\ DrivesOK /\ ServesOK
        /\ entries \subseteq Key /\ store \in [Key -> 0 .. MaxWrites]
    BY DEF ClientInv, FillInv, DrivesOK
  <1>1. CASE CreateEntry(t)
    <2>1. /\ pc[t] = "entry" /\ key[t] \in Key /\ UNCHANGED cacheVars /\ UNCHANGED objectVars
          /\ UNCHANGED <<store, writes, started, exits>> /\ entries' \subseteq entries \cup {key[t]}
          /\ Return(t) \/ (UNCHANGED threadVars /\ Goto(t, "init"))
      BY <1>0, <1>1 DEF CreateEntry, ServesOK
    <2>2. CacheOK' /\ ObjectsOK' /\ entries' \subseteq Key /\ store' \in [Key -> 0 .. MaxWrites]
      BY <1>0, <2>1, CacheStays, ObjectsStay
    <2>3. mdi[t] # NoObject
      BY <1>0, <2>1 DEF HeldOK
    <2> QED
      BY <2>1, <2>2, <2>3, Returns, GoesOn DEF Label
  <1>2. CASE InitializeMetadata(t)
    <2>1. /\ pc[t] = "init" /\ UNCHANGED cacheVars /\ live' = live \cup {mdi[t]} /\ Goto(t, "create")
          /\ UNCHANGED <<version, dirtyData, updates>> /\ entries' = entries
          /\ UNCHANGED <<threadVars, store, writes, started, exits>>
      BY <1>2 DEF InitializeMetadata, driveVars
    <2>2. mdi[t] \in Object
      BY <1>0, <2>1 DEF HeldOK
    <2>3. CacheOK' /\ ObjectsOK'
      BY <1>0, <2>1, <2>2, CacheStays DEF ObjectsOK
    <2> QED
      BY <1>0, <2>1, <2>3, GoesOn DEF Label
  <1>3. CASE DeleteRemote(t)
    <2>1. /\ pc[t] = "delete" /\ key[t] \in Key /\ UNCHANGED cacheVars /\ UNCHANGED objectVars
          /\ UNCHANGED <<entries, writes, started, exits>>
      BY <1>0, <1>3 DEF DeleteRemote, ServesOK
    <2>2. CacheOK' /\ ObjectsOK' /\ entries' \subseteq Key
      BY <1>0, <2>1, CacheStays, ObjectsStay
    <2>3. CASE store' = store /\ Return(t)
      BY <1>0, <2>1, <2>2, <2>3, Returns
    <2>4. CASE store' = store /\ Goto(t, "get") /\ UNCHANGED threadVars
      BY <1>0, <2>1, <2>2, <2>4, GoesOn DEF Label
    <2>5. CASE store' = [store EXCEPT ![key[t]] = 0] /\ Goto(t, "unentry") /\ UNCHANGED threadVars
      <3>1. HeldOK'
        BY <1>0, <2>1, <2>5 DEF HeldOK, Goto, ServesOK, threadVars
      <3>2. Pending' \subseteq Pending
        BY <2>5 DEF Pending, threadVars
      <3>3. store' \in [Key -> 0 .. MaxWrites]
        BY <1>0, <2>1, <2>5
      <3>4. DrivesOK'
        BY <1>0, <2>1, <2>2, <3>2, <3>3, PendingShrinks DEF DrivesOK
      <3> QED
        BY <2>1, <2>2, <3>1, <3>4 DEF ClientInv
    <2> QED
      BY <1>3, <2>3, <2>4, <2>5 DEF DeleteRemote
  <1>4. CASE DeleteEntry(t) \/ Flush(t) \/ Done(t)
    <2>1. /\ Return(t) /\ UNCHANGED cacheVars /\ UNCHANGED <<store, writes, started, exits>>
          /\ entries' \subseteq entries /\ UNCHANGED <<version, live, dirtyData>> /\ updates' \subseteq updates
      BY <1>4 DEF DeleteEntry, Flush, Done, driveVars, objectVars
    <2>2. CacheOK' /\ ObjectsOK' /\ entries' \subseteq Key /\ store' \in [Key -> 0 .. MaxWrites]
      BY <1>0, <2>1, CacheStays DEF ObjectsOK
    <2> QED
      BY <2>1, <2>2, Returns
  <1>5. CASE WriteData(t) \/ SetDirtyData(t)
    <2>1. /\ pc[t] \in {"write", "setdirty"} /\ key[t] \in Key /\ UNCHANGED cacheVars
          /\ updates' \subseteq updates \cup {key[t]} /\ UNCHANGED <<version, live>>
          /\ dirtyData' = dirtyData \/ dirtyData' = [dirtyData EXCEPT ![mdi[t]] = key[t]]
          /\ entries' = entries /\ UNCHANGED <<threadVars, store, writes, started, exits>>
      BY <1>0, <1>5 DEF WriteData, SetDirtyData, driveVars, ServesOK
    <2>2. PICK label \in {"setdirty", "return", "sync"} : Goto(t, label)
      BY <1>5 DEF WriteData, SetDirtyData
    <2>3. CacheOK' /\ ObjectsOK'
      BY <1>0, <2>1, CacheStays DEF ObjectsOK
    <2> QED
      BY <1>0, <2>1, <2>2, <2>3, GoesOn DEF Label
  <1>6. CASE CallFsync(t)
    <2>1. /\ pc[t] = "sync" /\ UNCHANGED cacheVars /\ UNCHANGED objectVars /\ Goto(t, "get")
          /\ op' = [op EXCEPT ![t] = "fsync"] /\ entries' = entries
          /\ UNCHANGED <<written, store, writes, started, exits>> /\ mdi' = mdi
      BY <1>6 DEF CallFsync, driveVars
    <2>2. CacheOK' /\ ObjectsOK'
      BY <1>0, <2>1, CacheStays, ObjectsStay
    <2>3. PICK o \in Object \cup {NoObject} : mdi' = [mdi EXCEPT ![t] = o]
      BY <1>0, <2>1 DEF HeldOK
    <2>4. PICK label \in Label \ {"add"} : label = "get"
      BY DEF Label
    <2>5. /\ pc[t] # "idle" /\ Goto(t, label) /\ entries' \subseteq Key
          /\ pc[t] \notin {"putdone", "flush"} /\ label \notin {"entry", "init"}
          /\ op' = [op EXCEPT ![t] = "fsync"] /\ UNCHANGED <<written, store, writes, started, exits>>
      BY <1>0, <2>1, <2>4
    <2> QED
      BY <2>2, <2>3, <2>5, Goes
  <1> QED
    BY <1>1, <1>2, <1>3, <1>4, <1>5, <1>6

\* Another client stores a version while there is room for those of the requests.
LEMMA ClientForeign ==
  ASSUME ClientInv, FillInv', NEW k \in Key, ForeignWrite(k)
  PROVE  ClientInv'
  <1>1. /\ UNCHANGED cacheVars /\ UNCHANGED objectVars /\ UNCHANGED <<pc, mdi, written, op, started, exits>>
        /\ writes' = writes + 1 /\ entries' \subseteq entries
        /\ \E w \in {writes + 1, 0} : store' = [store EXCEPT ![k] = w]
    BY DEF ForeignWrite, threadVars
  <1>2. CacheOK' /\ ObjectsOK'
    BY <1>1, CacheStays, ObjectsStay DEF ClientInv
  <1>3. HeldOK'
    BY <1>1 DEF HeldOK, ClientInv
  <1>4. writes + 1 \in 0 .. MaxWrites /\ writes + 1 + Cardinality(Pending) <= MaxWrites
    <2> DEFINE A == {u \in Thread : op[u] # "none"}
    <2>1. IsFiniteSet(A) /\ IsFiniteSet(Pending) /\ Cardinality(Pending) <= Cardinality(A)
      <3>1. IsFiniteSet(A)
        BY FS_Subset
      <3>2. Pending \in SUBSET A
        BY DEF Pending
      <3> HIDE DEF A
      <3> QED
        BY <3>1, <3>2, FS_Subset
    <2>2. writes + Cardinality(A) < MaxWrites
      BY DEF ForeignWrite, WritesLeft
    <2> HIDE DEF A
    <2>3. Cardinality(Pending) \in Nat /\ Cardinality(A) \in Nat
      BY <2>1, FS_CardinalityType
    <2> QED
      BY <2>1, <2>2, <2>3 DEF ClientInv, DrivesOK
  <1>5. DrivesOK'
    <2>1. PICK w \in {writes + 1, 0} : store' = [store EXCEPT ![k] = w]
      BY <1>1
    <2>2. w \in 0 .. MaxWrites
      BY <1>4
    <2>3. store' \in [Key -> 0 .. MaxWrites]
      BY <2>1, <2>2 DEF ClientInv, DrivesOK
    <2>4. Pending' = Pending
      BY <1>1 DEF Pending
    <2>5. writes' \in 1 .. MaxWrites
      BY <1>1, <1>4 DEF ClientInv, DrivesOK
    <2>6. entries' \subseteq Key
      BY <1>1 DEF ClientInv, DrivesOK
    <2> QED
      BY <1>1, <1>4, <2>3, <2>4, <2>5, <2>6 DEF DrivesOK
  <1> QED
    BY <1>1, <1>2, <1>3, <1>5 DEF ClientInv

\* Time passes, the process is started again, or nothing happens.
LEMMA ClientElse ==
  ASSUME ClientInv, FillInv', (\E k \in Key : Expire(k)) \/ Remount \/ AllServed \/ UNCHANGED vars
  PROVE  ClientInv'
  <1>1. /\ UNCHANGED objectVars /\ UNCHANGED <<store, entries, writes, pc, mdi, written, op, started>>
    BY DEF Expire, Remount, AllServed, vars, driveVars, threadVars
  <1>2. ObjectsOK' /\ HeldOK'
    BY <1>1, ObjectsStay DEF ClientInv, HeldOK
  <1>3. DrivesOK'
    BY <1>1 DEF ClientInv, DrivesOK, Pending
  <1>4. CacheOK'
    <2>1. CASE \E k \in Key : Expire(k)
      BY <2>1 DEF Expire, ClientInv, CacheOK, Cached
    <2>2. CASE UNCHANGED cacheVars
      BY <2>2, CacheStays DEF ClientInv
    <2> QED
      BY <2>1, <2>2 DEF Remount, AllServed, vars
  <1>5. exits' \in BOOLEAN
    <2>1. exits' = exits \/ exits' = FALSE
      BY DEF Expire, Remount, AllServed, vars
    <2> QED
      BY <2>1 DEF ClientInv
  <1> QED
    BY <1>1, <1>2, <1>3, <1>4, <1>5 DEF ClientInv

LEMMA ClientNext == ClientInv /\ [Next]_vars => ClientInv'
  <1> SUFFICES ASSUME ClientInv, [Next]_vars PROVE ClientInv'
    OBVIOUS
  <1>1. FillInv'
    BY FillNext DEF ClientInv
  <1>2. ASSUME NEW t \in Thread, NEW k \in Key, NEW o \in Ops, StartRequest(t, k, o) PROVE ClientInv'
    BY <1>2, ClientStart
  <1>3. ASSUME NEW t \in Thread, Step(t) PROVE ClientInv'
    <2>1. CASE CreateFails(t) \/ DeleteEntryFails(t)
      BY <2>1, ProcessEnds DEF CreateFails, DeleteEntryFails
    <2> QED
      BY <1>1, <1>3, <2>1, ClientLookup, ClientWrites, ClientInvalidates, ClientRequest DEF Step
  <1>4. ASSUME NEW k \in Key, ForeignWrite(k) PROVE ClientInv'
    BY <1>1, <1>4, ClientForeign
  <1>5. CASE (\E k \in Key : Expire(k)) \/ Remount \/ AllServed \/ UNCHANGED vars
    BY <1>1, <1>5, ClientElse
  <1> QED
    BY <1>2, <1>3, <1>4, <1>5 DEF Next

-----------------------------------------------------------------------------
(* What the invariant shows.                                               *)

LEMMA ClientTypes == ClientInv => TypeOK
  <1> SUFFICES ASSUME ClientInv PROVE TypeOK
    OBVIOUS
  <1>1. outdated \subseteq Key
    BY DEF ClientInv, CacheOK
  <1> QED
    BY <1>1 DEF ClientInv, FillInv, ServesOK, CacheOK, ObjectsOK, HeldOK, DrivesOK, TypeOK

\* A list without repetitions is as long as its range is large.
LEMMA DistinctLength ==
  ASSUME NEW list \in Seq(Key), Distinct(list)
  PROVE  Len(list) = Cardinality(Range(list))
  <1>1. PICK n \in Nat : n = Len(list)
    OBVIOUS
  <1>2. DOMAIN list = 1 .. n
    BY <1>1
  <1>3. list \in Bijection(1 .. n, Range(list))
    <2>1. list \in [1 .. n -> Range(list)]
      BY <1>1, <1>2 DEF Range
    <2>2. list \in Surjection(1 .. n, Range(list))
      BY <1>2, <2>1 DEF Surjection, Range
    <2>3. list \in Injection(1 .. n, Range(list))
      BY <1>1, <1>2, <2>1 DEF Injection, IsInjective, Distinct
    <2> QED
      BY <2>2, <2>3 DEF Bijection
  <1>4. ExistsBijection(1 .. n, Range(list))
    BY <1>3 DEF ExistsBijection
  <1> QED
    BY <1>1, <1>4, FS_CountingElements

LEMMA ClientList == ClientInv => ListMatchesMap
  BY DistinctLength DEF ClientInv, CacheOK, ListMatchesMap

\* The invariant of the client, with what it rests on: which object a request
\* holds at its steps, and room for the versions still to be written.
THEOREM ClientInvHolds == Spec => []ClientInv
  BY ClientInit, ClientNext, PTL DEF Spec

\* Every state of the client has the types declared, so the version that a
\* request stores stays below the bound that its start has checked.
THEOREM Typing == Spec => []TypeOK
  BY ClientInit, ClientNext, ClientTypes, PTL DEF Spec

\* LRUcache: the list and the hash map always hold the same keys, each of them
\* once, after every get, add, remove and invalidate, whatever add had to erase
\* to make room, and only an item that is there counts as expired.
THEOREM ListMatchesMapCorrect == Spec => []ListMatchesMap
  BY ClientInit, ClientNext, ClientList, PTL DEF Spec

-----------------------------------------------------------------------------
(* Dirty items.                                                            *)

\* What a step may do to an item with unwritten data.
KeepsDirty ==
    \A k \in Key :
        Cached(k) /\ Dirty(item[k]) /\ item'[k] # item[k]
        => exits' \/ \E t \in Thread :
              key[t] = k /\ pc[t] \in {"fetch", "putstale", "putfailed", "invalidate"}

LEMMA LookupKeepsDirty ==
  ASSUME ClientInv, NEW t \in Thread, GetMiss(t) \/ AddItem(t)
  PROVE  KeepsDirty
  <1> SUFFICES ASSUME NEW k \in Key, Cached(k), Dirty(item[k]) PROVE item'[k] = item[k]
    BY DEF KeepsDirty
  <1>0. CacheOK /\ HeldOK /\ ServesOK
    BY DEF ClientInv, FillInv
  <1>1. CASE GetMiss(t)
    <2>1. key[t] # k
      BY <1>1 DEF GetMiss, Expired
    <2>2. item' = [item EXCEPT ![key[t]] = NoObject]
      BY <1>1 DEF GetMiss, RemoveItem
    <2> QED
      BY <1>0, <2>1, <2>2 DEF CacheOK
  <1>2. CASE AddItem(t)
    <2>1. key[t] # k
      BY <1>2 DEF AddItem, AddRefused, Expired
    <2>2. key[t] \in Key /\ mdi[t] \in Object /\ Add(key[t], mdi[t])
      BY <1>0, <1>2 DEF AddItem, HeldOK, ServesOK
    <2>3. k # key[t] /\ Cached(k) /\ Dirty(item[k]) => item'[k] = item[k]
      BY <1>0, <2>2, AddKeepsList
    <2> QED
      BY <2>1, <2>3
  <1> QED
    BY <1>1, <1>2

LEMMA InvalidateKeepsDirty ==
  ASSUME ClientInv, NEW t \in Thread,
         FetchFails(t) \/ PutStale(t) \/ PutFailed(t) \/ DeleteInvalidate(t)
  PROVE  KeepsDirty
  <1>1. /\ pc[t] \in {"fetch", "putstale", "putfailed", "invalidate"}
        /\ item' = [item EXCEPT ![key[t]] = NoObject]
    BY DEF FetchFails, PutStale, PutFailed, DeleteInvalidate, Invalidate, RemoveItem
  <1>2. \A k \in Key : item'[k] # item[k] => key[t] = k
    BY <1>1 DEF ClientInv, CacheOK
  <1> QED
    BY <1>1, <1>2 DEF KeepsDirty

LEMMA NextKeepsDirty == ClientInv /\ [Next]_vars => [KeepsDirty]_vars
  <1> SUFFICES ASSUME ClientInv, [Next]_vars PROVE KeepsDirty
    OBVIOUS
  <1>1. CASE UNCHANGED item
    BY <1>1 DEF KeepsDirty
  <1>2. CASE exits'
    BY <1>2 DEF KeepsDirty
  <1>3. ASSUME NEW t \in Thread, Step(t) PROVE KeepsDirty
    <2>1. CASE GetMiss(t) \/ AddItem(t)
      BY <2>1, LookupKeepsDirty
    <2>2. CASE FetchFails(t) \/ PutStale(t) \/ PutFailed(t) \/ DeleteInvalidate(t)
      BY <2>2, InvalidateKeepsDirty
    <2>3. CASE AddRefusedExits(t) \/ CreateFails(t) \/ DeleteEntryFails(t)
      BY <1>2, <2>3 DEF AddRefusedExits, CreateFails, DeleteEntryFails, Exit
    <2>4. CASE GetHit(t) \/ Block(t) \/ Fetch(t) \/ PutRemote(t) \/ PutDone(t)
      BY <1>1, <2>4 DEF GetHit, Block, Fetch, PutRemote, PutDone, cacheVars
    <2>5. CASE CreateEntry(t) \/ InitializeMetadata(t) \/ CreateMetadata(t) \/ DeleteRemote(t) \/ DeleteEntry(t)
      BY <1>1, <2>5 DEF CreateEntry, InitializeMetadata, CreateMetadata, DeleteRemote, DeleteEntry, cacheVars
    <2>6. CASE WriteData(t) \/ SetDirtyData(t) \/ CallFsync(t) \/ Flush(t) \/ Done(t)
      BY <1>1, <2>6 DEF WriteData, SetDirtyData, CallFsync, Flush, Done, cacheVars
    <2> QED
      BY <1>3, <2>1, <2>2, <2>3, <2>4, <2>5, <2>6 DEF Step
  <1>4. ASSUME NEW t \in Thread, NEW k \in Key, NEW o \in Ops, StartRequest(t, k, o) PROVE KeepsDirty
    BY <1>1, <1>4 DEF StartRequest, cacheVars
  <1>5. ASSUME NEW k \in Key, Expire(k) \/ ForeignWrite(k) PROVE KeepsDirty
    BY <1>1, <1>5 DEF Expire, ForeignWrite, cacheVars
  <1>6. CASE Remount \/ AllServed \/ UNCHANGED vars
    BY <1>1, <1>6 DEF Remount, AllServed, vars, cacheVars
  <1> QED
    BY <1>3, <1>4, <1>5, <1>6 DEF Next

\* "Dirty elements cannot be expired from the cache": for any capacity, list
\* and interleaving, expiration in get and the loop in add that makes room
\* leave every item alone whose object refers to unwritten data, although the
\* iterator of that loop skips items and wraps; only the invalidate of a
\* request that fails or deletes, or the end of the process, takes it.
THEOREM DirtyNotEvictedCorrect == Spec => DirtyNotEvicted
  <1>1. Spec => [][KeepsDirty]_vars
    BY ClientInit, ClientNext, NextKeepsDirty, PTL DEF Spec
  <1> QED
    BY <1>1 DEF DirtyNotEvicted, KeepsDirty

=============================================================================
