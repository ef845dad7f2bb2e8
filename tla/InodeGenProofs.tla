--------------------------- MODULE InodeGenProofs ---------------------------
(***************************************************************************)
(* Proofs about inode numbers, for any number of clients and any size and  *)
(* number of tokens.                                                       *)
(***************************************************************************)
EXTENDS InodeGen, TLAPS

USE InodeAssumption

\* The counter reaches TokenSize only while a new token is being grabbed.
TypeInv ==
    /\ TypeOK
    /\ \A c \in Client :
         /\ pc[c] = "up" => mounted[c] /\ inum_counter[c] < TokenSize
         /\ ~mounted[c] => inum_counter[c] = 0

LEMMA InitTyped == Init => TypeInv
  BY DEF Init, TypeOK, TypeInv

\* After a grab the client serves requests with the counter inside the token.
LEMMA GrabReturnsTyped ==
  ASSUME TypeInv, NEW c \in Client, GrabReturns(c), inum_base' \in [Client -> Nat],
         keyVersion' \in Nat, granted' \in [Client -> BOOLEAN], failed' \subseteq Client
  PROVE  TypeInv'
  <1>1. /\ pc' \in [Client -> {"down", "get", "put", "up"}]
        /\ mounted' \in [Client -> BOOLEAN]
        /\ \A d \in Client \ {c} : pc'[d] = pc[d] /\ mounted'[d] = mounted[d]
        /\ pc'[c] = "up" /\ mounted'[c]
    BY DEF GrabReturns, TypeInv, TypeOK
  <1>2. CASE ~mounted[c]
    <2>1. UNCHANGED <<inum_counter, issued, duplicates>>
      BY <1>2 DEF GrabReturns
    <2>2. inum_counter[c] = 0
      BY <1>2 DEF TypeInv
    <2>3. \A d \in Client : /\ pc'[d] = "up" => mounted'[d] /\ inum_counter'[d] < TokenSize
                            /\ ~mounted'[d] => inum_counter'[d] = 0
      BY <1>1, <2>1, <2>2 DEF TypeInv, TypeOK
    <2> QED
      BY <1>1, <2>1, <2>3 DEF TypeInv, TypeOK
  <1>3. CASE mounted[c]
    <2>1. inum_base'[c] \in Nat /\ Issue(inum_base'[c])
      BY <1>3 DEF GrabReturns
    <2>2. issued' \subseteq Nat /\ duplicates' \subseteq Nat
      BY <2>1 DEF Issue, TypeInv, TypeOK
    <2>3. /\ inum_counter' \in [Client -> 0 .. TokenSize]
          /\ \A d \in Client \ {c} : inum_counter'[d] = inum_counter[d]
          /\ inum_counter'[c] = 0
      BY <1>3 DEF GrabReturns, TypeInv, TypeOK
    <2> QED
      BY <1>1, <2>2, <2>3 DEF TypeInv, TypeOK
  <1> QED
    BY <1>2, <1>3

LEMMA NextTyped == TypeInv /\ [Next]_vars => TypeInv'
  <1> SUFFICES ASSUME TypeInv, [Next]_vars PROVE TypeInv'
    OBVIOUS
  <1>1. ASSUME NEW c \in Client, Mount(c) \/ GrabMismatch(c) PROVE TypeInv'
    BY <1>1 DEF Mount, GrabMismatch, TypeInv, TypeOK
  <1>2. ASSUME NEW c \in Client, Crash(c) PROVE TypeInv'
    BY <1>2 DEF Crash, TypeInv, TypeOK
  <1>3. ASSUME NEW c \in Client, Generate(c) PROVE TypeInv'
    <2>1. /\ inum_counter[c] + 1 \in 0 .. TokenSize
          /\ inum_counter[c] + 1 < TokenSize
          /\ inum_base[c] + inum_counter[c] + 1 \in Nat
      BY <1>3 DEF Generate, TypeInv, TypeOK
    <2>2. issued' \subseteq Nat /\ duplicates' \subseteq Nat
      BY <1>3, <2>1 DEF Generate, Issue, TypeInv, TypeOK
    <2> QED
      BY <1>3, <2>1, <2>2 DEF Generate, TypeInv, TypeOK
  <1>4. ASSUME NEW c \in Client, Refresh(c) PROVE TypeInv'
    BY <1>4 DEF Refresh, TypeInv, TypeOK
  <1>5. ASSUME NEW c \in Client, GrabGet(c) PROVE TypeInv'
    BY <1>5 DEF GrabGet, TypeInv, TypeOK
  <1>6. ASSUME NEW c \in Client, GrabPut(c) PROVE TypeInv'
    <2>1. keyVersion' \in Nat /\ granted' \in [Client -> BOOLEAN]
      BY <1>6 DEF GrabPut, TypeInv, TypeOK
    <2> QED
      BY <1>6, <2>1, GrabReturnsTyped DEF GrabPut, TypeInv, TypeOK
  <1>7. ASSUME NEW c \in Client, GrabFails(c) PROVE TypeInv'
    <2>1. keyVersion' \in Nat
      BY <1>7 DEF GrabFails, TypeInv, TypeOK
    <2> QED
      BY <1>7, <2>1, GrabReturnsTyped DEF GrabFails, TypeInv, TypeOK
  <1>8. CASE UNCHANGED vars
    BY <1>8 DEF vars, TypeInv, TypeOK
  <1> QED
    BY <1>1, <1>2, <1>3, <1>4, <1>5, <1>6, <1>7, <1>8 DEF Next

\* Counter, base and token key keep their types; the 16-bit counter never
\* passes TokenSize.
THEOREM Typing == Spec => []TypeOK
  <1>1. TypeInv => TypeOK
    BY DEF TypeInv
  <1> QED
    BY <1>1, InitTyped, NextTyped, PTL DEF Spec

-----------------------------------------------------------------------------
(* Grants.                                                                 *)

\* Only a client that serves requests holds a granted token.
GrantInv ==
    /\ TypeInv
    /\ GrantsDisjoint
    /\ \A c \in Client : granted[c] => pc[c] = "up"

LEMMA NextGrant == GrantInv /\ [Next]_vars => GrantInv'
  <1> SUFFICES ASSUME GrantInv, [Next]_vars PROVE GrantInv'
    OBVIOUS
  <1>0. TypeOK /\ TypeInv'
    BY NextTyped DEF GrantInv, TypeInv
  <1>1. ASSUME NEW c \in Client, Mount(c) \/ GrabMismatch(c) PROVE GrantInv'
    BY <1>0, <1>1 DEF Mount, GrabMismatch, GrantInv, GrantsDisjoint, TypeOK
  <1>2. ASSUME NEW c \in Client, Crash(c) PROVE GrantInv'
    BY <1>0, <1>2 DEF Crash, GrantInv, GrantsDisjoint, TypeOK
  <1>3. ASSUME NEW c \in Client, Generate(c) PROVE GrantInv'
    BY <1>0, <1>3 DEF Generate, GrantInv, GrantsDisjoint
  <1>4. ASSUME NEW c \in Client, Refresh(c) PROVE GrantInv'
    BY <1>0, <1>4 DEF Refresh, GrantInv, GrantsDisjoint, TypeOK
  <1>5. ASSUME NEW c \in Client, GrabGet(c) PROVE GrantInv'
    BY <1>0, <1>5 DEF GrabGet, GrantInv, GrantsDisjoint, TypeOK
  <1>6. ASSUME NEW c \in Client, GrabPut(c) PROVE GrantInv'
    <2>1. \A d \in Client \ {c} : granted'[d] = granted[d] /\ pc'[d] = pc[d]
      BY <1>0, <1>6 DEF GrabPut, GrabReturns, TypeOK
    <2>2. /\ pc'[c] = "up" /\ inum_base' = inum_base
          /\ inum_base[c] = keyVersion /\ keyVersion' = keyVersion + TokenSize
      BY <1>0, <1>6 DEF GrabPut, GrabReturns, TypeOK
    <2>3. \A d \in Client : granted'[d] => pc'[d] = "up"
      BY <2>1, <2>2 DEF GrantInv
    <2>4. \A d \in Client \ {c} : granted[d] => inum_base[d] + TokenSize <= keyVersion
      BY DEF GrantInv, GrantsDisjoint
    <2>5. GrantsDisjoint'
      <3> SUFFICES ASSUME NEW x \in Client, granted'[x]
                   PROVE  /\ inum_base[x] + TokenSize <= keyVersion + TokenSize
                          /\ \A y \in Client \ {x} : granted'[y] =>
                               \/ inum_base[x] + TokenSize <= inum_base[y]
                               \/ inum_base[y] + TokenSize <= inum_base[x]
        BY <2>2 DEF GrantsDisjoint
      <3>1. CASE x = c
        BY <1>0, <2>1, <2>2, <2>4, <3>1 DEF TypeOK
      <3>2. CASE x # c
        <4>1. granted[x] /\ inum_base[x] + TokenSize <= keyVersion
          BY <2>1, <2>4, <3>2
        <4>2. ASSUME NEW y \in Client \ {x}, granted'[y]
              PROVE  \/ inum_base[x] + TokenSize <= inum_base[y]
                     \/ inum_base[y] + TokenSize <= inum_base[x]
          <5>1. CASE y = c
            BY <2>2, <4>1, <5>1
          <5>2. CASE y # c
            BY <2>1, <4>1, <4>2, <5>2 DEF GrantInv, GrantsDisjoint
          <5> QED
            BY <5>1, <5>2
        <4> QED
          BY <1>0, <4>1, <4>2 DEF TypeOK
      <3> QED
        BY <3>1, <3>2
    <2> QED
      BY <1>0, <2>3, <2>5 DEF GrantInv
  <1>7. ASSUME NEW c \in Client, GrabFails(c) PROVE GrantInv'
    <2>1. /\ keyVersion' >= keyVersion /\ UNCHANGED <<granted, inum_base>>
          /\ \A d \in Client \ {c} : pc'[d] = pc[d]
          /\ pc'[c] = "up"
      BY <1>0, <1>7 DEF GrabFails, GrabReturns, TypeOK
    <2>2. GrantsDisjoint'
      <3>1. ASSUME NEW x \in Client, granted[x]
            PROVE  inum_base[x] + TokenSize <= keyVersion'
        <4>1. inum_base[x] + TokenSize <= keyVersion
          BY <3>1 DEF GrantInv, GrantsDisjoint
        <4>2. inum_base[x] \in Nat /\ keyVersion \in Nat /\ keyVersion' \in Nat
          BY <1>0 DEF TypeInv, TypeOK
        <4> QED
          BY <2>1, <4>1, <4>2
      <3> QED
        BY <2>1, <3>1 DEF GrantInv, GrantsDisjoint
    <2> QED
      BY <1>0, <2>1, <2>2 DEF GrantInv
  <1>8. CASE UNCHANGED vars
    BY <1>0, <1>8 DEF vars, GrantInv, GrantsDisjoint
  <1> QED
    BY <1>1, <1>2, <1>3, <1>4, <1>5, <1>6, <1>7, <1>8 DEF Next

\* Granted tokens never overlap, even when requests fail.
THEOREM GrantsCorrect == Spec => []GrantsDisjoint
  <1>1. Init => GrantInv
    BY InitTyped DEF Init, GrantInv, GrantsDisjoint
  <1>2. GrantInv => GrantsDisjoint
    BY DEF GrantInv
  <1> QED
    BY <1>1, <1>2, NextGrant, PTL DEF Spec

-----------------------------------------------------------------------------
(* Uniqueness, until a request fails.                                      *)

\* A number that was handed out lies below the shared key, and outside what is
\* left of any granted token.
UniqueInv ==
    /\ GrantInv
    /\ duplicates = {}
    /\ \A n \in issued : n < keyVersion
    /\ \A c \in Client : pc[c] = "up" =>
         /\ granted[c]
         /\ \A n \in issued :
              n <= inum_base[c] + inum_counter[c] \/ n >= inum_base[c] + TokenSize

LEMMA NextUnique ==
  UniqueInv /\ [Next]_vars /\ failed' = {} => UniqueInv'
  <1> SUFFICES ASSUME UniqueInv, [Next]_vars, failed' = {} PROVE UniqueInv'
    OBVIOUS
  <1>0. TypeOK /\ TypeInv /\ GrantInv'
    BY NextGrant DEF UniqueInv, GrantInv, TypeInv
  <1>1. ASSUME NEW c \in Client, Mount(c) \/ GrabMismatch(c) PROVE UniqueInv'
    BY <1>0, <1>1 DEF Mount, GrabMismatch, UniqueInv, TypeOK
  <1>2. ASSUME NEW c \in Client, Crash(c) PROVE UniqueInv'
    BY <1>0, <1>2 DEF Crash, UniqueInv, TypeOK
  <1>3. ASSUME NEW c \in Client, Generate(c) PROVE UniqueInv'
    <2> DEFINE m == inum_base[c] + inum_counter[c] + 1
    <2>1. /\ m \in Nat /\ m < inum_base[c] + TokenSize
          /\ inum_counter[c] \in Nat /\ inum_base[c] \in Nat
      BY <1>0, <1>3 DEF Generate, TypeInv, TypeOK
    <2>2. /\ granted[c] /\ inum_base[c] + TokenSize <= keyVersion
          /\ \A n \in issued :
               n <= inum_base[c] + inum_counter[c] \/ n >= inum_base[c] + TokenSize
      BY <1>3 DEF Generate, UniqueInv, GrantInv, GrantsDisjoint
    <2>3. m \notin issued
      BY <2>1, <2>2
    <2>4. issued' = issued \cup {m} /\ duplicates' = duplicates
      BY <1>3, <2>3 DEF Generate, Issue
    <2>5. \A n \in issued' : n < keyVersion'
      BY <1>0, <1>3, <2>1, <2>2, <2>4 DEF Generate, UniqueInv, TypeOK
    <2>6. ASSUME NEW d \in Client, pc'[d] = "up"
          PROVE  /\ granted'[d]
                 /\ \A n \in issued' : \/ n <= inum_base'[d] + inum_counter'[d]
                                       \/ n >= inum_base'[d] + TokenSize
      <3>1. pc[d] = "up" /\ granted[d] /\ granted'[d] /\ inum_base'[d] = inum_base[d]
        BY <1>3, <2>6 DEF Generate, UniqueInv
      <3>2. CASE d = c
        <4>1. inum_counter'[c] = inum_counter[c] + 1
          BY <1>0, <1>3 DEF Generate, TypeOK
        <4> QED
          BY <1>0, <2>1, <2>2, <2>4, <3>1, <3>2, <4>1 DEF TypeOK
      <3>3. CASE d # c
        <4>1. inum_counter'[d] = inum_counter[d]
          BY <1>0, <1>3, <3>3 DEF Generate, TypeOK
        <4>2. \/ inum_base[c] + TokenSize <= inum_base[d]
              \/ inum_base[d] + TokenSize <= inum_base[c]
          BY <2>2, <3>1, <3>3 DEF UniqueInv, GrantInv, GrantsDisjoint
        <4>3. m <= inum_base[d] + inum_counter[d] \/ m >= inum_base[d] + TokenSize
          BY <1>0, <2>1, <4>2 DEF TypeOK
        <4> QED
          BY <2>4, <3>1, <4>1, <4>3 DEF UniqueInv
      <3> QED
        BY <3>2, <3>3
    <2> QED
      BY <1>0, <2>4, <2>5, <2>6 DEF UniqueInv
  <1>4. ASSUME NEW c \in Client, Refresh(c) PROVE UniqueInv'
    BY <1>0, <1>4 DEF Refresh, UniqueInv, TypeOK
  <1>5. ASSUME NEW c \in Client, GrabGet(c) PROVE UniqueInv'
    BY <1>0, <1>5 DEF GrabGet, UniqueInv, TypeOK
  <1>6. ASSUME NEW c \in Client, GrabPut(c) PROVE UniqueInv'
    <2>1. /\ inum_base' = inum_base /\ inum_base[c] = keyVersion
          /\ keyVersion' = keyVersion + TokenSize
          /\ \A d \in Client \ {c} :
               pc'[d] = pc[d] /\ granted'[d] = granted[d] /\ inum_counter'[d] = inum_counter[d]
          /\ granted'[c] /\ inum_counter'[c] = 0
          /\ issued' \subseteq issued \cup {keyVersion}
      <3>1. CASE mounted[c]
        BY <1>0, <1>6, <3>1 DEF GrabPut, GrabReturns, Issue, TypeOK
      <3>2. CASE ~mounted[c]
        BY <1>0, <1>6, <3>2 DEF GrabPut, GrabReturns, TypeInv, TypeOK
      <3> QED
        BY <3>1, <3>2
    <2>2. \A n \in issued : n \in Nat /\ n < keyVersion
      BY <1>0 DEF UniqueInv, TypeOK
    <2>3. duplicates' = {}
      <3>1. keyVersion \notin issued
        BY <1>0, <2>2 DEF TypeOK
      <3> QED
        BY <1>6, <2>1, <3>1 DEF GrabPut, GrabReturns, Issue, UniqueInv
    <2>4. \A n \in issued' : n < keyVersion'
      BY <1>0, <2>1, <2>2 DEF TypeOK
    <2>5. ASSUME NEW d \in Client, pc'[d] = "up"
          PROVE  /\ granted'[d]
                 /\ \A n \in issued' : \/ n <= inum_base'[d] + inum_counter'[d]
                                       \/ n >= inum_base'[d] + TokenSize
      <3>1. CASE d = c
        BY <1>0, <2>1, <2>2, <3>1 DEF TypeOK
      <3>2. CASE d # c
        <4>1. pc[d] = "up" /\ granted[d] /\ inum_base[d] + TokenSize <= keyVersion
          BY <2>1, <2>5, <3>2 DEF UniqueInv, GrantInv, GrantsDisjoint
        <4>2. granted'[d] /\ inum_counter'[d] = inum_counter[d] /\ inum_base'[d] = inum_base[d]
          BY <2>1, <3>2, <4>1
        <4>3. \A n \in issued : \/ n <= inum_base[d] + inum_counter[d]
                                \/ n >= inum_base[d] + TokenSize
          BY <4>1 DEF UniqueInv
        <4> QED
          BY <2>1, <4>1, <4>2, <4>3
      <3> QED
        BY <3>1, <3>2
    <2> QED
      BY <1>0, <2>3, <2>4, <2>5 DEF UniqueInv
  <1>7. ASSUME NEW c \in Client, GrabFails(c) PROVE UniqueInv'
    BY <1>7 DEF GrabFails
  <1>8. CASE UNCHANGED vars
    BY <1>0, <1>8 DEF vars, UniqueInv
  <1> QED
    BY <1>1, <1>2, <1>3, <1>4, <1>5, <1>6, <1>7, <1>8 DEF Next

\* What failed is remembered.
LEMMA FailedStays == [Next]_vars => failed \subseteq failed'
  BY DEF Next, vars, Mount, Crash, Generate, Refresh, GrabGet, GrabPut, GrabMismatch,
         GrabFails

\* As long as no request to the token key fails, no inode number is handed out
\* twice by any clients, through refreshes, lost races, crashes and remounts.
THEOREM UniqueInodesCorrect == Spec => []UniqueInodes
  <1> DEFINE Inv == GrantInv /\ (failed = {} => UniqueInv)
  <1>1. Init => Inv
    BY InitTyped DEF Init, UniqueInv, GrantInv, GrantsDisjoint
  <1>2. Inv /\ [Next]_vars => Inv'
    BY NextGrant, NextUnique, FailedStays DEF GrantInv, TypeInv
  <1>3. Inv => UniqueInodes
    BY DEF UniqueInv, UniqueInodes
  <1> QED
    BY <1>1, <1>2, <1>3, PTL DEF Spec
=============================================================================
