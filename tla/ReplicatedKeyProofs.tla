------------------------ MODULE ReplicatedKeyProofs ------------------------
(***************************************************************************)
(* Proofs about a replicated key, for any number of clients and drives.    *)
(***************************************************************************)
EXTENDS ReplicatedKey, FiniteSetTheorems, TLAPS

USE ClientAssumption, DrivesAssumption, ModeAssumption, NoClientAssumption

-----------------------------------------------------------------------------
(* Typing.  The versions stay in range because every operation generates   *)
(* at most one and there are at most MaxOps of each client.                *)

\* The operations begun so far: the i-th of client c is <<c, i>>.
BegunOf(o) == {p \in Client \X (1 .. MaxOps) : p[2] <= o[p[1]]}
Begun == BegunOf(ops)

\* No version that a drive or a client holds is newer than this one.
Newest == IF Numbered THEN Cardinality(Begun) ELSE versions

Labels == {"idle", "stale", "write", "repair", "getversion", "fix", "verdict",
           "disable", "crashed"}

VersionsInv ==
    /\ versions <= 1 + Cardinality(Begun)
    /\ \A d \in Drive : disk[d].version <= Newest
    /\ \A c \in Client : /\ known[c] <= Newest /\ rec[c].version <= Newest
                         /\ ref[c].version <= Newest /\ seen[c] <= Newest

TypeInv == TypeOK /\ VersionsInv

LEMMA BegunBound ==
  ASSUME NEW o
  PROVE  /\ IsFiniteSet(BegunOf(o))
         /\ Cardinality(BegunOf(o)) \in Nat
         /\ MaxVersion \in Nat \ {0}
         /\ 1 + Cardinality(BegunOf(o)) <= MaxVersion
  <1> DEFINE All == Client \X (1 .. MaxOps)
  <1>1. IsFiniteSet(1 .. MaxOps) /\ Cardinality(1 .. MaxOps) = MaxOps
    BY FS_Interval
  <1>2. IsFiniteSet(All) /\ Cardinality(All) = Cardinality(Client) * MaxOps
    BY <1>1, FS_Product
  <1>3. Cardinality(Client) \in Nat /\ Cardinality(All) \in Nat
    BY <1>2, FS_CardinalityType
  <1>4. BegunOf(o) \in SUBSET All
    BY DEF BegunOf
  <1>5. IsFiniteSet(BegunOf(o)) /\ Cardinality(BegunOf(o)) <= Cardinality(All)
    BY <1>2, <1>4, FS_Subset
  <1>6. Cardinality(BegunOf(o)) \in Nat
    BY <1>5, FS_CardinalityType
  <1> HIDE DEF All
  <1> QED
    BY <1>2, <1>3, <1>5, <1>6 DEF MaxVersion

LEMMA BegunFacts ==
  /\ IsFiniteSet(Begun)
  /\ Cardinality(Begun) \in Nat
  /\ MaxVersion \in Nat \ {0}
  /\ 1 + Cardinality(Begun) <= MaxVersion
  BY BegunBound DEF Begun

LEMMA AbsentType == Absent \in Record /\ Initial \in Record
  BY BegunFacts DEF Absent, Initial, Record

LEMMA InitTyped == Init => TypeInv
  <1> SUFFICES ASSUME Init PROVE TypeInv
    OBVIOUS
  <1>1. TypeOK
    BY AbsentType, BegunFacts DEF Init, TypeOK, Drive, Reference, Initial, Absent
  <1>2. VersionsInv
    BY BegunFacts DEF Init, VersionsInv, Newest, Initial, Absent
  <1> QED
    BY <1>1, <1>2 DEF TypeInv

\* An operation more has been begun.
LEMMA BegunGrows ==
  ASSUME TypeOK, NEW c \in Client, ops[c] < MaxOps, ops' = [ops EXCEPT ![c] = @ + 1]
  PROVE  Cardinality(Begun') = Cardinality(Begun) + 1
  <1> DEFINE new == <<c, ops[c] + 1>>
  <1>1. ops[c] \in Nat /\ ops[c] + 1 \in 1 .. MaxOps /\ ops'[c] = ops[c] + 1
    BY DEF TypeOK
  <1>2. \A x \in Client \ {c} : ops'[x] = ops[x]
    BY DEF TypeOK
  <1>3. new \notin Begun
    BY <1>1 DEF Begun, BegunOf
  <1>4. Begun' = Begun \cup {new}
    <2>1. ASSUME NEW p \in Client \X (1 .. MaxOps)
          PROVE  p[2] <= ops'[p[1]] <=> (p[2] <= ops[p[1]] \/ p = new)
      <3>1. p = <<p[1], p[2]>> /\ p[1] \in Client /\ p[2] \in 1 .. MaxOps
        BY <2>1
      <3>2. CASE p[1] = c
        BY <1>1, <3>1, <3>2
      <3>3. CASE p[1] # c
        BY <1>2, <3>1, <3>3
      <3> QED
        BY <3>2, <3>3
    <2>2. new \in Client \X (1 .. MaxOps)
      BY <1>1
    <2> HIDE DEF new
    <2> QED
      BY <2>1, <2>2 DEF Begun, BegunOf
  <1> HIDE DEF new
  <1> QED
    BY <1>3, <1>4, BegunFacts, FS_AddElement

LEMMA NextTyped == TypeInv /\ [Next]_vars => TypeInv'
  <1> SUFFICES ASSUME TypeInv, [Next]_vars PROVE TypeInv'
    OBVIOUS
  <1> USE DEF repairVars
  <1>0. /\ TypeOK /\ VersionsInv /\ Cardinality(Begun) \in Nat /\ Newest \in Nat
        /\ 1 + Cardinality(Begun) <= MaxVersion /\ MaxVersion \in Nat
        /\ versions \in Nat
        /\ \A d \in Drive : disk[d] \in Record /\ disk[d].version \in Nat
        /\ \A c \in Client : /\ known[c] \in Nat /\ seen[c] \in Nat
                             /\ rec[c].version \in Nat /\ ref[c].version \in Nat
    BY BegunFacts DEF TypeInv, TypeOK, Newest, Record
  <1>1. ASSUME NEW c \in Client, NEW o \in Ops, Begin(c, o) PROVE TypeInv'
    <2> DEFINE r == rec'[c]
    <2> USE <1>0, <1>1 DEF Begin, Goto
    <2>1. Cardinality(Begun') = Cardinality(Begun) + 1
      BY BegunGrows
    <2>2. 1 + Cardinality(Begun') <= MaxVersion
      BY BegunBound DEF Begun
    <2>3. /\ versions' \in 1 .. MaxVersion /\ versions <= versions'
          /\ versions' <= 1 + Cardinality(Begun')
      BY <2>1, <2>2 DEF VersionsInv, TypeOK
    <2>4. Newest' \in Nat /\ Newest <= Newest' /\ Newest' <= MaxVersion
      BY <2>1, <2>2, <2>3 DEF Newest
    <2>5. r \in Record /\ r.version <= Newest' /\ r.version \in Nat
      <3>1. CASE o = "delete"
        BY <2>4, <3>1, AbsentType DEF TypeOK, Absent
      <3>2. CASE o # "delete" /\ Numbered
        <4>1. r = [version |-> known[c] + 1, by |-> c]
          BY <3>2 DEF TypeOK
        <4>2. known[c] + 1 <= Newest'
          BY <2>1, <3>2 DEF VersionsInv, Newest
        <4> QED
          BY <2>4, <4>1, <4>2 DEF Record
      <3>3. CASE o # "delete" /\ ~Numbered
        <4>1. r = [version |-> versions + 1, by |-> c]
          BY <3>3 DEF TypeOK
        <4>2. versions + 1 <= Newest'
          <5>1. o = "put"
            BY <3>3
          <5>2. versions' = versions + 1
            BY <3>3, <5>1
          <5> QED
            BY <3>3, <5>2 DEF Newest
        <4> QED
          BY <2>4, <4>1, <4>2 DEF Record
      <3> QED
        BY <3>1, <3>2, <3>3
    <2>6. rec' = [rec EXCEPT ![c] = r] /\ rec' \in [Client -> Record]
      BY <2>5 DEF TypeOK
    <2>7. TypeOK'
      BY <2>3, <2>6 DEF TypeOK
    <2>8. VersionsInv'
      BY <2>3, <2>4, <2>5, <2>6 DEF VersionsInv, TypeOK
    <2> QED
      BY <2>7, <2>8 DEF TypeInv
  \* All other steps copy versions that are there.
  <1>2. ASSUME UNCHANGED <<ops, versions>> PROVE Begun' = Begun /\ Newest' = Newest
    BY <1>2 DEF Begun, Newest
  <1>3. ASSUME NEW c \in Client, NEW d \in Drive, WriteDrive(c, d) PROVE TypeInv'
    <2> USE <1>0, <1>2, <1>3 DEF WriteDrive
    <2>1. disk' \in [Drive -> Record]
      BY DEF TypeOK
    <2>2. results' \in [Client -> [Drive -> {"none", "ok", "mismatch", "notfound"}]]
      BY DEF TypeOK, PutStatus, DeleteStatus
    <2>3. VersionsInv'
      BY DEF VersionsInv, TypeOK
    <2> QED
      BY <2>1, <2>2, <2>3 DEF TypeInv, TypeOK
  <1>4. ASSUME NEW c \in Client, NEW d \in Drive, Read(c, d) PROVE TypeInv'
    <2> USE <1>0, <1>2, <1>4 DEF Read, Goto
    <2>1. known' \in [Client -> 0 .. MaxVersion]
      BY DEF TypeOK, Record
    <2>2. VersionsInv'
      BY DEF VersionsInv, TypeOK
    <2> QED
      BY <2>1, <2>2 DEF TypeInv, TypeOK
  <1>5. ASSUME NEW c \in Client, NEW status, Return(c, status),
               UNCHANGED <<disk, versions, op, rec, results, repairVars, ops>>
        PROVE  TypeInv'
    <2> USE <1>0, <1>2, <1>5 DEF Return, Goto
    <2>1. rec[c] \in Record /\ rec[c].version \in 0 .. MaxVersion
      BY DEF TypeOK, Record
    <2>2. known' \in [Client -> 0 .. MaxVersion]
      BY <2>1 DEF TypeOK
    <2>3. acked' \subseteq (0 .. MaxVersion) \X Record
      BY <2>1 DEF TypeOK
    <2>4. VersionsInv'
      BY DEF VersionsInv, TypeOK
    <2> QED
      BY <2>2, <2>3, <2>4 DEF TypeInv, TypeOK
  <1>6. ASSUME NEW c \in Client, Evaluate(c) PROVE TypeInv'
    <2>1. CASE AllEqual(c)
      BY <1>5, <1>6, <2>1 DEF Evaluate
    <2>2. CASE ~AllEqual(c)
      <3> USE <1>0, <1>2, <1>6, <2>2 DEF Evaluate, Goto
      <3>1. VersionsInv'
        BY DEF VersionsInv, TypeOK
      <3> QED
        BY <3>1 DEF TypeInv, TypeOK
    <2> QED
      BY <2>1, <2>2
  <1>7. ASSUME NEW c \in Client, RepairGet(c) PROVE TypeInv'
    <2> USE <1>0, <1>2, <1>7 DEF RepairGet, Goto
    <2>1. Reference \in Drive /\ 1 \in Drive
      BY DEF Reference, Drive
    <2>2. VersionsInv'
      BY <2>1 DEF VersionsInv, TypeOK
    <2> QED
      BY <2>1, <2>2 DEF TypeInv, TypeOK
  <1>8. ASSUME NEW c \in Client, NextDrive(c) PROVE index' \in [Client -> Drive]
    <2>1. index[c] \in 1 .. NDrives /\ (index[c] # NDrives => index[c] + 1 \in Drive)
      BY <1>0 DEF TypeOK, Drive
    <2>2. CASE index' = index
      BY <1>0, <2>2 DEF TypeOK
    <2>3. CASE index[c] # NDrives /\ index' = [index EXCEPT ![c] = @ + 1]
      BY <1>0, <2>1, <2>3 DEF TypeOK
    <2> QED
      BY <1>8, <2>2, <2>3 DEF NextDrive
  <1>9. ASSUME NEW c \in Client, NextDrive(c) PROVE pc' \in [Client -> Labels]
    BY <1>0, <1>9 DEF NextDrive, Goto, TypeOK, Labels
  <1>10. ASSUME NEW c \in Client, RepairGetVersion(c) PROVE TypeInv'
    <2> USE <1>0, <1>2, <1>10 DEF RepairGetVersion
    <2>1. index[c] \in Drive
      BY DEF TypeOK
    <2>2. index' \in [Client -> Drive]
      BY <1>8 DEF TypeOK
    <2>3. pc' \in [Client -> Labels]
      BY <1>9 DEF TypeOK, Labels, Goto
    <2>4. seen' \in [Client -> 0 .. MaxVersion]
      BY <2>1 DEF TypeOK, Record
    <2>5. VersionsInv'
      BY <2>1 DEF VersionsInv, TypeOK
    <2> QED
      BY <2>2, <2>3, <2>4, <2>5 DEF TypeInv, TypeOK, Labels
  <1>11. ASSUME NEW c \in Client, RepairFix(c) PROVE TypeInv'
    <2> USE <1>0, <1>2, <1>11 DEF RepairFix
    <2>1. index' \in [Client -> Drive] /\ index[c] \in Drive
      BY <1>8 DEF TypeOK
    <2>2. pc' \in [Client -> Labels]
      BY <1>9 DEF TypeOK, Labels, Goto
    <2>3. disk' \in [Drive -> Record]
      BY <2>1 DEF TypeOK
    <2>4. VersionsInv'
      BY <2>1 DEF VersionsInv, TypeOK
    <2> QED
      BY <2>1, <2>2, <2>3, <2>4 DEF TypeInv, TypeOK, Labels
  <1>12. ASSUME NEW c \in Client, Verdict(c) PROVE TypeInv'
    BY <1>5, <1>12 DEF Verdict
  <1>13. ASSUME NEW c \in Client, Crash(c) PROVE TypeInv'
    <2> USE <1>0, <1>2, <1>13 DEF Crash, Goto
    <2>1. VersionsInv'
      BY DEF VersionsInv, TypeOK
    <2> QED
      BY <2>1 DEF TypeInv, TypeOK
  <1>14. CASE UNCHANGED vars
    <2>1. VersionsInv'
      BY <1>0, <1>2, <1>14 DEF VersionsInv, vars
    <2> QED
      BY <1>0, <1>14, <2>1 DEF TypeInv, TypeOK, vars
  <1> QED
    BY <1>1, <1>3, <1>4, <1>6, <1>7, <1>10, <1>11, <1>12, <1>13, <1>14 DEF Next

\* The drives and the operations keep their types, for any number of clients,
\* drives and operations: no operation generates a version out of range and no
\* readRepair leaves the drives of the partition.
THEOREM Typing == Spec => []TypeOK
  <1>1. TypeInv => TypeOK
    BY DEF TypeInv
  <1> QED
    BY <1>1, InitTyped, NextTyped, PTL DEF Spec

-----------------------------------------------------------------------------
(* One round: every client makes at most one operation, with the version   *)
(* that is on all drives at the start.  The record that reaches the        *)
(* reference drive first wins: no drive goes back to the initial record,   *)
(* the reference drive keeps the winner, and the other drives change from  *)
(* a record that lost to the winner only.                                  *)

OneRound == MaxOps = 1 /\ ~Numbered

Answered(c) == \A d \in Drive : results[c][d] # "none"
AllFollow == \A d \in Drive : disk[d] = disk[Reference]

RecInv(c) ==
    /\ rec[c].version # 1 /\ rec[c].version <= versions
    /\ rec[c].version = 0 => rec[c] = Absent
    /\ op[c] = "put" => rec[c].version # 0
    /\ op[c] = "delete" => rec[c] = Absent
    /\ \A x \in Client : rec[x].version = rec[c].version => rec[x] = rec[c]

\* Where the record of a drive comes from.
DriveInv(d) ==
    \/ disk[d] = Initial
    \/ d # Reference /\ disk[d] = disk[Reference]
    \/ \E x \in Client : results[x][d] = "ok" /\ disk[d] = rec[x]

\* What a client knows of the drives from the answers it has got.
ResultsInv(c) ==
    /\ \A d \in Drive : results[c][d] # "none" => ops[c] = 1 /\ disk[d] # Initial
    /\ \A d \in Drive : results[c][d] = "ok" => disk[d] \in {rec[c], disk[Reference]}
    /\ results[c][Reference] = "ok" => disk[Reference] = rec[c]

\* How far its operation has come.
ProgressInv(c) ==
    /\ ops[c] = 0 => pc[c] = "idle" /\ known[c] = 1
    /\ InOperation(c) => known[c] = 1 /\ op[c] \in {"put", "delete"}
    /\ pc[c] \in {"repair", "getversion", "fix", "verdict"} => Answered(c)
    /\ pc[c] \in {"getversion", "fix", "verdict"} => ref[c] = disk[Reference]
    /\ pc[c] \in {"getversion", "fix"} =>
         \A d \in Drive : d < index[c] => disk[d] = disk[Reference]
    /\ pc[c] = "fix" => /\ seen[c] # ref[c].version
                        /\ index[c] # Reference
                        /\ \/ disk[index[c]].version = seen[c]
                           \/ disk[index[c]] = disk[Reference]
    /\ pc[c] = "verdict" => AllFollow
    /\ pc[c] \in {"idle", "stale"} /\ ops[c] = 1 =>
         Answered(c) /\ ((\E d \in Drive : results[c][d] = "ok") => AllFollow)

AckedInv ==
    \A a \in acked : /\ a[1] = 1 /\ a[2] = disk[Reference]
                     /\ AllFollow /\ disk[Reference] # Initial

RoundInv ==
    /\ TypeInv
    /\ \A c \in Client : RecInv(c) /\ ResultsInv(c) /\ ProgressInv(c)
    /\ \A d \in Drive : DriveInv(d)
    /\ AckedInv

\* What a step may do to the drives.
DiskMoves ==
    /\ disk[Reference] # Initial => disk'[Reference] = disk[Reference]
    /\ \A d \in Drive : disk[d] # Initial =>
          disk'[d] \in {disk[d], disk'[Reference]} /\ disk'[d] # Initial

LEMMA ReferenceIsDrive == Reference \in Drive /\ 1 \in Drive
  BY DEF Reference, Drive

LEMMA InitialVersion ==
  ASSUME OneRound
  PROVE  Initial.version = 1 /\ Initial # Absent
  BY DEF OneRound, Initial, Absent

\* A version names a record.
LEMMA SameVersion ==
  ASSUME OneRound, RoundInv, NEW d \in Drive
  PROVE  /\ disk[d].version = 1 => disk[d] = Initial
         /\ disk[d].version = 0 => disk[d] = Absent
         /\ \A e \in Drive : disk[e].version = disk[d].version => disk[e] = disk[d]
         /\ \A c \in Client : rec[c].version = disk[d].version => rec[c] = disk[d]
  <1>1. \A e \in Drive : disk[e] = Initial \/ \E x \in Client : disk[e] = rec[x]
    BY ReferenceIsDrive DEF RoundInv, DriveInv
  <1>2. \A x, y \in Client : /\ rec[x].version # 1
                             /\ rec[x].version = 0 => rec[x] = Absent
                             /\ rec[x].version = rec[y].version => rec[x] = rec[y]
    BY DEF RoundInv, RecInv
  <1> QED
    BY <1>1, <1>2, InitialVersion

\* The clients that do nothing in a step.
LEMMA OthersKeep ==
  ASSUME RoundInv, DiskMoves, NEW c \in Client,
         pc'[c] = pc[c], op'[c] = op[c], known'[c] = known[c], rec'[c] = rec[c],
         results'[c] = results[c], ref'[c] = ref[c], index'[c] = index[c],
         seen'[c] = seen[c], ops'[c] = ops[c]
  PROVE  ResultsInv(c)' /\ ProgressInv(c)'
  <1>0. ResultsInv(c) /\ ProgressInv(c) /\ Reference \in Drive
    BY ReferenceIsDrive DEF RoundInv
  <1>1. ASSUME disk[Reference] # Initial
        PROVE  \A d \in Drive : disk[d] = disk[Reference] => disk'[d] = disk'[Reference]
    BY <1>0, <1>1 DEF DiskMoves
  <1>2. ResultsInv(c)'
    BY <1>0, <1>1 DEF ResultsInv, DiskMoves
  <1>3. Answered(c) => disk[Reference] # Initial
    BY <1>0 DEF Answered, ResultsInv
  <1>4. Answered(c)' <=> Answered(c)
    BY DEF Answered
  <1>5. Answered(c) /\ AllFollow => AllFollow'
    BY <1>1, <1>3 DEF AllFollow
  <1>6. pc[c] \in {"repair", "getversion", "fix", "verdict"} =>
          /\ Answered(c) /\ disk'[Reference] = disk[Reference]
          /\ \A d \in Drive : disk[d] = disk[Reference] => disk'[d] = disk'[Reference]
    BY <1>0, <1>1, <1>3 DEF ProgressInv, DiskMoves
  <1>7. pc[c] = "fix" => /\ seen'[c] # ref'[c].version
                         /\ index'[c] # Reference
                         /\ \/ disk'[index'[c]].version = seen'[c]
                            \/ disk'[index'[c]] = disk'[Reference]
    <2> SUFFICES ASSUME pc[c] = "fix"
                 PROVE  \/ disk'[index[c]].version = seen[c]
                        \/ disk'[index[c]] = disk'[Reference]
      BY <1>0 DEF ProgressInv
    <2>1. index[c] \in Drive /\ disk[index[c]] # Initial
      BY <1>0, <1>6 DEF RoundInv, TypeInv, TypeOK, ResultsInv, Answered
    <2> QED
      BY <1>0, <1>6, <2>1 DEF ProgressInv, DiskMoves
  <1>8. ProgressInv(c)'
    BY <1>0, <1>4, <1>5, <1>6, <1>7 DEF ProgressInv, InOperation
  <1> QED
    BY <1>2, <1>8

\* Steps of client c that leave its record alone: what remains to be shown.
LEMMA OwnSuffices ==
  ASSUME RoundInv, TypeInv', DiskMoves, NEW c \in Client,
         UNCHANGED <<versions, op, rec, ops>>,
         \A x \in Client \ {c} :
            /\ pc'[x] = pc[x] /\ known'[x] = known[x] /\ results'[x] = results[x]
            /\ ref'[x] = ref[x] /\ index'[x] = index[x] /\ seen'[x] = seen[x],
         \A d \in Drive : results[c][d] = "ok" => results'[c][d] = "ok",
         \A d \in Drive : disk'[d] \in {disk[d], disk'[Reference]} \/
                          (results'[c][d] = "ok" /\ disk'[d] = rec[c]),
         disk'[Reference] = disk[Reference] \/
            (results'[c][Reference] = "ok" /\ disk'[Reference] = rec[c]),
         \A a \in acked' \ acked : /\ a[1] = 1 /\ a[2] = disk'[Reference]
                                   /\ AllFollow' /\ disk'[Reference] # Initial,
         ResultsInv(c)', ProgressInv(c)'
  PROVE  RoundInv'
  <1>1. ASSUME NEW x \in Client
        PROVE  RecInv(x)' /\ ResultsInv(x)' /\ ProgressInv(x)'
    <2>1. RecInv(x)'
      BY DEF RoundInv, RecInv
    <2>2. CASE x = c
      BY <2>1, <2>2
    <2>3. CASE x # c
      BY <2>1, <2>3, OthersKeep
    <2> QED
      BY <2>2, <2>3
  <1>2. ASSUME NEW d \in Drive PROVE DriveInv(d)'
    <2>0. \A x \in Client : results[x][d] = "ok" => results'[x][d] = "ok"
      OBVIOUS
    <2>1. CASE disk'[d] = disk[d]
      <3>1. CASE \E x \in Client : results[x][d] = "ok" /\ disk[d] = rec[x]
        BY <2>0, <2>1, <3>1 DEF DriveInv
      <3>2. CASE d # Reference /\ disk[d] = disk[Reference]
        BY <2>1, <3>2, ReferenceIsDrive DEF DriveInv, DiskMoves
      <3>3. CASE disk[d] = Initial
        BY <2>1, <3>3 DEF DriveInv, Initial
      <3> QED
        BY <3>1, <3>2, <3>3 DEF RoundInv, DriveInv
    <2>2. CASE disk'[d] # disk[d]
      BY <2>2 DEF DriveInv
    <2> QED
      BY <2>1, <2>2
  <1>3. AckedInv'
    <2> SUFFICES ASSUME NEW a \in acked
                 PROVE  /\ a[1] = 1 /\ a[2] = disk'[Reference]
                        /\ AllFollow' /\ disk'[Reference] # Initial
      BY DEF AckedInv, Initial
    <2>1. /\ a[1] = 1 /\ a[2] = disk[Reference]
          /\ AllFollow /\ disk[Reference] # Initial
      BY DEF RoundInv, AckedInv
    <2>2. disk'[Reference] = disk[Reference]
      BY <2>1 DEF DiskMoves
    <2>3. AllFollow'
      BY <2>1, <2>2 DEF AllFollow, DiskMoves
    <2> QED
      BY <2>1, <2>2, <2>3
  <1> QED
    BY <1>1, <1>2, <1>3 DEF RoundInv

LEMMA InitRound == OneRound /\ Init => RoundInv
  <1> SUFFICES ASSUME OneRound, Init PROVE RoundInv
    OBVIOUS
  <1>1. ASSUME NEW c \in Client PROVE RecInv(c) /\ ResultsInv(c) /\ ProgressInv(c)
    BY <1>1, InitialVersion, ReferenceIsDrive
       DEF Init, RecInv, ResultsInv, ProgressInv, Absent, InOperation
  <1>2. ASSUME NEW d \in Drive PROVE DriveInv(d)
    BY <1>2 DEF Init, DriveInv
  <1>3. AckedInv
    BY DEF Init, AckedInv
  <1> QED
    BY <1>1, <1>2, <1>3, InitTyped DEF RoundInv

\* Nothing happens to the drives.
LEMMA DiskRests ==
  ASSUME UNCHANGED disk
  PROVE  DiskMoves /\ (AllFollow' <=> AllFollow)
  BY DEF DiskMoves, AllFollow, Initial

\* The operation returns.
LEMMA ReturnRound ==
  ASSUME OneRound, RoundInv, TypeInv', NEW c \in Client, NEW status,
         InOperation(c), Answered(c), Return(c, status),
         UNCHANGED <<disk, versions, op, rec, results, repairVars, ops>>,
         status = "ok" => AllFollow /\ rec[c] = disk[Reference],
         (\E d \in Drive : results[c][d] = "ok") => AllFollow
  PROVE  RoundInv'
  <1> USE DEF repairVars
  <1>0. ResultsInv(c) /\ ProgressInv(c) /\ TypeOK /\ Reference \in Drive
    BY ReferenceIsDrive DEF RoundInv, TypeInv
  <1>1. DiskMoves /\ (AllFollow' <=> AllFollow) /\ (Answered(c)' <=> Answered(c))
    BY DiskRests DEF Answered
  <1>2. pc'[c] \in {"idle", "stale"} /\ ops[c] # 0
    BY <1>0 DEF Return, Goto, TypeOK, ProgressInv, InOperation
  <1>3. ResultsInv(c)'
    BY <1>0 DEF ResultsInv, Initial
  <1>4. ProgressInv(c)'
    BY <1>0, <1>1, <1>2 DEF ProgressInv, InOperation
  <1>5. \A a \in acked' \ acked : /\ a[1] = 1 /\ a[2] = disk'[Reference]
                                  /\ AllFollow' /\ disk'[Reference] # Initial
    BY <1>0, <1>1 DEF Return, ProgressInv, ResultsInv, Answered
  <1>6. \A x \in Client \ {c} :
            /\ pc'[x] = pc[x] /\ known'[x] = known[x] /\ results'[x] = results[x]
            /\ ref'[x] = ref[x] /\ index'[x] = index[x] /\ seen'[x] = seen[x]
    BY <1>0 DEF Return, Goto, TypeOK
  <1> QED
    BY <1>1, <1>3, <1>4, <1>5, <1>6, OwnSuffices

LEMMA BeginRound ==
  ASSUME OneRound, RoundInv, TypeInv', NEW c \in Client, NEW o \in Ops, Begin(c, o)
  PROVE  RoundInv'
  <1> USE DEF Begin, Goto, repairVars
  <1>0. TypeOK /\ Reference \in Drive /\ \A x \in Client : ProgressInv(x) /\ ResultsInv(x)
    BY ReferenceIsDrive DEF RoundInv, TypeInv
  <1>1. /\ ops[c] = 0 /\ ops'[c] = 1 /\ pc'[c] = "write" /\ op'[c] = o
        /\ o \in {"put", "delete"}
        /\ \A d \in Drive : results[c][d] = "none" /\ results'[c][d] = "none"
        /\ known'[c] = 1 /\ known[c] = 1
    BY <1>0 DEF TypeOK, OneRound, ProgressInv, ResultsInv
  <1>2. \A x \in Client \ {c} :
          /\ pc'[x] = pc[x] /\ op'[x] = op[x] /\ known'[x] = known[x]
          /\ rec'[x] = rec[x] /\ results'[x] = results[x] /\ ref'[x] = ref[x]
          /\ index'[x] = index[x] /\ seen'[x] = seen[x] /\ ops'[x] = ops[x]
    BY <1>0 DEF TypeOK
  <1>3. DiskMoves /\ UNCHANGED <<disk, acked>>
    BY DiskRests
  <1>4. /\ o = "delete" => rec'[c] = Absent /\ versions' = versions
        /\ o = "put" => rec'[c].version = versions + 1 /\ versions' = versions + 1
        /\ versions \in Nat \ {0}
    BY <1>0, <1>1 DEF TypeOK, OneRound
  <1>5. \A x \in Client : RecInv(x) /\ rec[x].version \in Nat
    BY <1>0 DEF RoundInv, TypeOK, Record
  <1>6. ASSUME NEW x \in Client PROVE RecInv(x)'
    <2>1. \A y \in Client : y # c => /\ rec'[y] = rec[y] /\ rec'[y].version # versions + 1
                                     /\ rec'[y].version = 0 => rec'[y] = Absent
      BY <1>2, <1>4, <1>5 DEF RecInv
    <2>2. RecInv(c)'
      BY <1>1, <1>4, <2>1 DEF RecInv, Absent
    <2>3. CASE x # c
      BY <1>1, <1>2, <1>4, <1>5, <2>1, <2>3 DEF RecInv, Absent
    <2> QED
      BY <2>2, <2>3
  <1>7. ResultsInv(c)' /\ ProgressInv(c)'
    BY <1>0, <1>1 DEF ResultsInv, ProgressInv, InOperation
  <1>8. ASSUME NEW x \in Client \ {c} PROVE ResultsInv(x)' /\ ProgressInv(x)'
    BY <1>2, <1>3, OthersKeep
  <1>9. ASSUME NEW d \in Drive PROVE DriveInv(d)'
    <2>1. \A x \in Client : results[x][d] = "ok" => x # c
      BY <1>1
    <2> QED
      BY <1>2, <1>3, <2>1 DEF RoundInv, DriveInv, Initial
  <1>10. AckedInv'
    BY <1>3 DEF RoundInv, AckedInv, AllFollow, Initial
  <1> QED
    BY <1>6, <1>7, <1>8, <1>9, <1>10 DEF RoundInv

LEMMA WriteDriveRound ==
  ASSUME OneRound, RoundInv, TypeInv', NEW c \in Client, NEW d \in Drive, WriteDrive(c, d)
  PROVE  RoundInv'
  <1> DEFINE status == results'[c][d]
  <1> USE DEF WriteDrive, repairVars
  <1>0. /\ TypeOK /\ Reference \in Drive /\ ResultsInv(c) /\ ProgressInv(c)
        /\ RecInv(c)
    BY ReferenceIsDrive DEF RoundInv, TypeInv
  <1>1. known[c] = 1 /\ op[c] \in {"put", "delete"} /\ ops[c] = 1 /\ pc'[c] = "write"
    BY <1>0 DEF ProgressInv, InOperation, OneRound, TypeOK
  <1>2. /\ status \in {"ok", "mismatch", "notfound"}
        /\ status = "ok" => disk[d] = Initial /\ disk' = [disk EXCEPT ![d] = rec[c]]
        /\ status # "ok" => disk[d] # Initial /\ disk' = disk
    BY <1>0, <1>1, SameVersion, InitialVersion DEF TypeOK, PutStatus, DeleteStatus
  <1>3. /\ \A e \in Drive \ {d} : results'[c][e] = results[c][e] /\ disk'[e] = disk[e]
        /\ status = "ok" => disk'[d] = rec[c]
        /\ \A x \in Client \ {c} : results'[x] = results[x]
    BY <1>0, <1>2 DEF TypeOK
  <1>4. rec[c] # Initial
    BY <1>0, InitialVersion DEF RecInv
  <1> HIDE DEF WriteDrive, status
  <1>5. DiskMoves
    BY <1>0, <1>2, <1>3, <1>4 DEF DiskMoves
  <1>6. ResultsInv(c)'
    <2>1. ASSUME NEW e \in Drive, results'[c][e] # "none" PROVE disk'[e] # Initial
      BY <1>0, <1>2, <1>3, <1>4, <2>1 DEF ResultsInv, status
    <2>2. ASSUME NEW e \in Drive, results'[c][e] = "ok"
          PROVE  disk'[e] \in {rec[c], disk'[Reference]}
      <3>1. CASE e = d
        BY <1>3, <2>2, <3>1 DEF status
      <3>2. CASE e # d
        <4>1. results[c][e] = "ok" /\ disk'[e] = disk[e] /\ disk[e] # Initial
              /\ disk[e] \in {rec[c], disk[Reference]}
          BY <1>0, <1>3, <2>2, <3>2 DEF ResultsInv
        <4> QED
          BY <4>1, <1>5 DEF DiskMoves
      <3> QED
        BY <3>1, <3>2
    <2>3. results'[c][Reference] = "ok" => disk'[Reference] = rec[c]
      BY <1>0, <1>2, <1>3 DEF ResultsInv, status
    <2>4. UNCHANGED <<rec, ops>> /\ Initial' = Initial
      BY DEF WriteDrive, Initial
    <2> QED
      BY <1>1, <2>1, <2>2, <2>3, <2>4 DEF ResultsInv
  <1>7. ProgressInv(c)'
    BY <1>0, <1>1 DEF WriteDrive, ProgressInv, InOperation
  <1>8. \A a \in acked' \ acked : FALSE
    BY DEF WriteDrive
  <1>9. \A e \in Drive : results[c][e] = "ok" => results'[c][e] = "ok"
    BY <1>3, <1>0 DEF WriteDrive
  <1>10. /\ \A e \in Drive : disk'[e] = disk[e] \/ (results'[c][e] = "ok" /\ disk'[e] = rec[c])
    BY <1>2, <1>3 DEF status
  <1>11. UNCHANGED <<versions, pc, op, known, rec, ref, index, seen, ops>>
    BY DEF WriteDrive
  <1> QED
    BY <1>0, <1>3, <1>5, <1>6, <1>7, <1>8, <1>9, <1>10, <1>11, OwnSuffices

LEMMA EvaluateRound ==
  ASSUME OneRound, RoundInv, TypeInv', NEW c \in Client, Evaluate(c)
  PROVE  RoundInv'
  <1> USE DEF Evaluate, repairVars
  <1>0. /\ TypeOK /\ Reference \in Drive /\ ResultsInv(c) /\ ProgressInv(c)
        /\ Answered(c) /\ InOperation(c)
    BY ReferenceIsDrive DEF RoundInv, TypeInv, Answered, InOperation
  <1>1. CASE AllEqual(c)
    <2>1. (\E d \in Drive : results[c][d] = "ok") =>
             /\ \A d \in Drive : results[c][d] = "ok"
             /\ results[c][Reference] = "ok"
      BY <1>0, <1>1 DEF AllEqual
    <2>2. results[c][Reference] = "ok" => rec[c] = disk[Reference] /\ AllFollow
      BY <1>0, <1>1, <2>1 DEF ResultsInv, AllFollow
    <2>3. Return(c, results[c][Reference])
      BY <1>1
    <2> QED
      BY <1>0, <2>1, <2>2, <2>3, ReturnRound
  <1>2. CASE ~AllEqual(c)
    <2>1. pc'[c] \in {"disable", "repair"} /\ \A x \in Client \ {c} : pc'[x] = pc[x]
      BY <1>0, <1>2 DEF Goto, TypeOK
    <2>2. /\ UNCHANGED <<disk, versions, op, rec, results, ref, index, seen, ops, known, acked>>
          /\ DiskMoves /\ (Answered(c)' <=> Answered(c))
      BY <1>2, DiskRests DEF Answered
    <2>3. ResultsInv(c)'
      BY <1>0, <2>2 DEF ResultsInv, Initial
    <2>4. ProgressInv(c)'
      BY <1>0, <2>1, <2>2 DEF ProgressInv, InOperation
    <2> QED
      BY <2>1, <2>2, <2>3, <2>4, OwnSuffices
  <1> QED
    BY <1>1, <1>2

LEMMA RepairGetRound ==
  ASSUME OneRound, RoundInv, TypeInv', NEW c \in Client, RepairGet(c)
  PROVE  RoundInv'
  <1> USE DEF RepairGet
  <1>0. TypeOK /\ ResultsInv(c) /\ ProgressInv(c) /\ \A d \in Drive : ~(d < 1)
    BY DEF RoundInv, TypeInv, Drive
  <1>1. /\ pc'[c] = "getversion" /\ ref'[c] = disk[Reference] /\ index'[c] = 1
        /\ \A x \in Client \ {c} : pc'[x] = pc[x] /\ ref'[x] = ref[x] /\ index'[x] = index[x]
    BY <1>0 DEF Goto, TypeOK
  <1>2. /\ UNCHANGED <<disk, versions, op, rec, results, seen, ops, known, acked>>
        /\ DiskMoves /\ (Answered(c)' <=> Answered(c))
    BY DiskRests DEF Answered
  <1>3. ResultsInv(c)'
    BY <1>0, <1>2 DEF ResultsInv, Initial
  <1>4. ProgressInv(c)'
    BY <1>0, <1>1, <1>2 DEF ProgressInv, InOperation
  <1> QED
    BY <1>1, <1>2, <1>3, <1>4, OwnSuffices

\* The loop of readRepair goes on with the drives up to this one repaired.
LEMMA NextDriveRound ==
  ASSUME TypeOK, NEW c \in Client, NextDrive(c),
         \A d \in Drive : d <= index[c] => disk'[d] = disk'[Reference]
  PROVE  /\ pc'[c] \in {"getversion", "verdict"}
         /\ pc'[c] = "getversion" =>
              \A d \in Drive : d < index'[c] => disk'[d] = disk'[Reference]
         /\ pc'[c] = "verdict" => AllFollow'
         /\ \A x \in Client \ {c} : pc'[x] = pc[x] /\ index'[x] = index[x]
  <1>1. CASE index[c] = NDrives
    <2>1. pc'[c] = "verdict" /\ \A d \in Drive : d <= index[c]
      BY <1>1 DEF NextDrive, Goto, TypeOK, Drive
    <2> QED
      BY <1>1, <2>1 DEF NextDrive, Goto, TypeOK, AllFollow
  <1>2. CASE index[c] # NDrives
    <2>1. pc'[c] = "getversion" /\ index'[c] = index[c] + 1 /\ index[c] \in Nat
      BY <1>2 DEF NextDrive, Goto, TypeOK, Drive
    <2>2. \A d \in Drive : d < index'[c] => d <= index[c]
      BY <2>1 DEF Drive
    <2> QED
      BY <1>2, <2>1, <2>2 DEF NextDrive, Goto, TypeOK
  <1> QED
    BY <1>1, <1>2

LEMMA RepairGetVersionRound ==
  ASSUME OneRound, RoundInv, TypeInv', NEW c \in Client, RepairGetVersion(c)
  PROVE  RoundInv'
  <1> DEFINE version == disk[index[c]].version
  <1> USE DEF RepairGetVersion
  <1>0. /\ TypeOK /\ ResultsInv(c) /\ ProgressInv(c) /\ index[c] \in Drive
        /\ Reference \in Drive
    BY ReferenceIsDrive DEF RoundInv, TypeInv, TypeOK
  <1>1. /\ UNCHANGED <<disk, versions, op, rec, results, ref, ops, known, acked>>
        /\ DiskMoves /\ (Answered(c)' <=> Answered(c))
        /\ seen'[c] = version /\ \A x \in Client \ {c} : seen'[x] = seen[x]
    BY <1>0, DiskRests DEF Answered, TypeOK
  <1>2. /\ ref[c] = disk[Reference] /\ Answered(c) /\ known[c] = 1
        /\ op[c] \in {"put", "delete"} /\ ops[c] # 0
        /\ \A d \in Drive : d < index[c] => disk[d] = disk[Reference]
    BY <1>0 DEF ProgressInv, InOperation
  <1>3. ResultsInv(c)'
    BY <1>0, <1>1 DEF ResultsInv, Initial
  <1>4. CASE version = ref[c].version
    <2>1. disk[index[c]] = disk[Reference]
      BY <1>0, <1>2, <1>4, SameVersion
    <2>2. \A d \in Drive : d <= index[c] => disk'[d] = disk'[Reference]
      BY <1>0, <1>1, <1>2, <2>1 DEF Drive
    <2>3. NextDrive(c)
      BY <1>4
    <2>4. /\ pc'[c] \in {"getversion", "verdict"}
          /\ pc'[c] = "getversion" =>
               \A d \in Drive : d < index'[c] => disk'[d] = disk'[Reference]
          /\ pc'[c] = "verdict" => AllFollow'
          /\ \A x \in Client \ {c} : pc'[x] = pc[x] /\ index'[x] = index[x]
      BY <1>0, <2>2, <2>3, NextDriveRound
    <2>5. ProgressInv(c)'
      BY <1>1, <1>2, <2>4 DEF ProgressInv, InOperation
    <2> QED
      BY <1>1, <1>3, <2>4, <2>5, OwnSuffices
  <1>5. CASE version # ref[c].version
    <2>1. /\ pc'[c] = "fix" /\ index' = index /\ \A x \in Client \ {c} : pc'[x] = pc[x]
      BY <1>0, <1>5 DEF Goto, TypeOK
    <2>2. ProgressInv(c)'
      BY <1>1, <1>2, <1>5, <2>1 DEF ProgressInv, InOperation
    <2> QED
      BY <1>1, <1>3, <2>1, <2>2, OwnSuffices
  <1> QED
    BY <1>4, <1>5

LEMMA RepairFixRound ==
  ASSUME OneRound, RoundInv, TypeInv', NEW c \in Client, RepairFix(c)
  PROVE  RoundInv'
  <1> DEFINE d == index[c]
             status == IF ref[c] = Absent THEN DeleteStatus(disk[d], seen[c])
                       ELSE PutStatus(disk[d], seen[c])
  <1>0. /\ TypeOK /\ ResultsInv(c) /\ ProgressInv(c) /\ d \in Drive
        /\ Reference \in Drive
    BY ReferenceIsDrive DEF RoundInv, TypeInv, TypeOK
  <1>1. /\ UNCHANGED <<versions, op, rec, results, ref, seen, ops, known, acked>>
        /\ (Answered(c)' <=> Answered(c))
        /\ pc[c] = "fix"
        /\ disk' = IF status = "ok" THEN [disk EXCEPT ![d] = ref[c]] ELSE disk
        /\ IF status = "mismatch" /\ d = Reference
           THEN Goto(c, "verdict") /\ UNCHANGED index
           ELSE NextDrive(c)
    BY DEF RepairFix, Answered
  <1>2. /\ ref[c] = disk[Reference] /\ Answered(c) /\ known[c] = 1
        /\ op[c] \in {"put", "delete"} /\ ops[c] # 0
        /\ \A e \in Drive : e < d => disk[e] = disk[Reference]
        /\ seen[c] # ref[c].version /\ d # Reference
        /\ disk[d].version = seen[c] \/ disk[d] = disk[Reference]
    BY <1>0, <1>1 DEF ProgressInv, InOperation
  <1>3. disk'[Reference] = disk[Reference] /\ disk[Reference] # Initial
    BY <1>0, <1>1, <1>2 DEF TypeOK, ResultsInv, Answered
  <1>4. disk'[d] = disk[Reference]
    <2>1. CASE status = "ok"
      BY <1>0, <1>1, <1>2, <2>1 DEF TypeOK
    <2>2. CASE status # "ok"
      <3>1. (disk[d] = Absent /\ ref[c] = Absent) \/ disk[d].version # seen[c]
        BY <2>2 DEF DeleteStatus, PutStatus
      <3> QED
        BY <1>1, <1>2, <2>2, <3>1
    <2> QED
      BY <2>1, <2>2
  <1>5. \A e \in Drive \ {d} : disk'[e] = disk[e]
    BY <1>0, <1>1 DEF TypeOK
  <1>6. DiskMoves
    BY <1>0, <1>3, <1>4, <1>5 DEF DiskMoves
  <1>7. \A e \in Drive : e <= d => disk'[e] = disk'[Reference]
    BY <1>0, <1>2, <1>3, <1>4, <1>5 DEF Drive
  <1>8. /\ pc'[c] \in {"getversion", "verdict"}
        /\ pc'[c] = "getversion" =>
             \A e \in Drive : e < index'[c] => disk'[e] = disk'[Reference]
        /\ pc'[c] = "verdict" => AllFollow'
        /\ \A x \in Client \ {c} : pc'[x] = pc[x] /\ index'[x] = index[x]
    BY <1>0, <1>1, <1>2, <1>7, NextDriveRound
  <1>9. ResultsInv(c)'
    BY <1>0, <1>1, <1>3, <1>4, <1>5 DEF ResultsInv, Initial
  <1>10. ProgressInv(c)'
    BY <1>1, <1>2, <1>3, <1>8 DEF ProgressInv, InOperation
  <1>11. \A e \in Drive : disk'[e] \in {disk[e], disk'[Reference]}
    BY <1>3, <1>4, <1>5
  <1> HIDE DEF status, d
  <1> QED
    BY <1>1, <1>3, <1>6, <1>8, <1>9, <1>10, <1>11, OwnSuffices

LEMMA VerdictRound ==
  ASSUME OneRound, RoundInv, TypeInv', NEW c \in Client, Verdict(c)
  PROVE  RoundInv'
  <1>0. /\ pc[c] = "verdict" /\ ref[c] = disk[Reference] /\ AllFollow /\ Answered(c)
        /\ InOperation(c) /\ op[c] \in {"put", "delete"} /\ RecInv(c)
        /\ Reference \in Drive
    BY ReferenceIsDrive DEF Verdict, RoundInv, ProgressInv, InOperation
  <1>1. PICK status : /\ Return(c, status)
                      /\ status = "ok" => IF op[c] = "put"
                                          THEN ref[c].version = rec[c].version
                                          ELSE ref[c] = Absent
    BY DEF Verdict
  <1>2. status = "ok" => rec[c] = disk[Reference]
    BY <1>0, <1>1, SameVersion DEF RecInv
  <1> QED
    BY <1>0, <1>1, <1>2, ReturnRound DEF Verdict

LEMMA ReadCrashRound ==
  ASSUME OneRound, RoundInv, TypeInv', NEW c \in Client,
         Crash(c) \/ \E d \in Drive : Read(c, d)
  PROVE  RoundInv'
  <1> USE DEF Read, Crash, repairVars
  <1>0. TypeOK /\ ResultsInv(c) /\ ProgressInv(c)
    BY DEF RoundInv, TypeInv
  <1>1. /\ UNCHANGED <<disk, versions, op, rec, results, ref, index, seen, ops, acked>>
        /\ DiskMoves /\ (Answered(c)' <=> Answered(c)) /\ (AllFollow' <=> AllFollow)
        /\ \A x \in Client \ {c} : pc'[x] = pc[x] /\ known'[x] = known[x]
    BY <1>0, DiskRests DEF Answered, Goto, TypeOK
  <1>2. /\ pc'[c] \in {"idle", "crashed"} /\ ops[c] # 0
        /\ pc'[c] = "idle" => pc[c] \in {"idle", "stale"}
    BY <1>0 DEF Goto, TypeOK, ProgressInv, InOperation
  <1>3. ResultsInv(c)'
    BY <1>0, <1>1 DEF ResultsInv, Initial
  <1>4. ProgressInv(c)'
    BY <1>0, <1>1, <1>2 DEF ProgressInv, InOperation
  <1> QED
    BY <1>1, <1>3, <1>4, OwnSuffices

LEMMA NextRound == OneRound /\ RoundInv /\ [Next]_vars => RoundInv'
  <1> SUFFICES ASSUME OneRound, RoundInv, [Next]_vars PROVE RoundInv'
    OBVIOUS
  <1>0. TypeInv'
    BY NextTyped DEF RoundInv
  <1>1. CASE UNCHANGED vars
    <2>1. DiskMoves /\ (AllFollow' <=> AllFollow)
      BY <1>1, DiskRests DEF vars
    <2>2. \A c \in Client : RecInv(c)' /\ ResultsInv(c)' /\ ProgressInv(c)'
      BY <1>1, <2>1, OthersKeep DEF RoundInv, RecInv, vars
    <2>3. (\A d \in Drive : DriveInv(d)') /\ AckedInv'
      BY <1>1, <2>1 DEF RoundInv, DriveInv, AckedInv, Initial, vars
    <2> QED
      BY <1>0, <2>2, <2>3 DEF RoundInv
  <1> QED
    BY <1>0, <1>1, BeginRound, WriteDriveRound, EvaluateRound, RepairGetRound,
       RepairGetVersionRound, RepairFixRound, VerdictRound, ReadCrashRound DEF Next

\* In one round of concurrent puts and deletes, at most one of the operations
\* that require the same version returns OK, whatever the order in which the
\* drives serve the requests, the number of readRepairs that run at the same
\* time and the clients that crash in between.
THEOREM OneWinnerCorrect ==
  ASSUME OneRound
  PROVE  Spec => []OneWinner
  <1>1. RoundInv => OneWinner
    <2> SUFFICES ASSUME RoundInv, NEW a \in acked, NEW b \in acked PROVE a = b
      BY DEF OneWinner
    <2>1. a \in (0 .. MaxVersion) \X Record /\ b \in (0 .. MaxVersion) \X Record
      BY DEF RoundInv, TypeInv, TypeOK
    <2> QED
      BY <2>1 DEF RoundInv, AckedInv
  <1>2. RoundInv /\ [Next]_vars => RoundInv'
    BY NextRound
  <1>3. Init => RoundInv
    BY InitRound
  <1> QED
    BY <1>1, <1>2, <1>3, PTL DEF Spec

\* In one round, an operation that returned OK is on every drive from then on:
\* no write that was delayed and no readRepair of an operation that lost
\* changes a drive again.
THEOREM AckedCorrect ==
  ASSUME OneRound
  PROVE  Spec => []AckedOnAllDrives
  <1>1. RoundInv => AckedOnAllDrives
    BY DEF RoundInv, AckedInv, AckedOnAllDrives, AllFollow
  <1>2. RoundInv /\ [Next]_vars => RoundInv'
    BY NextRound
  <1>3. Init => RoundInv
    BY InitRound
  <1> QED
    BY <1>1, <1>2, <1>3, PTL DEF Spec

\* In one round, when every operation has returned and none was cut short by a
\* crash or by disabling a drive, readRepair has made the drives equal.
THEOREM DrivesAgreeCorrect ==
  ASSUME OneRound
  PROVE  Spec => []DrivesAgree
  <1>1. RoundInv => DrivesAgree
    <2> SUFFICES ASSUME RoundInv, \A c \in Client : pc[c] \in {"idle", "stale"}
                 PROVE  AllFollow
      BY DEF DrivesAgree, AllFollow
    <2>1. \A c \in Client : /\ ResultsInv(c) /\ ProgressInv(c) /\ ops[c] \in {0, 1}
      BY DEF RoundInv, TypeInv, TypeOK, OneRound
    <2>2. CASE \E c \in Client, d \in Drive : results[c][d] = "ok"
      BY <2>1, <2>2 DEF ResultsInv, ProgressInv
    <2>3. CASE \A c \in Client, d \in Drive : results[c][d] # "ok"
      BY <2>3, ReferenceIsDrive DEF RoundInv, DriveInv, AllFollow
    <2> QED
      BY <2>2, <2>3
  <1>2. RoundInv /\ [Next]_vars => RoundInv'
    BY NextRound
  <1>3. Init => RoundInv
    BY InitRound
  <1> QED
    BY <1>1, <1>2, <1>3, PTL DEF Spec
=============================================================================
