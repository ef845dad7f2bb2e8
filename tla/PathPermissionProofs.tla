------------------------ MODULE PathPermissionProofs ------------------------
(***************************************************************************)
(* Proofs about the path permissions, for any number of clients, any depth *)
(* of the path, any users and any permissions.                             *)
(***************************************************************************)
EXTENDS PathPermission, FiniteSetTheorems, SequenceTheorems, TLAPS

USE PathAssumption

-----------------------------------------------------------------------------
(* Reachability entries.                                                   *)

Uids == {p.uid : p \in Perm \cup {Open}}
Gids == {p.gid : p \in Perm \cup {Open}}
Perms == [uid : Uids, gid : Gids, x : {p.x : p \in Perm \cup {Open}}]

\* What the entries of a directory are for.
RestrictionTypes(x) ==
    {t \in Types :
        \/ t = "UID_OR_GID" /\ "other" \notin x /\ "user" \in x /\ "group" \in x
        \/ t = "UID" /\ "other" \notin x /\ "user" \in x /\ "group" \notin x
        \/ t = "GID" /\ "other" \notin x /\ "user" \notin x /\ "group" \in x
        \/ t = "NOT_UID" /\ "user" \notin x
        \/ t = "NOT_GID" /\ "user" \notin x /\ "group" \notin x
        \/ t = "GID_REQ_UID" /\ "other" \in x /\ "user" \in x /\ "group" \notin x}
EntryOf(p, t) == [type |-> t, uid |-> p.uid, gid |-> p.gid]

LEMMA RangeOfOne ==
  ASSUME NEW S, NEW e \in S, NEW b \in BOOLEAN
  PROVE  LET s == IF b THEN <<e>> ELSE <<>> IN
         s \in Seq(S) /\ Range(s) = IF b THEN {e} ELSE {}
  <1>1. <<e>> \in Seq(S) /\ Len(<<e>>) = 1 /\ <<e>>[1] = e
    OBVIOUS
  <1>2. Range(<<e>>) = {e}
    BY <1>1 DEF Range
  <1>3. <<>> \in Seq(S) /\ Len(<<>>) = 0
    OBVIOUS
  <1>4. Range(<<>>) = {}
    BY <1>3 DEF Range
  <1> QED
    BY <1>1, <1>2, <1>3, <1>4

LEMMA Joined ==
  ASSUME NEW S, NEW s \in Seq(S), NEW t \in Seq(S)
  PROVE  s \o t \in Seq(S) /\ Range(s \o t) = Range(s) \cup Range(t)
  BY RangeConcatenation, ConcatProperties

LEMMA RangeOfRestrictions ==
  ASSUME NEW p
  PROVE  Range(Restrictions(p)) = {EntryOf(p, t) : t \in RestrictionTypes(p.x)}
  <1> DEFINE S == {EntryOf(p, t) : t \in Types}
             has(class) == class \in p.x
             One(b, t) == IF b THEN <<EntryOf(p, t)>> ELSE <<>>
             b1 == ~has("other") /\ has("user") /\ has("group")
             b2 == ~has("other") /\ has("user") /\ ~has("group")
             b3 == ~has("other") /\ ~has("user") /\ has("group")
             b4 == ~has("user")
             b5 == ~has("group") /\ ~has("user")
             b6 == ~has("group") /\ has("user") /\ has("other")
             s1 == One(b1, "UID_OR_GID")
             s2 == One(b2, "UID")
             s3 == One(b3, "GID")
             s4 == One(b4, "NOT_UID")
             s5 == One(b5, "NOT_GID")
             s6 == One(b6, "GID_REQ_UID")
  <1>1. Restrictions(p) = s1 \o s2 \o s3 \o s4 \o s5 \o s6
    BY DEF Restrictions, EntryOf
  <1>2. ASSUME NEW b \in BOOLEAN, NEW t \in Types
        PROVE  One(b, t) \in Seq(S) /\ Range(One(b, t)) = IF b THEN {EntryOf(p, t)} ELSE {}
    <2>1. EntryOf(p, t) \in S
      OBVIOUS
    <2> QED
      BY <2>1, RangeOfOne
  <1>3. /\ s1 \in Seq(S) /\ Range(s1) = IF b1 THEN {EntryOf(p, "UID_OR_GID")} ELSE {}
        /\ s2 \in Seq(S) /\ Range(s2) = IF b2 THEN {EntryOf(p, "UID")} ELSE {}
        /\ s3 \in Seq(S) /\ Range(s3) = IF b3 THEN {EntryOf(p, "GID")} ELSE {}
        /\ s4 \in Seq(S) /\ Range(s4) = IF b4 THEN {EntryOf(p, "NOT_UID")} ELSE {}
        /\ s5 \in Seq(S) /\ Range(s5) = IF b5 THEN {EntryOf(p, "NOT_GID")} ELSE {}
        /\ s6 \in Seq(S) /\ Range(s6) = IF b6 THEN {EntryOf(p, "GID_REQ_UID")} ELSE {}
    BY <1>2 DEF Types
  <1> HIDE DEF s1, s2, s3, s4, s5, s6, S
  <1>0. s1 \in Seq(S) /\ s2 \in Seq(S) /\ s3 \in Seq(S) /\ s4 \in Seq(S) /\ s5 \in Seq(S) /\ s6 \in Seq(S)
    BY <1>3
  <1> DEFINE s12 == s1 \o s2
  <1>4. s12 \in Seq(S) /\ Range(s12) = Range(s1) \cup Range(s2)
    BY <1>0, Joined
  <1> HIDE DEF s12
  <1> DEFINE s13 == s12 \o s3
  <1>5. s13 \in Seq(S) /\ Range(s13) = Range(s12) \cup Range(s3)
    BY <1>0, <1>4, Joined
  <1> HIDE DEF s13
  <1> DEFINE s14 == s13 \o s4
  <1>6. s14 \in Seq(S) /\ Range(s14) = Range(s13) \cup Range(s4)
    BY <1>0, <1>5, Joined
  <1> HIDE DEF s14
  <1> DEFINE s15 == s14 \o s5
  <1>7. s15 \in Seq(S) /\ Range(s15) = Range(s14) \cup Range(s5)
    BY <1>0, <1>6, Joined
  <1> HIDE DEF s15
  <1> DEFINE s16 == s15 \o s6
  <1>8. s16 \in Seq(S) /\ Range(s16) = Range(s15) \cup Range(s6)
    BY <1>0, <1>7, Joined
  <1> HIDE DEF s16
  <1>9. Restrictions(p) = s16
    BY <1>1 DEF s12, s13, s14, s15, s16
  <1>10. Range(Restrictions(p)) =
           Range(s1) \cup Range(s2) \cup Range(s3) \cup Range(s4) \cup Range(s5) \cup Range(s6)
    BY <1>4, <1>5, <1>6, <1>7, <1>8, <1>9
  <1>11. ASSUME NEW e
         PROVE  e \in Range(Restrictions(p)) <=> \E t \in RestrictionTypes(p.x) : e = EntryOf(p, t)
    BY <1>3, <1>10 DEF RestrictionTypes, Types
  <1> QED
    BY <1>11

\* The entries that computePathPermissionChildren makes of a directory's x bits
\* let exactly those users pass that check_access lets enter it, for seven of the
\* eight combinations of bits.  For a directory without x bits, which nobody may
\* enter, they keep out only the owner and the group.
THEOREM RestrictionsExact ==
  ASSUME NEW p, NEW u
  PROVE  check_path_permissions(Range(Restrictions(p)), u) <=>
            IF p.x \cap {"user", "group", "other"} # {} THEN Enters(p, u)
            ELSE u.uid # p.uid /\ u.gid # p.gid
  <1> DEFINE Allows(t) ==
                /\ t = "UID" => u.uid = p.uid
                /\ t = "GID" => u.gid = p.gid
                /\ t = "UID_OR_GID" => u.uid = p.uid \/ u.gid = p.gid
                /\ t = "NOT_GID" => u.gid # p.gid
                /\ t = "NOT_UID" => u.uid # p.uid
                /\ t = "GID_REQ_UID" => (u.gid = p.gid => u.uid = p.uid)
  <1>1. ASSUME NEW t
        PROVE  /\ EntryOf(p, t).type = t
               /\ EntryOf(p, t).uid = p.uid /\ EntryOf(p, t).gid = p.gid
    BY DEF EntryOf
  <1>2. check_path_permissions(Range(Restrictions(p)), u)
          <=> \A t \in RestrictionTypes(p.x) : Allows(t)
    <2> DEFINE Passes(e) ==
                  /\ e.type = "UID" => u.uid = e.uid
                  /\ e.type = "GID" => u.gid = e.gid
                  /\ e.type = "UID_OR_GID" => u.uid = e.uid \/ u.gid = e.gid
                  /\ e.type = "NOT_GID" => u.gid # e.gid
                  /\ e.type = "NOT_UID" => u.uid # e.uid
                  /\ e.type = "GID_REQ_UID" => (u.gid = e.gid => u.uid = e.uid)
    <2>1. check_path_permissions(Range(Restrictions(p)), u)
            <=> \A e \in Range(Restrictions(p)) : Passes(e)
      BY DEF check_path_permissions
    <2>2. \A t : Passes(EntryOf(p, t)) <=> Allows(t)
      BY <1>1
    <2> HIDE DEF Passes, Allows
    <2> QED
      BY <2>1, <2>2, RangeOfRestrictions
  <1>3. (\A t \in RestrictionTypes(p.x) : Allows(t)) <=>
            IF p.x \cap {"user", "group", "other"} # {} THEN Enters(p, u)
            ELSE u.uid # p.uid /\ u.gid # p.gid
    <2> DEFINE us == "user" \in p.x
               gr == "group" \in p.x
               ot == "other" \in p.x
               ownUid == u.uid = p.uid
               ownGid == u.gid = p.gid
    <2>1. (\A t \in RestrictionTypes(p.x) : Allows(t)) <=>
            /\ ~ot /\ us /\ gr => ownUid \/ ownGid
            /\ ~ot /\ us /\ ~gr => ownUid
            /\ ~ot /\ ~us /\ gr => ownGid
            /\ ~us => ~ownUid
            /\ ~us /\ ~gr => ~ownGid
            /\ ot /\ us /\ ~gr => (ownGid => ownUid)
      BY DEF RestrictionTypes, Types
    <2>2. /\ ownUid => (Enters(p, u) <=> us)
          /\ ~ownUid /\ ownGid => (Enters(p, u) <=> gr)
          /\ ~ownUid /\ ~ownGid => (Enters(p, u) <=> ot)
      BY DEF Enters
    <2>3. p.x \cap {"user", "group", "other"} # {} <=> us \/ gr \/ ot
      OBVIOUS
    <2> HIDE DEF us, gr, ot, ownUid, ownGid
    <2>4. (\A t \in RestrictionTypes(p.x) : Allows(t)) <=>
            IF us \/ gr \/ ot THEN Enters(p, u) ELSE ~ownUid /\ ~ownGid
      BY <2>1, <2>2
    <2> QED
      BY <2>3, <2>4 DEF ownUid, ownGid
  <1> QED
    BY <1>2, <1>3

LEMMA CheckUnion ==
  ASSUME NEW A, NEW B, NEW u
  PROVE  check_path_permissions(A \cup B, u)
           <=> check_path_permissions(A, u) /\ check_path_permissions(B, u)
  BY DEF check_path_permissions

\* Two entries are the most that computePathPermissionChildren makes.
FewEntries == {s \in SUBSET Entry : Cardinality(s) <= 2}

LEMMA OpenPerm == Open \in Perms /\ Perm \subseteq Perms
  BY PermAssumption DEF Open, Perms, Uids, Gids

LEMMA RestrictionsFew ==
  ASSUME NEW p \in Perms, NEW S
  PROVE  Range(Restrictions(p)) \subseteq Entry /\ Range(Restrictions(p)) \ S \in FewEntries
  <1>1. ASSUME NEW t \in Types
        PROVE  EntryOf(p, t) \in Entry
    BY DEF EntryOf, Entry, Perms, Uids, Gids
  <1>2. Range(Restrictions(p)) \subseteq Entry
    BY <1>1, RangeOfRestrictions DEF RestrictionTypes
  <1>3. PICK a, b : RestrictionTypes(p.x) \subseteq {a, b}
    <2>1. CASE "user" \in p.x
      <3>1. \/ RestrictionTypes(p.x) \subseteq {"UID_OR_GID"} \/ RestrictionTypes(p.x) \subseteq {"UID"}
            \/ RestrictionTypes(p.x) \subseteq {"GID_REQ_UID"}
        BY <2>1 DEF RestrictionTypes
      <3> QED
        BY <3>1
    <2>2. CASE "user" \notin p.x
      <3>1. \/ RestrictionTypes(p.x) \subseteq {"GID", "NOT_UID"}
            \/ RestrictionTypes(p.x) \subseteq {"NOT_UID", "NOT_GID"}
        BY <2>2 DEF RestrictionTypes
      <3> QED
        BY <3>1
    <2> QED
      BY <2>1, <2>2
  <1>4. Range(Restrictions(p)) \ S \in SUBSET {EntryOf(p, a), EntryOf(p, b)}
    BY <1>3, RangeOfRestrictions
  <1>5. IsFiniteSet({EntryOf(p, a), EntryOf(p, b)}) /\ Cardinality({EntryOf(p, a), EntryOf(p, b)}) <= 2
    <2> DEFINE x == EntryOf(p, a)
               y == EntryOf(p, b)
    <2> HIDE DEF x, y
    <2>1. IsFiniteSet({x}) /\ Cardinality({x}) = 1
      BY FS_Singleton
    <2>2. IsFiniteSet({x} \cup {y}) /\ Cardinality({x} \cup {y}) <= 2
      BY <2>1, FS_AddElement
    <2>3. {x} \cup {y} = {x, y}
      OBVIOUS
    <2> QED
      BY <2>2, <2>3 DEF x, y
  <1> DEFINE T == Range(Restrictions(p)) \ S
  <1>6. Cardinality(T) <= 2
    <2> DEFINE P == {EntryOf(p, a), EntryOf(p, b)}
    <2> HIDE DEF T, P
    <2>1. IsFiniteSet(P) /\ Cardinality(P) <= 2 /\ T \in SUBSET P
      BY <1>4, <1>5 DEF T, P
    <2>2. IsFiniteSet(T) /\ Cardinality(T) <= Cardinality(P)
      BY <2>1, FS_Subset
    <2>3. Cardinality(T) \in Nat /\ Cardinality(P) \in Nat
      BY <2>1, <2>2, FS_CardinalityType
    <2> QED
      BY <2>1, <2>2, <2>3
  <1> QED
    BY <1>2, <1>6 DEF FewEntries

\* The initial metadata is that of directories made one below the other: each
\* has inherited from the one above it.
LEMMA MadeInherits ==
  ASSUME NEW p, NEW n \in Node \ {0}
  PROVE  Made(p)[n] = inherit_path_permissions(n, NewFile(p[n]), Made(p)[n - 1])
  <1> DEFINE Above(k) == UNION {Range(Restrictions(p[d])) : d \in 1 .. k - 1}
             New(k) == [NewFile(p[k]) EXCEPT !.pp = Above(k)]
             parent == Made(p)[n - 1]
  <1>1. Made(p) = [k \in Node |-> IF k = 0 THEN Root
                                  ELSE IF k \in Dir THEN computePathPermissionChildren(New(k))
                                  ELSE New(k)]
    BY DEF Made
  <1>2. n - 1 \in Dir /\ n - 1 \in Node /\ n \in Nat
    BY DEF Node, Dir
  <1>3. parent.pp \cup parent.ppc = Above(n) /\ parent.verified = 0
    <2>1. CASE n = 1
      <3>1. parent = Root /\ Above(n) = {}
        BY <1>1, <1>2, <2>1
      <3> QED
        BY <3>1 DEF Root
    <2>2. CASE n # 1
      <3>1. parent = computePathPermissionChildren(New(n - 1))
        BY <1>1, <1>2, <2>2
      <3>2. /\ parent.pp = Above(n - 1) /\ parent.verified = 0
            /\ parent.ppc = Range(Restrictions(p[n - 1])) \ Above(n - 1)
        BY <3>1 DEF computePathPermissionChildren, NewFile
      <3>3. Above(n) = Above(n - 1) \cup Range(Restrictions(p[n - 1]))
        <4>1. 1 .. n - 1 = (1 .. (n - 1) - 1) \cup {n - 1}
          BY <1>2, <2>2
        <4> QED
          BY <4>1
      <3> QED
        BY <3>2, <3>3
    <2> QED
      BY <2>1, <2>2
  <1> HIDE DEF parent
  <1>4. FromParent(NewFile(p[n]), parent) = New(n)
    <2> DEFINE A == Above(n)
               f == NewFile(p[n])
               M == [perm : {p[n]}, pp : {{}, A}, ppc : {{}}, verified : {0}, exists : BOOLEAN]
    <2>1. parent.pp \cup parent.ppc = A /\ parent.verified = 0
      BY <1>3
    <2> HIDE DEF A
    <2>2. f \in M /\ f.exists = TRUE
      BY DEF NewFile
    <2> HIDE DEF f
    <2>3. FromParent(f, parent) = [f EXCEPT !.pp = A, !.verified = 0]
      BY <2>1 DEF FromParent
    <2>4. [f EXCEPT !.pp = A, !.verified = 0] = [f EXCEPT !.pp = A]
      BY <2>2
    <2> QED
      BY <2>3, <2>4 DEF A, f
  <1>5. Made(p)[n] = IF n \in Dir THEN computePathPermissionChildren(New(n)) ELSE New(n)
    BY <1>1
  <1> QED
    BY <1>4, <1>5 DEF inherit_path_permissions, parent

-----------------------------------------------------------------------------
(* Versions of the log.                                                    *)

\* Version x covers the changes of the nodes 1 .. n among the first v of log lg.
Covers(lg, x, v, n) == \A i \in 1 .. v : lg[i] \in 1 .. n => i <= x

LEMMA LargestNatural ==
  ASSUME NEW v \in Nat, NEW S \in SUBSET (1 .. v), S # {}
  PROVE  \E i \in S : \A j \in S : j <= i
  <1> DEFINE T == {v - i : i \in S}
  <1>1. T \subseteq Nat /\ T # {}
    <2>1. PICK i \in S : TRUE
      OBVIOUS
    <2>2. v - i \in T
      BY <2>1
    <2> QED
      BY <2>2
  <1>2. \E x \in T : \A y \in T : ~(<<y, x>> \in OpToRel(<, Nat))
    <2> HIDE DEF T
    <2> QED
      BY <1>1, WFMin, NatLessThanWellFounded
  <1>3. PICK i \in S : \A y \in T : ~(<<y, v - i>> \in OpToRel(<, Nat))
    BY <1>2
  <1>4. ASSUME NEW j \in S
        PROVE  j <= i
    <2>1. v - j \in T /\ v - j \in Nat /\ v - i \in Nat
      OBVIOUS
    <2>2. ~(v - j < v - i)
      BY <1>3, <2>1 DEF OpToRel
    <2> QED
      BY <2>2
  <1> QED
    BY <1>4

\* Metadata is stale for a snapshot exactly when a change in it is not covered
\* (as long as the root has not been changed).
LEMMA RequiredCovers ==
  ASSUME NEW v \in Nat, NEW n \in Node, NEW x \in Nat,
         \A i \in 1 .. v : log[i] # 0
  PROVE  x >= Required(v, n) <=> Covers(log, x, v, n)
  <1> DEFINE above == {i \in 1 .. v : log[i] = n \/ log[i] \in 1 .. n}
             last == CHOOSE i \in above : \A j \in above : j <= i
  <1>1. Required(v, n) = IF above = {} THEN 0 ELSE last
    BY DEF Required
  <1>2. \A i \in 1 .. v : i \in above <=> log[i] \in 1 .. n
    BY DEF Node
  <1>3. CASE above = {}
    BY <1>1, <1>2, <1>3 DEF Covers
  <1>4. CASE above # {}
    <2>1. \E i \in above : \A j \in above : j <= i
      BY <1>4, LargestNatural
    <2>2. last \in above /\ \A j \in above : j <= last
      BY <2>1
    <2> HIDE DEF last
    <2> QED
      BY <1>1, <1>2, <1>4, <2>2 DEF Covers
  <1> QED
    BY <1>3, <1>4

-----------------------------------------------------------------------------
(* Types.                                                                  *)

MD == [perm : Perms, pp : SUBSET Entry, ppc : FewEntries, verified : Nat, exists : BOOLEAN]
Obj == [md : MD, current : BOOLEAN, cached : BOOLEAN]
Req == [op : {"none", "access", "add", "chmod", "chown"},
        pc : {"idle", "lookup", "inherit", "found", "children", "log", "force", "create"},
        target : Node, at : Node, perm : Perms]

Shape ==
    /\ FilePerm \in Perms
    /\ md \in [Node -> MD]
    /\ log \in Seq(Dir)
    /\ snap \in [Client -> Nat]
    /\ obj \in [Client -> [Node -> Obj]]
    /\ req \in [Client -> Req]
    /\ ended \subseteq {"removal", "recursion"}
    /\ calm \in [Client -> BOOLEAN]

\* A request is about metadata that exists, and chmod, chown and new names are
\* about directories.
RequestOK(c) ==
    /\ req[c].pc # "idle" => md[req[c].target].exists
    /\ req[c].at <= req[c].target
    /\ req[c].pc = "inherit" => req[c].at >= 1
    /\ req[c].op \in {"add", "chmod", "chown"} => req[c].target \in Dir
    /\ req[c].pc \in {"children", "log", "force"} => req[c].op \in {"chmod", "chown"}
    /\ req[c].pc = "create" => req[c].op = "add"
Requests == (\A n \in Dir : md[n].exists) /\ \A c \in Client : RequestOK(c)

Versions ==
    /\ \A n \in Node : md[n].verified <= Len(log)
    /\ \A c \in Client : snap[c] <= Len(log)
    /\ \A c \in Client, n \in Node : obj[c][n].md.verified <= Len(log)

Held == \A c \in Client, n \in Node : obj[c][n].current => obj[c][n].md.exists /\ md[n].exists

TypeInv == Shape /\ Requests /\ Versions /\ Held

LEMMA Nodes ==
  /\ Depth \in Node /\ 0 \in Node /\ 0 \in Dir /\ Depth - 1 \in Dir
  /\ Dir \subseteq Node /\ Node \subseteq Nat
  /\ \A n \in Node : n # 0 => n - 1 \in Dir
  /\ \A n \in Dir : n + 1 \in Node
  /\ \A n \in Node : n \notin Dir <=> n = Depth
  BY DEF Node, Dir

LEMMA Constants ==
  /\ Missing \in MD /\ Root \in MD /\ NoObject \in Obj /\ NoRequest \in Req
  /\ Missing.exists = FALSE /\ Missing.verified = 0 /\ Root.exists = TRUE /\ Root.verified = 0
  /\ NoObject.md = Missing /\ NoObject.current = FALSE /\ NoObject.cached = FALSE
  /\ NoRequest.op = "none" /\ NoRequest.pc = "idle" /\ NoRequest.target = 0 /\ NoRequest.at = 0
  <1>1. {} \in FewEntries
    BY FS_EmptySet DEF FewEntries
  <1> QED
    BY <1>1, OpenPerm, Nodes DEF Missing, Root, NoObject, NoRequest, MD, Obj, Req

LEMMA NewFileType ==
  ASSUME NEW p \in Perms
  PROVE  /\ NewFile(p) \in MD /\ NewFile(p).exists = TRUE /\ NewFile(p).verified = 0
         /\ NewFile(p).perm = p /\ NewFile(p).pp = {}
  <1>1. {} \in FewEntries
    BY FS_EmptySet DEF FewEntries
  <1> QED
    BY <1>1 DEF NewFile, MD

LEMMA ComputeType ==
  ASSUME NEW m \in MD
  PROVE  LET r == computePathPermissionChildren(m)
         IN  /\ r \in MD
             /\ r.perm = m.perm /\ r.pp = m.pp /\ r.verified = m.verified /\ r.exists = m.exists
             /\ r.ppc = Range(Restrictions(m.perm)) \ m.pp
  <1>1. m.perm \in Perms
    BY DEF MD
  <1> DEFINE P == Range(Restrictions(m.perm)) \ m.pp
  <1>2. P \in FewEntries
    BY <1>1, RestrictionsFew
  <1>3. computePathPermissionChildren(m) = [m EXCEPT !.ppc = P]
    BY DEF computePathPermissionChildren
  <1> HIDE DEF P
  <1>4. /\ [m EXCEPT !.ppc = P] \in MD /\ [m EXCEPT !.ppc = P].ppc = P
        /\ [m EXCEPT !.ppc = P].perm = m.perm /\ [m EXCEPT !.ppc = P].pp = m.pp
        /\ [m EXCEPT !.ppc = P].verified = m.verified /\ [m EXCEPT !.ppc = P].exists = m.exists
    BY <1>2 DEF MD
  <1> QED
    BY <1>3, <1>4 DEF P

LEMMA InheritType ==
  ASSUME NEW n \in Node, NEW m \in MD, NEW parent \in MD
  PROVE  LET r == inherit_path_permissions(n, m, parent)
         IN  /\ r \in MD
             /\ r.perm = m.perm /\ r.exists = m.exists
             /\ r.pp = parent.pp \cup parent.ppc /\ r.verified = parent.verified
             /\ n \in Dir => r.ppc = Range(Restrictions(m.perm)) \ (parent.pp \cup parent.ppc)
  <1> DEFINE f == FromParent(m, parent)
  <1>1. parent.pp \cup parent.ppc \in SUBSET Entry /\ parent.verified \in Nat
    BY DEF MD, FewEntries
  <1>2. /\ f \in MD /\ f.perm = m.perm /\ f.exists = m.exists
        /\ f.pp = parent.pp \cup parent.ppc /\ f.verified = parent.verified
    BY <1>1 DEF FromParent, MD
  <1> HIDE DEF f
  <1>3. inherit_path_permissions(n, m, parent) = IF n \in Dir THEN computePathPermissionChildren(f) ELSE f
    BY DEF inherit_path_permissions, f
  <1> QED
    BY <1>2, <1>3, ComputeType

-----------------------------------------------------------------------------
(* What the parts of the actions change.                                   *)

Places == {"idle", "lookup", "inherit", "found", "children", "log", "force", "create"}

GotoEffect(c, pc, at) ==
    /\ req' \in [Client -> Req]
    /\ req'[c].pc = pc /\ req'[c].at = at
    /\ req'[c].op = req[c].op /\ req'[c].target = req[c].target /\ req'[c].perm = req[c].perm
    /\ \A d \in Client : d # c => req'[d] = req[d]

LEMMA GotoFacts ==
  ASSUME Shape, NEW c \in Client, NEW pc \in Places, NEW at \in Node, Goto(c, pc, at)
  PROVE  GotoEffect(c, pc, at)
  <1> DEFINE r == [req[c] EXCEPT !.pc = pc, !.at = at]
  <1>1. req \in [Client -> Req] /\ req[c] \in Req
    BY DEF Shape
  <1>2. /\ r \in Req /\ r.pc = pc /\ r.at = at
        /\ r.op = req[c].op /\ r.target = req[c].target /\ r.perm = req[c].perm
    BY <1>1 DEF Req, Places
  <1>3. req' = [req EXCEPT ![c] = r]
    BY <1>1 DEF Goto, Req
  <1> HIDE DEF r
  <1>4. req'[c] = r /\ req' \in [Client -> Req] /\ \A d \in Client : d # c => req'[d] = req[d]
    BY <1>1, <1>2, <1>3
  <1> QED
    BY <1>2, <1>4 DEF GotoEffect

SetEffect(c, n, o) ==
    /\ obj' \in [Client -> [Node -> Obj]]
    /\ obj'[c][n] = o
    /\ \A k \in Node : k # n => obj'[c][k] = obj[c][k]
    /\ \A d \in Client : d # c => obj'[d] = obj[d]

LEMMA SetFacts ==
  ASSUME Shape, NEW c \in Client, NEW n \in Node, NEW o \in Obj, obj' = [obj EXCEPT ![c][n] = o]
  PROVE  SetEffect(c, n, o)
  BY DEF Shape, SetEffect

PutEffect(c, n, m, cached) ==
    /\ md' \in [Node -> MD]
    /\ md'[n] = m
    /\ \A k \in Node : k # n => md'[k] = md[k]
    /\ obj' \in [Client -> [Node -> Obj]]
    /\ obj'[c][n].md = m /\ obj'[c][n].current = TRUE /\ obj'[c][n].cached = cached
    /\ \A d \in Client : d # c => /\ obj'[d][n].md = obj[d][n].md
                                  /\ obj'[d][n].current = FALSE
                                  /\ obj'[d][n].cached = obj[d][n].cached
    /\ \A d \in Client, k \in Node : k # n => obj'[d][k] = obj[d][k]

LEMMA PutFacts ==
  ASSUME Shape, NEW c \in Client, NEW n \in Node, NEW m \in MD, NEW cached \in BOOLEAN,
         md' = [md EXCEPT ![n] = m], obj' = Objects(c, n, m, cached)
  PROVE  PutEffect(c, n, m, cached)
  <1> DEFINE o == [md |-> m, current |-> TRUE, cached |-> cached]
  <1>1. o \in Obj /\ o.md = m /\ o.current = TRUE /\ o.cached = cached
    BY DEF Obj
  <1> HIDE DEF o
  <1>3. \A d \in Client : obj[d] \in [Node -> Obj]
    BY DEF Shape
  <1>4. obj'[c] \in [Node -> Obj] /\ obj'[c][n] = o /\ \A k \in Node : k # n => obj'[c][k] = obj[c][k]
    <2>1. obj'[c] = [obj[c] EXCEPT ![n] = o]
      BY DEF Objects, o
    <2> QED
      BY <1>1, <1>3, <2>1
  <1>5. ASSUME NEW d \in Client, d # c
        PROVE  /\ obj'[d] \in [Node -> Obj]
               /\ obj'[d][n].md = obj[d][n].md /\ obj'[d][n].current = FALSE
               /\ obj'[d][n].cached = obj[d][n].cached
               /\ \A k \in Node : k # n => obj'[d][k] = obj[d][k]
    <2>1. obj'[d] = [obj[d] EXCEPT ![n] = [obj[d][n] EXCEPT !.current = FALSE]]
      BY <1>5 DEF Objects
    <2>2. obj[d][n] \in Obj
      BY <1>3
    <2> DEFINE x == [obj[d][n] EXCEPT !.current = FALSE]
    <2>3. x \in Obj /\ x.md = obj[d][n].md /\ x.current = FALSE /\ x.cached = obj[d][n].cached
      BY <2>2 DEF Obj
    <2> HIDE DEF x
    <2>4. obj'[d] = [obj[d] EXCEPT ![n] = x]
      BY <2>1 DEF x
    <2> QED
      BY <1>3, <2>3, <2>4
  <1>6. obj' \in [Client -> [Node -> Obj]]
    <2>1. \A d \in Client : obj'[d] \in [Node -> Obj]
      BY <1>4, <1>5
    <2>2. obj' = [d \in Client |-> obj'[d]]
      BY DEF Objects
    <2> QED
      BY <2>1, <2>2
  <1>7. md' \in [Node -> MD] /\ md'[n] = m /\ \A k \in Node : k # n => md'[k] = md[k]
    BY DEF Shape
  <1>8. obj'[c][n].md = m /\ obj'[c][n].current = TRUE /\ obj'[c][n].cached = cached
    BY <1>1, <1>4
  <1>9. \A d \in Client, k \in Node : k # n => obj'[d][k] = obj[d][k]
    BY <1>4, <1>5
  <1> QED
    BY <1>5, <1>6, <1>7, <1>8, <1>9, Zenon DEF PutEffect

DoneEffect(c, objects) ==
    /\ req' \in [Client -> Req] /\ obj' \in [Client -> [Node -> Obj]] /\ calm' \in [Client -> BOOLEAN]
    /\ req'[c] = NoRequest /\ calm'[c] = FALSE
    /\ \A n \in Node : obj'[c][n] = IF objects[n].cached THEN objects[n] ELSE NoObject
    /\ \A d \in Client : d # c => req'[d] = req[d] /\ obj'[d] = obj[d] /\ calm'[d] = calm[d]

LEMMA DoneFacts ==
  ASSUME Shape, NEW c \in Client, NEW objects \in [Node -> Obj], Done(c, objects)
  PROVE  DoneEffect(c, objects)
  <1> DEFINE o == [n \in Node |-> IF objects[n].cached THEN objects[n] ELSE NoObject]
  <1>1. o \in [Node -> Obj]
    BY Constants
  <1>2. obj' = [obj EXCEPT ![c] = o]
    BY DEF Done
  <1>3. \A n \in Node : o[n] = IF objects[n].cached THEN objects[n] ELSE NoObject
    OBVIOUS
  <1> HIDE DEF o
  <1>4. obj' \in [Client -> [Node -> Obj]] /\ obj'[c] = o /\ \A d \in Client : d # c => obj'[d] = obj[d]
    BY <1>1, <1>2 DEF Shape
  <1>5. req' \in [Client -> Req] /\ req'[c] = NoRequest /\ \A d \in Client : d # c => req'[d] = req[d]
    BY Constants DEF Shape, Done
  <1>6. calm' \in [Client -> BOOLEAN] /\ calm'[c] = FALSE /\ \A d \in Client : d # c => calm'[d] = calm[d]
    BY DEF Shape, Done
  <1> QED
    BY <1>3, <1>4, <1>5, <1>6 DEF DoneEffect

RemountEffect(c) ==
    /\ req' \in [Client -> Req] /\ obj' \in [Client -> [Node -> Obj]] /\ calm' \in [Client -> BOOLEAN]
    /\ snap' \in [Client -> Nat]
    /\ req'[c] = NoRequest /\ calm'[c] = FALSE /\ snap'[c] = Len(log)
    /\ \A n \in Node : obj'[c][n] = NoObject
    /\ \A d \in Client : d # c => /\ req'[d] = req[d] /\ obj'[d] = obj[d] /\ calm'[d] = calm[d]
                                  /\ snap'[d] = snap[d]

LEMMA RemountFacts ==
  ASSUME Shape, NEW c \in Client, Remount(c)
  PROVE  RemountEffect(c)
  <1> DEFINE none == [n \in Node |-> NoObject]
  <1>1. none \in [Node -> Obj] /\ \A n \in Node : none[n] = NoObject
    BY Constants
  <1>2. Done(c, none)
    BY DEF Remount
  <1> HIDE DEF none
  <1>3. Len(log) \in Nat
    BY DEF Shape
  <1>4. snap' \in [Client -> Nat] /\ snap'[c] = Len(log) /\ \A d \in Client : d # c => snap'[d] = snap[d]
    BY <1>3 DEF Shape, Remount
  <1>5. \A n \in Node : none[n].cached = FALSE
    BY <1>1, Constants
  <1> QED
    BY <1>1, <1>2, <1>4, <1>5, DoneFacts DEF DoneEffect, RemountEffect

LEMMA LoadedFacts ==
  ASSUME Shape, NEW n \in Node, NEW cached \in BOOLEAN
  PROVE  /\ Loaded(n, cached) \in Obj
         /\ Loaded(n, cached).md = md[n] /\ Loaded(n, cached).current = TRUE
         /\ Loaded(n, cached).cached = cached
  BY DEF Shape, Loaded, Obj

-----------------------------------------------------------------------------
(* Typing: TypeInv is inductive.                                           *)

LEMMA TypeInit == Init => TypeInv
  <1> SUFFICES ASSUME Init
               PROVE  TypeInv
    OBVIOUS
  <1>1. PICK p \in [Node \ {0} -> Perm], created \in BOOLEAN :
            md = [n \in Node |-> IF n = Depth /\ ~created THEN Missing ELSE Made(p)[n]]
    BY DEF Init
  <1>2. \A n \in Node \ {0} : p[n] \in Perms
    BY OpenPerm
  <1>3. FilePerm \in Perms
    <2>1. p[Depth] \in Perm
      BY Nodes
    <2> QED
      BY <2>1, OpenPerm DEF FilePerm
  <1>4. \A n \in Node : Made(p)[n] \in MD /\ Made(p)[n].exists = TRUE /\ Made(p)[n].verified = 0
    <2> SUFFICES ASSUME NEW n \in Node
                 PROVE  Made(p)[n] \in MD /\ Made(p)[n].exists = TRUE /\ Made(p)[n].verified = 0
      OBVIOUS
    <2> DEFINE A == UNION {Range(Restrictions(p[d])) : d \in 1 .. n - 1}
               f == NewFile(p[n])
               m == [f EXCEPT !.pp = A]
    <2>1. Made(p)[n] = IF n = 0 THEN Root ELSE IF n \in Dir THEN computePathPermissionChildren(m) ELSE m
      BY DEF Made
    <2>2. CASE n = 0
      BY <2>1, <2>2, Constants
    <2>3. CASE n # 0
      <3>1. A \in SUBSET Entry
        <4>1. \A d \in 1 .. n - 1 : d \in Node \ {0}
          BY DEF Node
        <4>2. \A d \in 1 .. n - 1 : Range(Restrictions(p[d])) \subseteq Entry
          BY <1>2, <4>1, RestrictionsFew
        <4> QED
          BY <4>2
      <3>2. f \in MD /\ f.exists = TRUE /\ f.verified = 0
        BY <1>2, <2>3, NewFileType
      <3> HIDE DEF A, f
      <3>3. m \in MD /\ m.exists = TRUE /\ m.verified = 0
        BY <3>1, <3>2 DEF MD
      <3> HIDE DEF m
      <3> QED
        BY <2>1, <2>3, <3>3, ComputeType
    <2> QED
      BY <2>2, <2>3
  <1>5. md \in [Node -> MD] /\ (\A n \in Dir : md[n].exists) /\ \A n \in Node : md[n].verified = 0
    <2>1. \A n \in Node : md[n] = IF n = Depth /\ ~created THEN Missing ELSE Made(p)[n]
      BY <1>1
    <2>2. \A n \in Node : md[n] \in MD /\ md[n].verified = 0
      BY <1>4, <2>1, Constants
    <2>3. \A n \in Dir : n \in Node /\ md[n] = Made(p)[n]
      BY <2>1 DEF Dir, Node
    <2> QED
      BY <1>1, <1>4, <2>2, <2>3
  <1>6. log = <<>> /\ log \in Seq(Dir) /\ Len(log) = 0 /\ ended = {}
    BY DEF Init
  <1>7. /\ snap \in [Client -> Nat] /\ obj \in [Client -> [Node -> Obj]]
        /\ req \in [Client -> Req] /\ calm \in [Client -> BOOLEAN]
        /\ \A c \in Client : snap[c] = 0 /\ req[c] = NoRequest /\ \A n \in Node : obj[c][n] = NoObject
    BY Constants DEF Init
  <1>8. \A c \in Client, n \in Node : obj[c][n].md = Missing /\ obj[c][n].current = FALSE
    BY <1>7, Constants
  <1>9. \A c \in Client : /\ req[c].op = "none" /\ req[c].pc = "idle" /\ req[c].target = 0 /\ req[c].at = 0
    BY <1>7, Constants
  <1>10. Shape
    BY <1>3, <1>5, <1>6, <1>7 DEF Shape
  <1>11. Requests
    BY <1>5, <1>9, Nodes DEF Requests, RequestOK
  <1>12. Versions
    BY <1>5, <1>6, <1>7, <1>8, Constants DEF Versions
  <1>13. Held
    BY <1>8 DEF Held
  <1> QED
    BY <1>10, <1>11, <1>12, <1>13 DEF TypeInv

StartEffect(c, op, n) ==
    /\ req' \in [Client -> Req] /\ calm' \in [Client -> BOOLEAN]
    /\ req[c].pc = "idle"
    /\ req'[c].op = op /\ req'[c].pc = "lookup" /\ req'[c].target = n /\ req'[c].at = n
    /\ calm'[c] = (snap[c] = Len(log) /\ \A d \in Dir : ~Changing(d))
    /\ \A d \in Client : d # c => req'[d] = req[d] /\ calm'[d] = calm[d]
    /\ md' = md /\ log' = log /\ snap' = snap /\ obj' = obj /\ ended' = ended

LEMMA StartFacts ==
  ASSUME Shape, NEW c \in Client, NEW op \in {"access", "add", "chmod", "chown"},
         NEW n \in Node, NEW p \in Perms, Start(c, op, n, p)
  PROVE  StartEffect(c, op, n)
  <1> DEFINE r == [op |-> op, pc |-> "lookup", target |-> n, at |-> n, perm |-> p]
  <1>1. r \in Req /\ r.op = op /\ r.pc = "lookup" /\ r.target = n /\ r.at = n
    BY DEF Req
  <1>2. req' = [req EXCEPT ![c] = r]
    BY DEF Start
  <1> HIDE DEF r
  <1>3. /\ req' \in [Client -> Req] /\ req'[c] = r
        /\ \A d \in Client : d # c => req'[d] = req[d]
    BY <1>1, <1>2 DEF Shape
  <1> DEFINE b == snap[c] = Len(log) /\ \A d \in Dir : ~Changing(d)
  <1>4. b \in BOOLEAN
    OBVIOUS
  <1>5. calm' = [calm EXCEPT ![c] = b]
    BY DEF Start
  <1> HIDE DEF b
  <1>6. /\ calm' \in [Client -> BOOLEAN] /\ calm'[c] = b
        /\ \A d \in Client : d # c => calm'[d] = calm[d]
    BY <1>4, <1>5 DEF Shape
  <1>7. md' = md /\ log' = log /\ snap' = snap /\ obj' = obj /\ ended' = ended /\ req[c].pc = "idle"
    BY DEF Start
  <1> QED
    BY <1>1, <1>3, <1>6, <1>7 DEF b, StartEffect

\* The requests and the metadata a client starts with are as in TypeInv.
LEMMA TypeStart ==
  ASSUME TypeInv, NEW c \in Client, NEW op \in {"access", "add", "chmod", "chown"},
         NEW n \in Node, StartEffect(c, op, n),
         md[n].exists, op # "access" => n \in Dir
  PROVE  TypeInv'
  <1> USE DEF TypeInv, StartEffect
  <1>1. Shape'
    BY DEF Shape
  <1>2. Requests'
    <2>1. n <= n
      BY Nodes
    <2> QED
      BY <2>1 DEF Requests, RequestOK
  <1>3. Versions' /\ Held'
    BY DEF Versions, Held
  <1> QED
    BY <1>1, <1>2, <1>3

\* A step of client c leaves the requests of the others as they are.
LEMMA TypeFrame ==
  ASSUME TypeInv, NEW c \in Client, Shape', Versions', Held', RequestOK(c)',
         \A d \in Client : d # c => req'[d] = req[d],
         \A n \in Node : md[n].exists => md'[n].exists
  PROVE  TypeInv'
  <1>0. Shape /\ Requests
    BY DEF TypeInv
  <1>1. ASSUME NEW d \in Client, d # c
        PROVE  RequestOK(d)'
    <2>1. req'[d] = req[d] /\ req[d].target \in Node
      BY <1>0, <1>1 DEF Shape, Req
    <2> QED
      BY <1>0, <2>1 DEF Requests, RequestOK
  <1>2. \A n \in Dir : md'[n].exists
    BY <1>0, Nodes DEF Requests
  <1>3. Requests'
    BY <1>1, <1>2 DEF Requests
  <1> QED
    BY <1>3 DEF TypeInv

LEMMA TypeRequestOver ==
  ASSUME TypeInv, NEW c \in Client,
         md' \in [Node -> MD], log' = log, req' \in [Client -> Req], calm' \in [Client -> BOOLEAN],
         obj' \in [Client -> [Node -> Obj]], ended' \subseteq {"removal", "recursion"},
         snap' \in [Client -> Nat], \A d \in Client : snap'[d] <= Len(log),
         req'[c] = NoRequest, \A d \in Client : d # c => req'[d] = req[d] /\ obj'[d] = obj[d],
         \A n \in Node : md[n].exists => md'[n].exists,
         \A n \in Node : md'[n].verified <= Len(log),
         \A n \in Node : obj'[c][n].md.verified <= Len(log),
         \A n \in Node : obj'[c][n].current => obj'[c][n].md.exists /\ md'[n].exists
  PROVE  TypeInv'
  <1>0. Shape /\ Requests /\ Versions /\ Held
    BY DEF TypeInv
  <1>1. Shape'
    BY <1>0 DEF Shape
  <1>2. RequestOK(c)'
    BY Constants DEF RequestOK
  <1>4. Versions'
    <2>1. \A d \in Client, n \in Node : obj'[d][n].md.verified <= Len(log)
      BY <1>0 DEF Versions
    <2> QED
      BY <2>1 DEF Versions
  <1>5. Held'
    <2>1. ASSUME NEW d \in Client, NEW n \in Node, obj'[d][n].current
          PROVE  obj'[d][n].md.exists /\ md'[n].exists
      BY <1>0, <2>1 DEF Held
    <2> QED
      BY <2>1 DEF Held
  <1> QED
    BY <1>1, <1>2, <1>4, <1>5, TypeFrame

LEMMA TypeRemount ==
  ASSUME TypeInv, NEW c \in Client, RemountEffect(c), md' = md, log' = log,
         ended' \subseteq {"removal", "recursion"}
  PROVE  TypeInv'
  <1>0. Shape /\ Requests /\ Versions /\ Held
    BY DEF TypeInv
  <1>1. /\ req' \in [Client -> Req] /\ obj' \in [Client -> [Node -> Obj]] /\ calm' \in [Client -> BOOLEAN]
        /\ snap' \in [Client -> Nat]
        /\ req'[c] = NoRequest /\ snap'[c] = Len(log)
        /\ \A n \in Node : obj'[c][n] = NoObject
        /\ \A d \in Client : d # c => req'[d] = req[d] /\ obj'[d] = obj[d] /\ snap'[d] = snap[d]
    BY DEF RemountEffect
  <1>2. md' \in [Node -> MD] /\ (\A n \in Node : md'[n].verified <= Len(log)) /\ Len(log) \in Nat
    BY <1>0 DEF Shape, Versions
  <1>3. \A d \in Client : snap'[d] <= Len(log)
    BY <1>0, <1>1, <1>2 DEF Versions
  <1>4. \A n \in Node : obj'[c][n].md.verified <= Len(log) /\ obj'[c][n].current = FALSE
    BY <1>1, <1>2, Constants
  <1> QED
    BY <1>1, <1>2, <1>3, <1>4, TypeRequestOver

LEMMA TypeDone ==
  ASSUME TypeInv, NEW c \in Client, NEW objects \in [Node -> Obj], DoneEffect(c, objects),
         md' \in [Node -> MD], log' = log, snap' = snap, ended' = ended,
         \A n \in Node : md[n].exists => md'[n].exists,
         \A n \in Node : md'[n].verified <= Len(log),
         \A n \in Node : objects[n].md.verified <= Len(log),
         \A n \in Node : objects[n].current => objects[n].md.exists /\ md'[n].exists
  PROVE  TypeInv'
  <1>0. Shape /\ Requests /\ Versions /\ Held
    BY DEF TypeInv
  <1>1. /\ req' \in [Client -> Req] /\ obj' \in [Client -> [Node -> Obj]] /\ calm' \in [Client -> BOOLEAN]
        /\ req'[c] = NoRequest /\ calm'[c] = FALSE
        /\ \A n \in Node : obj'[c][n] = IF objects[n].cached THEN objects[n] ELSE NoObject
        /\ \A d \in Client : d # c => req'[d] = req[d] /\ obj'[d] = obj[d] /\ calm'[d] = calm[d]
    BY DEF DoneEffect
  <1>2. snap' \in [Client -> Nat] /\ ended' \subseteq {"removal", "recursion"} /\ Len(log) \in Nat
    BY <1>0 DEF Shape
  <1>3. \A d \in Client : snap'[d] <= Len(log)
    BY <1>0 DEF Versions
  <1>4. \A n \in Node : obj'[c][n].md.verified <= Len(log)
    BY <1>1, <1>2, Constants
  <1>5. \A n \in Node : obj'[c][n].current => obj'[c][n].md.exists /\ md'[n].exists
    BY <1>1, Constants
  <1> QED
    BY <1>1, <1>2, <1>3, <1>4, <1>5, TypeRequestOver

\* Only the request and one object of client c change.
LEMMA TypeSetObject ==
  ASSUME TypeInv, NEW c \in Client, NEW n \in Node, NEW o \in Obj, SetEffect(c, n, o),
         UNCHANGED <<md, log, snap, ended>>, calm' \in [Client -> BOOLEAN], req' \in [Client -> Req],
         RequestOK(c)', \A d \in Client : d # c => req'[d] = req[d],
         o.md.verified <= Len(log), o.current => o.md.exists /\ md[n].exists
  PROVE  TypeInv'
  <1>0. Shape /\ Versions /\ Held
    BY DEF TypeInv
  <1>1. /\ obj' \in [Client -> [Node -> Obj]] /\ obj'[c][n] = o
        /\ \A k \in Node : k # n => obj'[c][k] = obj[c][k]
        /\ \A d \in Client : d # c => obj'[d] = obj[d]
    BY DEF SetEffect
  <1>2. Shape'
    BY <1>0, <1>1 DEF Shape
  <1>3. Versions'
    <2>1. ASSUME NEW d \in Client, NEW k \in Node
          PROVE  obj'[d][k].md.verified <= Len(log)
      BY <1>0, <1>1 DEF Versions
    <2> QED
      BY <1>0, <2>1 DEF Versions
  <1>4. Held'
    <2>1. ASSUME NEW d \in Client, NEW k \in Node, obj'[d][k].current
          PROVE  obj'[d][k].md.exists /\ md[k].exists
      BY <1>0, <1>1, <2>1 DEF Held
    <2> QED
      BY <2>1 DEF Held
  <1> QED
    BY <1>2, <1>3, <1>4, TypeFrame

\* A Put of metadata by client c.
LEMMA TypePut ==
  ASSUME TypeInv, NEW c \in Client, NEW n \in Node, NEW m \in MD, NEW cached \in BOOLEAN,
         PutEffect(c, n, m, cached), m.exists,
         m.verified <= Len(log), UNCHANGED <<log, snap, ended>>, calm' \in [Client -> BOOLEAN],
         req' \in [Client -> Req], RequestOK(c)', \A d \in Client : d # c => req'[d] = req[d]
  PROVE  TypeInv'
  <1>0. Shape /\ Versions /\ Held
    BY DEF TypeInv
  <1>1. /\ md' \in [Node -> MD] /\ md'[n] = m /\ obj' \in [Client -> [Node -> Obj]] /\ obj'[c][n].md = m
        /\ \A k \in Node : k # n => md'[k] = md[k]
        /\ \A d \in Client : d # c => obj'[d][n].md = obj[d][n].md /\ obj'[d][n].current = FALSE
        /\ \A d \in Client, k \in Node : k # n => obj'[d][k] = obj[d][k]
    BY DEF PutEffect
  <1>2. Shape'
    BY <1>0, <1>1 DEF Shape
  <1>3. Versions'
    <2>1. ASSUME NEW d \in Client, NEW k \in Node
          PROVE  obj'[d][k].md.verified <= Len(log) /\ md'[k].verified <= Len(log)
      BY <1>0, <1>1 DEF Versions
    <2> QED
      BY <1>0, <1>1, <2>1 DEF Versions
  <1>4. Held'
    <2>1. ASSUME NEW d \in Client, NEW k \in Node, obj'[d][k].current
          PROVE  obj'[d][k].md.exists /\ md'[k].exists
      BY <1>0, <1>1, <2>1 DEF Held
    <2> QED
      BY <2>1 DEF Held
  <1>5. \A k \in Node : md[k].exists => md'[k].exists
    BY <1>1
  <1> QED
    BY <1>2, <1>3, <1>4, <1>5, TypeFrame

-----------------------------------------------------------------------------
(* The actions as cases of these changes.                                  *)

\* Where the request of client c goes when the metadata of node n is verified.
VerifiedNext(c, n) ==
    \/ n = req[c].target /\ GotoEffect(c, "found", n)
    \/ n # req[c].target /\ n \in Dir /\ GotoEffect(c, "inherit", n + 1)

LookupCases(c, n, o) ==
    /\ req[c].pc = "lookup" /\ n = req[c].at /\ o.cached = TRUE
    /\ \/ o = obj[c][n]
       \/ o.md = md[n] /\ o.current = TRUE
    /\ UNCHANGED <<md, log>>
    /\ \/ /\ o.md.verified >= Required(snap[c], n) /\ SetEffect(c, n, o)
          /\ VerifiedNext(c, n) /\ UNCHANGED <<snap, ended, calm>>
       \/ /\ ~(o.md.verified >= Required(snap[c], n)) /\ SetEffect(c, n, o)
          /\ n # 0 /\ GotoEffect(c, "lookup", n - 1) /\ UNCHANGED <<snap, ended, calm>>
       \/ /\ ~(o.md.verified >= Required(snap[c], n))
          /\ n = 0 /\ RemountEffect(c) /\ ended' = ended \cup {"recursion"}

LEMMA LookupFacts ==
  ASSUME TypeInv, NEW c \in Client, lookup(c)
  PROVE  \E n \in Node, o \in Obj : LookupCases(c, n, o)
  <1>0. Shape /\ Requests
    BY DEF TypeInv
  <1> DEFINE n == req[c].at
  <1>1. n \in Node /\ req[c].target \in Node /\ n <= req[c].target
    BY <1>0 DEF Shape, Req, Requests, RequestOK
  <1>2. obj[c][n] \in Obj
    BY <1>0, <1>1 DEF Shape
  <1>3. PICK o \in {obj[c][n], Loaded(n, TRUE)} :
            /\ req[c].pc = "lookup" /\ o.cached
            /\ IF o.md.verified >= Required(snap[c], n)
               THEN /\ IF n = req[c].target THEN Goto(c, "found", n) ELSE Goto(c, "inherit", n + 1)
                    /\ obj' = [obj EXCEPT ![c][n] = o]
                    /\ UNCHANGED <<snap, ended, calm>>
               ELSE IF n # 0
               THEN /\ Goto(c, "lookup", n - 1)
                    /\ obj' = [obj EXCEPT ![c][n] = o]
                    /\ UNCHANGED <<snap, ended, calm>>
               ELSE Ends(c, "recursion")
            /\ UNCHANGED <<md, log>>
    BY DEF lookup
  <1>4. o \in Obj /\ (o = obj[c][n] \/ (o.md = md[n] /\ o.current = TRUE))
    <2>1. Loaded(n, TRUE) \in Obj /\ Loaded(n, TRUE).md = md[n] /\ Loaded(n, TRUE).current = TRUE
      BY <1>0, <1>1, LoadedFacts
    <2>2. o = obj[c][n] \/ o = Loaded(n, TRUE)
      BY <1>3
    <2>3. CASE o = obj[c][n]
      BY <1>2, <2>3
    <2>4. CASE o = Loaded(n, TRUE)
      BY <2>1, <2>4
    <2> QED
      BY <2>2, <2>3, <2>4
  <1>5. o.cached = TRUE
    BY <1>3, <1>4 DEF Obj
  <1> DEFINE v == o.md.verified >= Required(snap[c], n)
  <1> HIDE DEF v, n
  <1>6. CASE v
    <2>1. obj' = [obj EXCEPT ![c][n] = o] /\ UNCHANGED <<snap, ended, calm>>
      BY <1>3, <1>6 DEF v, n
    <2>2. SetEffect(c, n, o)
      BY <1>0, <1>1, <1>4, <2>1, SetFacts
    <2>3. CASE n = req[c].target
      <3>1. Goto(c, "found", n)
        BY <1>3, <1>6, <2>3 DEF v, n
      <3>2. GotoEffect(c, "found", n)
        BY <1>0, <1>1, <3>1, GotoFacts DEF Places
      <3> QED
        BY <1>1, <1>3, <1>4, <1>5, <1>6, <2>1, <2>2, <2>3, <3>2 DEF LookupCases, VerifiedNext, v, n
    <2>4. CASE n # req[c].target
      <3>1. Goto(c, "inherit", n + 1)
        BY <1>3, <1>6, <2>4 DEF v, n
      <3>2. n \in Dir /\ n + 1 \in Node
        BY <1>1, <2>4 DEF Node, Dir
      <3>3. GotoEffect(c, "inherit", n + 1)
        BY <1>0, <3>1, <3>2, GotoFacts DEF Places
      <3> QED
        BY <1>1, <1>3, <1>4, <1>5, <1>6, <2>1, <2>2, <2>4, <3>2, <3>3 DEF LookupCases, VerifiedNext, v, n
    <2> QED
      BY <2>3, <2>4
  <1>7. CASE ~v /\ n # 0
    <2>1. obj' = [obj EXCEPT ![c][n] = o] /\ UNCHANGED <<snap, ended, calm>> /\ Goto(c, "lookup", n - 1)
      BY <1>3, <1>7 DEF v, n
    <2>2. SetEffect(c, n, o)
      BY <1>0, <1>1, <1>4, <2>1, SetFacts
    <2>3. n - 1 \in Node
      BY <1>1, <1>7, Nodes
    <2>4. GotoEffect(c, "lookup", n - 1)
      BY <1>0, <2>1, <2>3, GotoFacts DEF Places
    <2> QED
      BY <1>1, <1>3, <1>4, <1>5, <1>7, <2>1, <2>2, <2>4 DEF LookupCases, v, n
  <1>8. CASE ~v /\ n = 0
    <2>1. Remount(c) /\ ended' = ended \cup {"recursion"}
      BY <1>3, <1>8 DEF v, n, Ends
    <2>2. RemountEffect(c)
      BY <1>0, <2>1, RemountFacts
    <2> QED
      BY <1>1, <1>3, <1>4, <1>5, <1>8, <2>1, <2>2 DEF LookupCases, v, n
  <1> QED
    BY <1>6, <1>7, <1>8

InheritCases(c, n, m) ==
    /\ req[c].pc = "inherit" /\ n = req[c].at /\ n - 1 \in Dir
    /\ m = inherit_path_permissions(n, obj[c][n].md, obj[c][n - 1].md)
    /\ m.perm = obj[c][n].md.perm /\ m.exists = obj[c][n].md.exists
    /\ m.pp = obj[c][n - 1].md.pp \cup obj[c][n - 1].md.ppc
    /\ m.verified = obj[c][n - 1].md.verified
    /\ n \in Dir => m.ppc = Range(Restrictions(m.perm)) \ m.pp
    /\ UNCHANGED <<log, snap, ended, calm>>
    /\ \/ obj[c][n].current /\ PutEffect(c, n, m, obj[c][n].cached) /\ VerifiedNext(c, n)
       \/ ~obj[c][n].current /\ SetEffect(c, n, NoObject) /\ GotoEffect(c, "lookup", n) /\ md' = md

LEMMA InheritFacts ==
  ASSUME TypeInv, NEW c \in Client, Inherit(c)
  PROVE  \E n \in Node, m \in MD : InheritCases(c, n, m)
  <1>0. Shape /\ Requests
    BY DEF TypeInv
  <1> DEFINE n == req[c].at
             m == inherit_path_permissions(n, obj[c][n].md, obj[c][n - 1].md)
  <1>1. req[c].pc = "inherit" /\ UNCHANGED <<log, snap, ended, calm>>
    BY DEF Inherit
  <1>2. n \in Node /\ req[c].target \in Node /\ n <= req[c].target /\ n - 1 \in Dir
    <2>1. n \in Node /\ req[c].target \in Node
      BY <1>0 DEF Shape, Req
    <2>2. n <= req[c].target /\ n >= 1
      BY <1>0, <1>1 DEF Requests, RequestOK
    <2> QED
      BY <2>1, <2>2 DEF Node, Dir
  <1>3. obj[c][n] \in Obj /\ obj[c][n].md \in MD /\ obj[c][n - 1].md \in MD /\ obj[c][n].cached \in BOOLEAN
    <2>1. \A k \in Node : obj[c][k] \in Obj
      BY <1>0 DEF Shape
    <2>2. \A k \in Node : obj[c][k].md \in MD /\ obj[c][k].cached \in BOOLEAN
      BY <2>1 DEF Obj
    <2>3. n \in Node /\ n - 1 \in Node
      BY <1>2, Nodes
    <2> HIDE DEF n
    <2> QED
      BY <2>1, <2>2, <2>3
  <1>4. /\ m \in MD
        /\ m.perm = obj[c][n].md.perm /\ m.exists = obj[c][n].md.exists
        /\ m.pp = obj[c][n - 1].md.pp \cup obj[c][n - 1].md.ppc
        /\ m.verified = obj[c][n - 1].md.verified
        /\ n \in Dir => m.ppc = Range(Restrictions(m.perm)) \ m.pp
    <2> DEFINE a == obj[c][n].md
               p == obj[c][n - 1].md
    <2>1. n \in Node /\ a \in MD /\ p \in MD /\ m = inherit_path_permissions(n, a, p)
      BY <1>2, <1>3
    <2> HIDE DEF n, a, p, m
    <2>2. /\ m \in MD /\ m.perm = a.perm /\ m.exists = a.exists
          /\ m.pp = p.pp \cup p.ppc /\ m.verified = p.verified
          /\ n \in Dir => m.ppc = Range(Restrictions(a.perm)) \ (p.pp \cup p.ppc)
      BY <2>1, InheritType
    <2>3. a = obj[c][n].md /\ p = obj[c][n - 1].md
      BY DEF a, p
    <2> QED
      BY <2>2, <2>3
  <1>5. IF obj[c][n].current
        THEN /\ md' = [md EXCEPT ![n] = m]
             /\ obj' = Objects(c, n, m, obj[c][n].cached)
             /\ IF n = req[c].target THEN Goto(c, "found", n) ELSE Goto(c, "inherit", n + 1)
        ELSE /\ obj' = [obj EXCEPT ![c][n] = NoObject]
             /\ Goto(c, "lookup", n)
             /\ UNCHANGED md
    BY DEF Inherit
  <1>6. m = inherit_path_permissions(n, obj[c][n].md, obj[c][n - 1].md) /\ n = req[c].at
    OBVIOUS
  <1> HIDE DEF n, m
  <1>7. CASE obj[c][n].current
    <2>1. PutEffect(c, n, m, obj[c][n].cached)
      BY <1>0, <1>2, <1>3, <1>4, <1>5, <1>7, PutFacts
    <2>2. VerifiedNext(c, n)
      <3>1. CASE n = req[c].target
        BY <1>0, <1>2, <1>5, <1>7, <3>1, GotoFacts DEF Places, VerifiedNext
      <3>2. CASE n # req[c].target
        <4>1. n \in Dir /\ n + 1 \in Node
          BY <1>2, <3>2 DEF Node, Dir
        <4> QED
          BY <1>0, <1>2, <1>5, <1>7, <3>2, <4>1, GotoFacts DEF Places, VerifiedNext
      <3> QED
        BY <3>1, <3>2
    <2> QED
      BY <1>1, <1>2, <1>4, <1>6, <1>7, <2>1, <2>2 DEF InheritCases
  <1>8. CASE ~obj[c][n].current
    <2>1. SetEffect(c, n, NoObject) /\ GotoEffect(c, "lookup", n) /\ md' = md
      BY <1>0, <1>2, <1>5, <1>8, SetFacts, GotoFacts, Constants DEF Places
    <2> QED
      BY <1>1, <1>2, <1>4, <1>6, <1>8, <2>1 DEF InheritCases
  <1> QED
    BY <1>7, <1>8

PutPermissionsCases(c, n, m) ==
    /\ req[c].pc = "found" /\ req[c].op \in {"chmod", "chown"} /\ n = req[c].target /\ n \in Dir
    /\ m.pp = Found(c).pp /\ m.ppc = Found(c).ppc
    /\ m.verified = Found(c).verified /\ m.exists = Found(c).exists
    /\ UNCHANGED <<log, snap, ended>>
    /\ \/ /\ obj[c][n].current /\ PutEffect(c, n, m, obj[c][n].cached)
          /\ Avoided("crash in chmod", ~RemovalInRange(m.perm, m.pp))
          /\ calm' = [d \in Client |-> FALSE] /\ GotoEffect(c, "children", n)
       \/ /\ ~obj[c][n].current /\ SetEffect(c, n, NoObject)
          /\ GotoEffect(c, "lookup", n) /\ UNCHANGED <<md, calm>>

LEMMA TargetType ==
  ASSUME TypeInv, NEW c \in Client
  PROVE  LET n == req[c].target
         IN  /\ n \in Node /\ obj[c][n] \in Obj
             /\ obj[c][n].md \in MD /\ obj[c][n].cached \in BOOLEAN /\ obj[c][n].current \in BOOLEAN
             /\ Found(c) = obj[c][n].md
             /\ req[c].op \in {"add", "chmod", "chown"} => n \in Dir
  <1>0. Shape /\ Requests
    BY DEF TypeInv
  <1> DEFINE n == req[c].target
  <1>1. n \in Node
    BY <1>0 DEF Shape, Req
  <1>2. obj[c][n] \in Obj
    BY <1>0, <1>1 DEF Shape
  <1>3. obj[c][n].md \in MD /\ obj[c][n].cached \in BOOLEAN /\ obj[c][n].current \in BOOLEAN
    BY <1>2 DEF Obj
  <1>4. req[c].op \in {"add", "chmod", "chown"} => n \in Dir
    BY <1>0 DEF Requests, RequestOK
  <1> QED
    BY <1>1, <1>2, <1>3, <1>4 DEF Found

LEMMA PutPermissionsFacts ==
  ASSUME TypeInv, NEW c \in Client, PutPermissions(c)
  PROVE  \E n \in Node, m \in MD : PutPermissionsCases(c, n, m)
  <1>0. Shape
    BY DEF TypeInv
  <1> DEFINE n == req[c].target
             old == Found(c).perm
             p == IF req[c].op = "chmod" THEN [old EXCEPT !.x = req[c].perm.x]
                  ELSE [req[c].perm EXCEPT !.x = old.x]
             m == [Found(c) EXCEPT !.perm = p]
  <1>1. /\ req[c].pc = "found" /\ req[c].op \in {"chmod", "chown"}
        /\ UNCHANGED <<log, snap, ended>>
        /\ Avoided("crash in chmod", obj[c][n].current /\ ~RemovalInRange(p, m.pp))
        /\ IF obj[c][n].current
           THEN /\ md' = [md EXCEPT ![n] = m]
                /\ obj' = Objects(c, n, m, obj[c][n].cached)
                /\ calm' = [d \in Client |-> FALSE]
                /\ Goto(c, "children", n)
           ELSE /\ obj' = [obj EXCEPT ![c][n] = NoObject]
                /\ Goto(c, "lookup", n)
                /\ UNCHANGED <<md, calm>>
    BY DEF PutPermissions
  <1>2. /\ n \in Node /\ obj[c][n].md \in MD /\ obj[c][n].cached \in BOOLEAN
        /\ Found(c) = obj[c][n].md /\ n \in Dir
    BY <1>1, TargetType
  <1>3. p \in Perms
    <2>1. old \in Perms /\ req[c].perm \in Perms
      BY <1>0, <1>2 DEF MD, Shape, Req
    <2> HIDE DEF old
    <2> QED
      BY <2>1 DEF Perms
  <1> HIDE DEF p
  <1>4. m \in MD /\ m.perm = p /\ m.pp = Found(c).pp /\ m.ppc = Found(c).ppc
        /\ m.verified = Found(c).verified /\ m.exists = Found(c).exists
    BY <1>2, <1>3 DEF MD
  <1>5. n = req[c].target
    OBVIOUS
  <1> HIDE DEF n, m
  <1>6. CASE obj[c][n].current
    <2>1. PutEffect(c, n, m, obj[c][n].cached) /\ calm' = [d \in Client |-> FALSE]
      BY <1>0, <1>1, <1>2, <1>4, <1>6, PutFacts
    <2>2. GotoEffect(c, "children", n)
      BY <1>0, <1>1, <1>2, <1>6, GotoFacts DEF Places
    <2>3. Avoided("crash in chmod", ~RemovalInRange(m.perm, m.pp))
      BY <1>1, <1>4, <1>6 DEF Avoided
    <2> QED
      BY <1>1, <1>2, <1>4, <1>5, <1>6, <2>1, <2>2, <2>3 DEF PutPermissionsCases
  <1>7. CASE ~obj[c][n].current
    <2>1. SetEffect(c, n, NoObject) /\ GotoEffect(c, "lookup", n) /\ UNCHANGED <<md, calm>>
      BY <1>0, <1>1, <1>2, <1>7, SetFacts, GotoFacts, Constants DEF Places
    <2> QED
      BY <1>1, <1>2, <1>4, <1>5, <1>7, <2>1 DEF PutPermissionsCases
  <1> QED
    BY <1>6, <1>7

ComputeCases(c, n, o) ==
    /\ req[c].pc = "children" /\ n = req[c].target /\ n \in Dir
    /\ o.md = computePathPermissionChildren(Found(c))
    /\ o.current = obj[c][n].current /\ o.cached = obj[c][n].cached
    /\ UNCHANGED <<md, log>>
    /\ \/ /\ ~RemovalInRange(Found(c).perm, Found(c).pp)
          /\ RemountEffect(c) /\ ended' = ended \cup {"removal"}
       \/ o.md = Found(c) /\ DoneEffect(c, obj[c]) /\ UNCHANGED <<snap, ended>>
       \/ SetEffect(c, n, o) /\ GotoEffect(c, "log", n) /\ UNCHANGED <<snap, ended, calm>>

LEMMA ComputeFacts ==
  ASSUME TypeInv, NEW c \in Client, ComputeChildren(c)
  PROVE  \E n \in Node, o \in Obj : ComputeCases(c, n, o)
  <1>0. Shape /\ Requests
    BY DEF TypeInv
  <1> DEFINE n == req[c].target
             m == computePathPermissionChildren(Found(c))
             o == [obj[c][n] EXCEPT !.md = m]
  <1>1. /\ req[c].pc = "children" /\ UNCHANGED <<md, log>>
        /\ IF ~RemovalInRange(m.perm, m.pp) THEN Ends(c, "removal")
           ELSE IF m = Found(c) THEN Done(c, obj[c]) /\ UNCHANGED <<snap, ended>>
           ELSE /\ obj' = [obj EXCEPT ![c][req[c].target].md = m]
                /\ Goto(c, "log", req[c].target)
                /\ UNCHANGED <<snap, ended, calm>>
    BY DEF ComputeChildren
  <1>2. req[c].op \in {"chmod", "chown"}
    BY <1>0, <1>1 DEF Requests, RequestOK
  <1>3. n \in Node /\ n \in Dir /\ obj[c][n] \in Obj /\ obj[c][n].md \in MD /\ Found(c) = obj[c][n].md
    BY <1>2, TargetType
  <1>4. m \in MD /\ m.perm = Found(c).perm /\ m.pp = Found(c).pp
    BY <1>3, ComputeType
  <1>5. m = computePathPermissionChildren(Found(c)) /\ n = req[c].target
    OBVIOUS
  <1> HIDE DEF m
  <1>6. o \in Obj /\ o.md = m /\ o.current = obj[c][n].current /\ o.cached = obj[c][n].cached
    BY <1>3, <1>4 DEF Obj
  <1>7. obj[c] \in [Node -> Obj]
    BY <1>0 DEF Shape
  <1>8. CASE ~RemovalInRange(m.perm, m.pp)
    <2>1. Remount(c) /\ ended' = ended \cup {"removal"}
      BY <1>1, <1>8 DEF Ends
    <2>2. RemountEffect(c)
      BY <1>0, <2>1, RemountFacts
    <2>3. ~RemovalInRange(Found(c).perm, Found(c).pp)
      BY <1>4, <1>8
    <2> HIDE DEF n, o
    <2> QED
      BY <1>1, <1>3, <1>5, <1>6, <2>1, <2>2, <2>3 DEF ComputeCases
  <1>9. CASE RemovalInRange(m.perm, m.pp) /\ m = Found(c)
    <2>1. Done(c, obj[c]) /\ UNCHANGED <<snap, ended>>
      BY <1>1, <1>9
    <2>2. DoneEffect(c, obj[c])
      BY <1>0, <1>7, <2>1, DoneFacts
    <2> HIDE DEF n, o
    <2> QED
      BY <1>1, <1>3, <1>5, <1>6, <1>9, <2>1, <2>2 DEF ComputeCases
  <1>10. CASE RemovalInRange(m.perm, m.pp) /\ m # Found(c)
    <2>1. Goto(c, "log", n) /\ UNCHANGED <<snap, ended, calm>> /\ obj' = [obj EXCEPT ![c][n].md = m]
      BY <1>1, <1>10
    <2>2. obj' = [obj EXCEPT ![c][n] = o]
      BY <1>0, <1>3, <2>1 DEF Shape
    <2> HIDE DEF n, o
    <2>3. SetEffect(c, n, o)
      BY <1>0, <1>3, <1>6, <2>2, SetFacts
    <2>4. GotoEffect(c, "log", n)
      BY <1>0, <1>3, <2>1, GotoFacts DEF Places
    <2> QED
      BY <1>1, <1>3, <1>5, <1>6, <2>1, <2>3, <2>4 DEF ComputeCases
  <1> QED
    BY <1>8, <1>9, <1>10

LogCases(c, n) ==
    /\ req[c].pc = "log" /\ n = req[c].target /\ n \in Dir
    /\ log' \in Seq(Dir) /\ Len(log') = Len(log) + 1 /\ log'[Len(log')] = n
    /\ \A i \in 1 .. Len(log) : log'[i] = log[i]
    /\ snap' \in [Client -> Nat] /\ snap'[c] = Len(log')
    /\ \A d \in Client : d # c => snap'[d] = snap[d]
    /\ GotoEffect(c, "force", n)
    /\ UNCHANGED <<md, obj, ended, calm>>

LEMMA LogFacts ==
  ASSUME TypeInv, NEW c \in Client, LogChange(c)
  PROVE  \E n \in Node : LogCases(c, n)
  <1>0. Shape /\ Requests
    BY DEF TypeInv
  <1> DEFINE n == req[c].target
  <1>1. /\ req[c].pc = "log" /\ log' = Append(log, n) /\ snap' = [snap EXCEPT ![c] = Len(log')]
        /\ Goto(c, "force", n) /\ UNCHANGED <<md, obj, ended, calm>> /\ n = req[c].target
    BY DEF LogChange
  <1>2. n \in Node /\ n \in Dir
    <2>1. req[c].op \in {"chmod", "chown"}
      BY <1>0, <1>1 DEF Requests, RequestOK
    <2> QED
      BY <2>1, TargetType
  <1> HIDE DEF n
  <1>3. log \in Seq(Dir) /\ snap \in [Client -> Nat]
    BY <1>0 DEF Shape
  <1>4. /\ log' \in Seq(Dir) /\ Len(log') = Len(log) + 1 /\ log'[Len(log')] = n
        /\ \A i \in 1 .. Len(log) : log'[i] = log[i]
    BY <1>1, <1>2, <1>3
  <1>5. /\ snap' \in [Client -> Nat] /\ snap'[c] = Len(log')
        /\ \A d \in Client : d # c => snap'[d] = snap[d]
    BY <1>1, <1>3, <1>4
  <1>6. GotoEffect(c, "force", n)
    BY <1>0, <1>1, <1>2, GotoFacts DEF Places
  <1> QED
    BY <1>1, <1>2, <1>4, <1>5, <1>6 DEF LogCases

\* A Put of the metadata m of node n that is read again after EAGAIN.
ReloadEffect(c, n) ==
    /\ ~obj[c][n].current
    /\ \E o \in Obj : o.md = md[n] /\ o.current = TRUE /\ o.cached = FALSE /\ SetEffect(c, n, o)
    /\ UNCHANGED <<md, req, calm>>

PutVerifiedCases(c, n, m) ==
    /\ req[c].pc = "force" /\ n = req[c].target /\ n \in Dir
    /\ m.perm = Found(c).perm /\ m.pp = Found(c).pp /\ m.ppc = Found(c).ppc
    /\ m.verified = snap[c] /\ m.exists = Found(c).exists
    /\ UNCHANGED <<log, snap, ended>>
    /\ \/ /\ obj[c][n].current /\ PutEffect(c, n, m, obj[c][n].cached) /\ calm' = calm
          /\ req' \in [Client -> Req] /\ req'[c] = NoRequest
          /\ \A d \in Client : d # c => req'[d] = req[d]
       \/ ReloadEffect(c, n)

LEMMA ReloadFacts ==
  ASSUME TypeInv, NEW c \in Client, NEW n \in Node, ~obj[c][n].current,
         obj' = [obj EXCEPT ![c][n] = Loaded(n, FALSE)], UNCHANGED <<md, req, calm>>
  PROVE  ReloadEffect(c, n)
  <1>0. Shape
    BY DEF TypeInv
  <1> DEFINE o == Loaded(n, FALSE)
  <1>1. o \in Obj /\ o.md = md[n] /\ o.current = TRUE /\ o.cached = FALSE
    BY <1>0, LoadedFacts
  <1> HIDE DEF o
  <1>2. SetEffect(c, n, o)
    BY <1>0, <1>1, SetFacts DEF o
  <1> QED
    BY <1>1, <1>2 DEF ReloadEffect

LEMMA PutVerifiedFacts ==
  ASSUME TypeInv, NEW c \in Client, PutVerified(c)
  PROVE  \E n \in Node, m \in MD : PutVerifiedCases(c, n, m)
  <1>0. Shape /\ Requests
    BY DEF TypeInv
  <1> DEFINE n == req[c].target
             m == [Found(c) EXCEPT !.verified = snap[c]]
  <1>1. /\ req[c].pc = "force" /\ UNCHANGED <<log, snap, ended>> /\ n = req[c].target
        /\ IF obj[c][n].current
           THEN /\ md' = [md EXCEPT ![n] = m]
                /\ req' = [req EXCEPT ![c] = NoRequest]
                /\ obj' = Objects(c, n, m, obj[c][n].cached)
                /\ UNCHANGED calm
           ELSE /\ obj' = [obj EXCEPT ![c][n] = Loaded(n, FALSE)]
                /\ UNCHANGED <<md, req, calm>>
    BY DEF PutVerified, Forced
  <1>2. req[c].op \in {"chmod", "chown"}
    BY <1>0, <1>1 DEF Requests, RequestOK
  <1>3. n \in Node /\ n \in Dir /\ Found(c) \in MD /\ obj[c][n].cached \in BOOLEAN
    BY <1>2, TargetType
  <1>4. snap[c] \in Nat
    BY <1>0 DEF Shape
  <1>5. /\ m \in MD /\ m.perm = Found(c).perm /\ m.pp = Found(c).pp /\ m.ppc = Found(c).ppc
        /\ m.verified = snap[c] /\ m.exists = Found(c).exists
    BY <1>3, <1>4 DEF MD
  <1> HIDE DEF n, m
  <1>6. CASE obj[c][n].current
    <2>1. PutEffect(c, n, m, obj[c][n].cached) /\ calm' = calm
      BY <1>0, <1>1, <1>3, <1>5, <1>6, PutFacts
    <2>2. req' \in [Client -> Req] /\ req'[c] = NoRequest /\ \A d \in Client : d # c => req'[d] = req[d]
      BY <1>0, <1>1, <1>6, Constants DEF Shape
    <2> QED
      BY <1>1, <1>3, <1>5, <1>6, <2>1, <2>2 DEF PutVerifiedCases
  <1>7. CASE ~obj[c][n].current
    <2>1. ReloadEffect(c, n)
      BY <1>1, <1>3, <1>7, ReloadFacts
    <2> QED
      BY <1>1, <1>3, <1>5, <2>1 DEF PutVerifiedCases
  <1> QED
    BY <1>6, <1>7

PutTimesCases(c, n) ==
    /\ req[c].pc = "found" /\ req[c].op = "add" /\ n = req[c].target /\ n \in Dir
    /\ Avoided("entry during chmod", Changing(n))
    /\ UNCHANGED <<log, snap, ended>>
    /\ \/ /\ obj[c][n].current /\ PutEffect(c, n, Found(c), obj[c][n].cached)
          /\ GotoEffect(c, "create", n) /\ calm' = calm
       \/ ReloadEffect(c, n)

LEMMA PutTimesFacts ==
  ASSUME TypeInv, NEW c \in Client, PutTimes(c)
  PROVE  \E n \in Node : PutTimesCases(c, n)
  <1>0. Shape
    BY DEF TypeInv
  <1> DEFINE n == req[c].target
  <1>1. /\ req[c].pc = "found" /\ req[c].op = "add" /\ UNCHANGED <<log, snap, ended>>
        /\ n = req[c].target /\ Avoided("entry during chmod", Changing(n))
        /\ IF obj[c][n].current
           THEN /\ md' = [md EXCEPT ![n] = Found(c)]
                /\ Goto(c, "create", n)
                /\ obj' = Objects(c, n, Found(c), obj[c][n].cached)
                /\ UNCHANGED calm
           ELSE /\ obj' = [obj EXCEPT ![c][n] = Loaded(n, FALSE)]
                /\ UNCHANGED <<md, req, calm>>
    BY DEF PutTimes, Forced
  <1>2. n \in Node /\ n \in Dir /\ Found(c) \in MD /\ obj[c][n].cached \in BOOLEAN
    BY <1>1, TargetType
  <1> HIDE DEF n
  <1>3. CASE obj[c][n].current
    <2>1. PutEffect(c, n, Found(c), obj[c][n].cached) /\ calm' = calm
      BY <1>0, <1>1, <1>2, <1>3, PutFacts
    <2>2. GotoEffect(c, "create", n)
      BY <1>0, <1>1, <1>2, <1>3, GotoFacts DEF Places
    <2> QED
      BY <1>1, <1>2, <1>3, <2>1, <2>2 DEF PutTimesCases
  <1>4. CASE ~obj[c][n].current
    <2>1. ReloadEffect(c, n)
      BY <1>1, <1>2, <1>4, ReloadFacts
    <2> QED
      BY <1>1, <1>2, <2>1 DEF PutTimesCases
  <1> QED
    BY <1>3, <1>4

CreateCases(c, n, f, objects) ==
    /\ req[c].pc = "create" /\ n = req[c].target /\ n \in Dir
    /\ f.perm = FilePerm /\ f.exists = TRUE
    /\ f.pp = Found(c).pp \cup Found(c).ppc /\ f.verified = Found(c).verified
    /\ DoneEffect(c, objects)
    /\ UNCHANGED <<log, snap, ended>>
    /\ \/ /\ n = Depth - 1 /\ md[Depth].exists = FALSE
          /\ md' \in [Node -> MD] /\ md'[Depth] = f
          /\ \A k \in Node : k # Depth => md'[k] = md[k] /\ objects[k] = obj[c][k]
          /\ objects[Depth].md = f /\ objects[Depth].current = TRUE
       \/ objects = obj[c] /\ md' = md

LEMMA CreateFacts ==
  ASSUME TypeInv, NEW c \in Client, CreateFile(c)
  PROVE  \E n \in Node, f \in MD, objects \in [Node -> Obj] : CreateCases(c, n, f, objects)
  <1>0. Shape /\ Requests
    BY DEF TypeInv
  <1> DEFINE n == req[c].target
             f == inherit_path_permissions(Depth, NewFile(FilePerm), Found(c))
             is == n = Depth - 1 /\ ~md[Depth].exists
             o == [md |-> f, current |-> TRUE, cached |-> TRUE]
  <1>1. /\ req[c].pc = "create" /\ n = req[c].target /\ UNCHANGED <<log, snap, ended>>
        /\ md' = IF is THEN [md EXCEPT ![Depth] = f] ELSE md
        /\ Done(c, IF is THEN [obj[c] EXCEPT ![Depth] = o] ELSE obj[c])
    BY DEF CreateFile
  <1>2. n \in Node /\ n \in Dir /\ Found(c) \in MD
    <2>1. req[c].op = "add"
      BY <1>0, <1>1 DEF Requests, RequestOK
    <2> QED
      BY <2>1, TargetType
  <1>3. FilePerm \in Perms
    BY <1>0 DEF Shape
  <1>4. /\ f \in MD /\ f.perm = FilePerm /\ f.exists = TRUE
        /\ f.pp = Found(c).pp \cup Found(c).ppc /\ f.verified = Found(c).verified
    <2> DEFINE new == NewFile(FilePerm)
    <2>1. new \in MD /\ new.exists = TRUE /\ new.perm = FilePerm
      BY <1>3, NewFileType
    <2> HIDE DEF new
    <2>2. f = inherit_path_permissions(Depth, new, Found(c))
      BY DEF new
    <2> HIDE DEF f
    <2> QED
      BY <1>2, <2>1, <2>2, InheritType, Nodes
  <1> HIDE DEF f
  <1>5. o \in Obj /\ o.md = f /\ o.current = TRUE
    BY <1>4 DEF Obj
  <1>6. obj[c] \in [Node -> Obj] /\ md \in [Node -> MD] /\ md[Depth].exists \in BOOLEAN
    BY <1>0, Nodes DEF Shape, MD
  <1> HIDE DEF n, o
  <1>7. CASE is
    <2> DEFINE objects == [obj[c] EXCEPT ![Depth] = o]
    <2>1. /\ objects \in [Node -> Obj] /\ objects[Depth] = o
          /\ \A k \in Node : k # Depth => objects[k] = obj[c][k]
      BY <1>5, <1>6, Nodes
    <2>2. Done(c, objects)
      BY <1>1, <1>7
    <2> HIDE DEF objects
    <2>3. DoneEffect(c, objects)
      BY <1>0, <2>1, <2>2, DoneFacts
    <2>4. /\ md' \in [Node -> MD] /\ md'[Depth] = f
          /\ \A k \in Node : k # Depth => md'[k] = md[k]
      BY <1>1, <1>4, <1>6, <1>7, Nodes
    <2>5. md[Depth].exists = FALSE /\ n = Depth - 1
      BY <1>6, <1>7
    <2> QED
      BY <1>1, <1>2, <1>4, <1>5, <2>1, <2>3, <2>4, <2>5 DEF CreateCases
  <1>8. CASE ~is
    <2>1. DoneEffect(c, obj[c]) /\ md' = md
      BY <1>0, <1>1, <1>6, <1>8, DoneFacts
    <2> QED
      BY <1>1, <1>2, <1>4, <1>6, <2>1 DEF CreateCases
  <1> QED
    BY <1>7, <1>8

-----------------------------------------------------------------------------

LEMMA ReloadType ==
  ASSUME TypeInv, NEW c \in Client, NEW n \in Node, ReloadEffect(c, n),
         n = req[c].target, req[c].pc # "idle", UNCHANGED <<log, snap, ended>>
  PROVE  TypeInv'
  <1>1. PICK o \in Obj : o.md = md[n] /\ o.current = TRUE /\ o.cached = FALSE /\ SetEffect(c, n, o)
    BY DEF ReloadEffect
  <1>2. UNCHANGED <<md, req, calm>>
    BY DEF ReloadEffect
  <1>3. Shape /\ Requests /\ Versions
    BY DEF TypeInv
  <1>4. md[n].exists /\ md[n].verified <= Len(log) /\ RequestOK(c)
    BY <1>3 DEF Requests, RequestOK, Versions
  <1>5. req' \in [Client -> Req] /\ calm' \in [Client -> BOOLEAN] /\ RequestOK(c)'
    BY <1>2, <1>3, <1>4 DEF Shape, RequestOK
  <1> QED
    BY <1>1, <1>2, <1>4, <1>5, TypeSetObject

LEMMA GotoType ==
  ASSUME TypeInv, NEW c \in Client, NEW pc \in Places, NEW at \in Node, GotoEffect(c, pc, at),
         req[c].pc # "idle", at <= req[c].target, pc = "inherit" => at >= 1,
         pc \in {"children", "log", "force"} => req[c].op \in {"chmod", "chown"},
         pc = "create" => req[c].op = "add",
         \A n \in Node : md[n].exists => md'[n].exists
  PROVE  RequestOK(c)'
  <1>1. RequestOK(c) /\ req[c].target \in Node
    BY DEF TypeInv, Shape, Requests, Req
  <1>2. /\ req'[c].pc = pc /\ req'[c].at = at
        /\ req'[c].op = req[c].op /\ req'[c].target = req[c].target
    BY DEF GotoEffect
  <1>3. md'[req[c].target].exists
    BY <1>1 DEF RequestOK
  <1> QED
    BY <1>1, <1>2, <1>3 DEF RequestOK

LEMMA TypeStep == TypeInv /\ [Next]_vars => TypeInv'
  <1> SUFFICES ASSUME TypeInv, [Next]_vars
               PROVE  TypeInv'
    OBVIOUS
  <1>0. Shape /\ Requests /\ Versions /\ Held
    BY DEF TypeInv
  <1>a. \A n \in Dir : md[n].exists /\ n \in Node
    BY <1>0, Nodes DEF Requests
  <1>b. Open \in Perms /\ Perm \subseteq Perms
    BY OpenPerm
  <1>c. Len(log) \in Nat
    BY <1>0 DEF Shape
  <1>1. ASSUME NEW c \in Client, Access(c)
        PROVE  TypeInv'
    <2>1. PICK n \in Node : md[n].exists /\ Start(c, "access", n, Open)
      BY <1>1 DEF Access
    <2>2. StartEffect(c, "access", n)
      BY <1>0, <1>b, <2>1, StartFacts
    <2> QED
      BY <2>1, <2>2, TypeStart
  <1>2. ASSUME NEW c \in Client, AddName(c)
        PROVE  TypeInv'
    <2>1. PICK n \in Dir : Start(c, "add", n, Open)
      BY <1>2 DEF AddName
    <2>2. StartEffect(c, "add", n)
      BY <1>0, <1>a, <1>b, <2>1, StartFacts
    <2> QED
      BY <1>a, <2>1, <2>2, TypeStart
  <1>3. ASSUME NEW c \in Client, ChangePermissions(c)
        PROVE  TypeInv'
    <2>1. PICK op \in {"chmod", "chown"}, n \in Dir, p \in Perm : Start(c, op, n, p)
      BY <1>3 DEF ChangePermissions
    <2>2. StartEffect(c, op, n)
      BY <1>0, <1>a, <1>b, <2>1, StartFacts
    <2> QED
      BY <1>a, <2>1, <2>2, TypeStart
  <1>4. ASSUME NEW c \in Client, lookup(c)
        PROVE  TypeInv'
    <2>1. PICK n \in Node, o \in Obj : LookupCases(c, n, o)
      BY <1>4, LookupFacts
    <2>2. /\ req[c].pc = "lookup" /\ n = req[c].at /\ UNCHANGED <<md, log>>
          /\ n <= req[c].target /\ md[req[c].target].exists /\ req[c].target \in Node
      BY <1>0, <2>1 DEF LookupCases, Requests, RequestOK, Shape, Req
    <2>3. md[n].exists
      <3>1. n \in Dir \/ n = req[c].target
        BY <2>2 DEF Node, Dir
      <3> QED
        BY <1>a, <2>2, <3>1
    <2>4. o.md.verified <= Len(log) /\ (o.current => o.md.exists)
      <3>1. CASE o = obj[c][n]
        BY <1>0, <3>1 DEF Versions, Held
      <3>2. CASE o.md = md[n] /\ o.current = TRUE
        BY <1>0, <2>3, <3>2 DEF Versions
      <3> QED
        BY <2>1, <3>1, <3>2 DEF LookupCases
    <2>5. CASE SetEffect(c, n, o) /\ VerifiedNext(c, n) /\ UNCHANGED <<snap, ended, calm>>
      <3>1. PICK pc \in Places, at \in Node : /\ GotoEffect(c, pc, at) /\ at <= req[c].target
                                              /\ (pc = "inherit" => at >= 1)
                                              /\ pc \in {"found", "inherit"}
        <4>1. CASE n = req[c].target /\ GotoEffect(c, "found", n)
          BY <2>2, <4>1 DEF Places
        <4>2. CASE n # req[c].target /\ n \in Dir /\ GotoEffect(c, "inherit", n + 1)
          <5>1. n + 1 \in Node /\ n + 1 <= req[c].target /\ n + 1 >= 1
            BY <2>2, <4>2 DEF Node, Dir
          <5> QED
            BY <4>2, <5>1 DEF Places
        <4> QED
          BY <2>5, <4>1, <4>2 DEF VerifiedNext
      <3>2. RequestOK(c)'
        BY <2>2, <3>1, GotoType
      <3>3. req' \in [Client -> Req] /\ \A d \in Client : d # c => req'[d] = req[d]
        BY <3>1 DEF GotoEffect
      <3>4. calm' \in [Client -> BOOLEAN]
        BY <1>0, <2>5 DEF Shape
      <3> QED
        BY <2>2, <2>3, <2>4, <2>5, <3>2, <3>3, <3>4, TypeSetObject
    <2>6. CASE SetEffect(c, n, o) /\ n # 0 /\ GotoEffect(c, "lookup", n - 1) /\ UNCHANGED <<snap, ended, calm>>
      <3>1. n - 1 \in Node /\ n - 1 <= req[c].target
        BY <2>2, <2>6 DEF Node
      <3>2. RequestOK(c)'
        BY <2>2, <2>6, <3>1, GotoType DEF Places
      <3>3. req' \in [Client -> Req] /\ \A d \in Client : d # c => req'[d] = req[d]
        BY <2>6 DEF GotoEffect
      <3>4. calm' \in [Client -> BOOLEAN]
        BY <1>0, <2>6 DEF Shape
      <3> QED
        BY <2>2, <2>3, <2>4, <2>6, <3>2, <3>3, <3>4, TypeSetObject
    <2>7. CASE RemountEffect(c) /\ ended' = ended \cup {"recursion"}
      <3>1. ended' \subseteq {"removal", "recursion"}
        BY <1>0, <2>7 DEF Shape
      <3> QED
        BY <2>2, <2>7, <3>1, TypeRemount
    <2> QED
      BY <2>1, <2>5, <2>6, <2>7 DEF LookupCases
  <1>5. ASSUME NEW c \in Client, Inherit(c)
        PROVE  TypeInv'
    <2>1. PICK n \in Node, m \in MD : InheritCases(c, n, m)
      BY <1>5, InheritFacts
    <2>2. /\ req[c].pc = "inherit" /\ n = req[c].at /\ UNCHANGED <<log, snap, ended, calm>>
          /\ n <= req[c].target /\ req[c].target \in Node /\ n - 1 \in Node
          /\ n >= 1 /\ n \in Nat
      BY <1>0, <2>1, Nodes DEF InheritCases, Requests, RequestOK, Shape, Req
    <2>3. m.verified <= Len(log)
      BY <1>0, <2>1, <2>2 DEF InheritCases, Versions
    <2>4. calm' \in [Client -> BOOLEAN]
      BY <1>0, <2>2 DEF Shape
    <2>5. CASE obj[c][n].current /\ PutEffect(c, n, m, obj[c][n].cached) /\ VerifiedNext(c, n)
      <3>0. obj[c][n].md.exists /\ m.exists /\ obj[c][n].cached \in BOOLEAN
        <4>1. obj[c][n].md.exists /\ m.exists
          BY <1>0, <2>1, <2>5 DEF Held, InheritCases
        <4>2. obj[c][n].cached \in BOOLEAN
          BY <1>0 DEF Shape, Obj
        <4> QED
          BY <4>1, <4>2
      <3>1. PICK pc \in Places, at \in Node : /\ GotoEffect(c, pc, at) /\ at <= req[c].target
                                              /\ (pc = "inherit" => at >= 1)
                                              /\ pc \in {"found", "inherit"}
        <4>1. CASE n = req[c].target /\ GotoEffect(c, "found", n)
          BY <2>2, <4>1 DEF Places
        <4>2. CASE n # req[c].target /\ n \in Dir /\ GotoEffect(c, "inherit", n + 1)
          <5>1. n + 1 \in Node /\ n + 1 <= req[c].target /\ n + 1 >= 1
            BY <2>2, <4>2 DEF Node, Dir
          <5> QED
            BY <4>2, <5>1 DEF Places
        <4> QED
          BY <2>5, <4>1, <4>2 DEF VerifiedNext
      <3>2. \A k \in Node : md[k].exists => md'[k].exists
        BY <2>5, <3>0 DEF PutEffect
      <3>3. RequestOK(c)'
        BY <2>2, <3>1, <3>2, GotoType
      <3>4. req' \in [Client -> Req] /\ \A d \in Client : d # c => req'[d] = req[d]
        BY <3>1 DEF GotoEffect
      <3> QED
        BY <2>2, <2>3, <2>4, <2>5, <3>0, <3>3, <3>4, TypePut
    <2>6. CASE SetEffect(c, n, NoObject) /\ GotoEffect(c, "lookup", n) /\ md' = md
      <3>1. RequestOK(c)'
        BY <2>2, <2>6, GotoType DEF Places
      <3>2. req' \in [Client -> Req] /\ \A d \in Client : d # c => req'[d] = req[d]
        BY <2>6 DEF GotoEffect
      <3>3. NoObject \in Obj /\ NoObject.md.verified <= Len(log) /\ NoObject.current = FALSE
        BY <1>c, Constants
      <3> QED
        BY <2>2, <2>4, <2>6, <3>1, <3>2, <3>3, TypeSetObject
    <2> QED
      BY <2>1, <2>5, <2>6 DEF InheritCases
  <1>6. ASSUME NEW c \in Client, InheritEnds(c) \/ Crash(c)
        PROVE  TypeInv'
    <2>1. Remount(c) /\ md' = md /\ log' = log /\ (ended' = ended \cup {"removal"} \/ ended' = ended)
      BY <1>6 DEF InheritEnds, Crash, Ends
    <2>2. RemountEffect(c)
      BY <1>0, <2>1, RemountFacts
    <2>3. ended' \subseteq {"removal", "recursion"}
      BY <1>0, <2>1 DEF Shape
    <2> QED
      BY <2>1, <2>2, <2>3, TypeRemount
  <1>d. ASSUME NEW c \in Client, DoneEffect(c, obj[c]), UNCHANGED <<md, log, snap, ended>>
        PROVE  TypeInv'
    <2>1. obj[c] \in [Node -> Obj] /\ md \in [Node -> MD]
      BY <1>0 DEF Shape
    <2>2. \A n \in Node : /\ md[n].verified <= Len(log) /\ obj[c][n].md.verified <= Len(log)
                          /\ obj[c][n].current => obj[c][n].md.exists /\ md[n].exists
      BY <1>0 DEF Versions, Held
    <2> QED
      BY <1>d, <2>1, <2>2, TypeDone
  <1>7. ASSUME NEW c \in Client, Return(c)
        PROVE  TypeInv'
    <2>1. Done(c, obj[c]) /\ UNCHANGED <<md, log, snap, ended>>
      BY <1>7 DEF Return
    <2>2. obj[c] \in [Node -> Obj]
      BY <1>0 DEF Shape
    <2>3. DoneEffect(c, obj[c])
      BY <1>0, <2>1, <2>2, DoneFacts
    <2> QED
      BY <1>d, <2>1, <2>3
  <1>8. ASSUME NEW c \in Client, PutPermissions(c)
        PROVE  TypeInv'
    <2>1. PICK n \in Node, m \in MD : PutPermissionsCases(c, n, m)
      BY <1>8, PutPermissionsFacts
    <2>2. /\ req[c].pc = "found" /\ req[c].op \in {"chmod", "chown"} /\ n = req[c].target
          /\ UNCHANGED <<log, snap, ended>> /\ n <= n /\ Found(c) = obj[c][n].md
      <3>1. n <= n
        BY Nodes
      <3> QED
        BY <2>1, <3>1 DEF PutPermissionsCases, Found
    <2>3. m.verified <= Len(log)
      BY <1>0, <2>1, <2>2 DEF PutPermissionsCases, Versions
    <2>4. CASE /\ obj[c][n].current /\ PutEffect(c, n, m, obj[c][n].cached)
               /\ calm' = [d \in Client |-> FALSE] /\ GotoEffect(c, "children", n)
      <3>0. m.exists /\ obj[c][n].cached \in BOOLEAN
        <4>1. m.exists
          BY <1>0, <2>1, <2>2, <2>4 DEF Held, PutPermissionsCases
        <4>2. obj[c][n].cached \in BOOLEAN
          BY <1>0 DEF Shape, Obj
        <4> QED
          BY <4>1, <4>2
      <3>1. \A k \in Node : md[k].exists => md'[k].exists
        BY <2>4, <3>0 DEF PutEffect
      <3>2. RequestOK(c)'
        BY <2>2, <2>4, <3>1, GotoType DEF Places
      <3>3. req' \in [Client -> Req] /\ \A d \in Client : d # c => req'[d] = req[d]
        BY <2>4 DEF GotoEffect
      <3>4. calm' \in [Client -> BOOLEAN]
        BY <2>4
      <3> QED
        BY <2>2, <2>3, <2>4, <3>0, <3>2, <3>3, <3>4, TypePut
    <2>5. CASE SetEffect(c, n, NoObject) /\ GotoEffect(c, "lookup", n) /\ UNCHANGED <<md, calm>>
      <3>1. RequestOK(c)'
        BY <2>2, <2>5, GotoType DEF Places
      <3>2. req' \in [Client -> Req] /\ \A d \in Client : d # c => req'[d] = req[d]
        BY <2>5 DEF GotoEffect
      <3>3. NoObject \in Obj /\ NoObject.md.verified <= Len(log) /\ NoObject.current = FALSE
        BY <1>c, Constants
      <3>4. calm' \in [Client -> BOOLEAN]
        BY <1>0, <2>5 DEF Shape
      <3> QED
        BY <2>2, <2>5, <3>1, <3>2, <3>3, <3>4, TypeSetObject
    <2> QED
      BY <2>1, <2>4, <2>5 DEF PutPermissionsCases
  <1>9. ASSUME NEW c \in Client, ComputeChildren(c)
        PROVE  TypeInv'
    <2>1. PICK n \in Node, o \in Obj : ComputeCases(c, n, o)
      BY <1>9, ComputeFacts
    <2>2. /\ req[c].pc = "children" /\ n = req[c].target /\ UNCHANGED <<md, log>>
          /\ req[c].op \in {"chmod", "chown"} /\ n <= n
      BY <1>0, <2>1, Nodes DEF ComputeCases, Requests, RequestOK
    <2>3. CASE RemountEffect(c) /\ ended' = ended \cup {"removal"}
      <3>1. ended' \subseteq {"removal", "recursion"}
        BY <1>0, <2>3 DEF Shape
      <3> QED
        BY <2>2, <2>3, <3>1, TypeRemount
    <2>4. CASE DoneEffect(c, obj[c]) /\ UNCHANGED <<snap, ended>>
      BY <1>d, <2>2, <2>4
    <2>5. CASE SetEffect(c, n, o) /\ GotoEffect(c, "log", n) /\ UNCHANGED <<snap, ended, calm>>
      <3>1. RequestOK(c)'
        BY <2>2, <2>5, GotoType DEF Places
      <3>2. req' \in [Client -> Req] /\ \A d \in Client : d # c => req'[d] = req[d]
        BY <2>5 DEF GotoEffect
      <3>3. calm' \in [Client -> BOOLEAN]
        BY <1>0, <2>5 DEF Shape
      <3>4. /\ obj[c][n].md \in MD /\ o.md = computePathPermissionChildren(obj[c][n].md)
            /\ o.current = obj[c][n].current
        BY <1>0, <2>1 DEF ComputeCases, Found, Shape, Obj
      <3>5. o.md.verified = obj[c][n].md.verified /\ o.md.exists = obj[c][n].md.exists
        BY <3>4, ComputeType
      <3>6. o.md.verified <= Len(log) /\ (o.current => o.md.exists /\ md[n].exists)
        BY <1>0, <3>4, <3>5 DEF Versions, Held
      <3> QED
        BY <2>2, <2>5, <3>1, <3>2, <3>3, <3>6, TypeSetObject
    <2> QED
      BY <2>1, <2>3, <2>4, <2>5 DEF ComputeCases
  <1>10. ASSUME NEW c \in Client, LogChange(c)
         PROVE  TypeInv'
    <2>1. PICK n \in Node : LogCases(c, n)
      BY <1>10, LogFacts
    <2>2. /\ req[c].pc = "log" /\ n = req[c].target /\ GotoEffect(c, "force", n)
          /\ UNCHANGED <<md, obj, ended, calm>> /\ n <= n
          /\ log' \in Seq(Dir) /\ snap' \in [Client -> Nat] /\ Len(log') = Len(log) + 1
          /\ \A d \in Client : snap'[d] = Len(log') \/ snap'[d] = snap[d]
      BY <2>1, Nodes DEF LogCases
    <2>3. req[c].op \in {"chmod", "chown"}
      BY <1>0, <2>2 DEF Requests, RequestOK
    <2>4. RequestOK(c)'
      BY <2>2, <2>3, GotoType DEF Places
    <2>5. req' \in [Client -> Req] /\ \A d \in Client : d # c => req'[d] = req[d]
      BY <2>2 DEF GotoEffect
    <2>6. Shape'
      BY <1>0, <2>2, <2>5 DEF Shape
    <2>7. Held'
      BY <1>0, <2>2 DEF Held
    <2>8. Versions'
      <3>1. \A x \in Nat : x <= Len(log) => x <= Len(log')
        BY <1>c, <2>2
      <3>2. \A k \in Node : md[k].verified \in Nat /\ md[k].verified <= Len(log)
        BY <1>0 DEF Shape, MD, Versions
      <3>3. \A d \in Client, k \in Node : obj[d][k].md.verified \in Nat /\ obj[d][k].md.verified <= Len(log)
        <4>1. \A d \in Client, k \in Node : obj[d][k].md \in MD
          BY <1>0 DEF Shape, Obj
        <4> QED
          BY <1>0, <4>1 DEF Versions, MD
      <3>4. \A d \in Client : snap'[d] <= Len(log')
        <4>1. \A d \in Client : snap[d] \in Nat /\ snap[d] <= Len(log) /\ snap'[d] \in Nat
          BY <1>0, <2>2 DEF Shape, Versions
        <4> QED
          BY <1>c, <2>2, <3>1, <4>1
      <3> QED
        BY <2>2, <3>1, <3>2, <3>3, <3>4 DEF Versions
    <2> QED
      BY <2>2, <2>4, <2>5, <2>6, <2>7, <2>8, TypeFrame
  <1>11. ASSUME NEW c \in Client, PutVerified(c)
         PROVE  TypeInv'
    <2>1. PICK n \in Node, m \in MD : PutVerifiedCases(c, n, m)
      BY <1>11, PutVerifiedFacts
    <2>2. /\ req[c].pc = "force" /\ n = req[c].target /\ UNCHANGED <<log, snap, ended>>
          /\ m.verified = snap[c] /\ m.exists = obj[c][n].md.exists
      BY <2>1 DEF PutVerifiedCases, Found
    <2>3. CASE /\ obj[c][n].current /\ PutEffect(c, n, m, obj[c][n].cached) /\ calm' = calm
               /\ req' \in [Client -> Req] /\ req'[c] = NoRequest
               /\ \A d \in Client : d # c => req'[d] = req[d]
      <3>1. m.exists /\ obj[c][n].cached \in BOOLEAN /\ calm' \in [Client -> BOOLEAN] /\ m.verified <= Len(log)
        BY <1>0, <2>2, <2>3 DEF Held, Shape, Obj, Versions
      <3>2. RequestOK(c)'
        BY <2>3, Constants DEF RequestOK
      <3> QED
        BY <2>2, <2>3, <3>1, <3>2, TypePut
    <2>4. CASE ReloadEffect(c, n)
      BY <2>2, <2>4, ReloadType
    <2> QED
      BY <2>1, <2>3, <2>4 DEF PutVerifiedCases
  <1>12. ASSUME NEW c \in Client, PutTimes(c)
         PROVE  TypeInv'
    <2>1. PICK n \in Node : PutTimesCases(c, n)
      BY <1>12, PutTimesFacts
    <2>2. /\ req[c].pc = "found" /\ req[c].op = "add" /\ n = req[c].target
          /\ UNCHANGED <<log, snap, ended>> /\ Found(c) = obj[c][n].md /\ n <= n
      <3>1. n <= n
        BY Nodes
      <3> QED
        BY <2>1, <3>1 DEF PutTimesCases, Found
    <2>3. CASE /\ obj[c][n].current /\ PutEffect(c, n, Found(c), obj[c][n].cached)
               /\ GotoEffect(c, "create", n) /\ calm' = calm
      <3> DEFINE m == Found(c)
      <3>1. /\ m.exists /\ obj[c][n].cached \in BOOLEAN /\ calm' \in [Client -> BOOLEAN]
            /\ m.verified <= Len(log) /\ m \in MD
        BY <1>0, <2>2, <2>3 DEF Held, Shape, Obj, Versions
      <3> HIDE DEF m
      <3>2. PutEffect(c, n, m, obj[c][n].cached)
        BY <2>3 DEF m
      <3>3. \A k \in Node : md[k].exists => md'[k].exists
        BY <3>1, <3>2 DEF PutEffect
      <3>4. RequestOK(c)'
        BY <2>2, <2>3, <3>3, GotoType DEF Places
      <3>5. req' \in [Client -> Req] /\ \A d \in Client : d # c => req'[d] = req[d]
        BY <2>3 DEF GotoEffect
      <3> QED
        BY <2>2, <3>1, <3>2, <3>4, <3>5, TypePut
    <2>4. CASE ReloadEffect(c, n)
      BY <2>2, <2>4, ReloadType
    <2> QED
      BY <2>1, <2>3, <2>4 DEF PutTimesCases
  <1>13. ASSUME NEW c \in Client, CreateFile(c)
         PROVE  TypeInv'
    <2>1. PICK n \in Node, f \in MD, objects \in [Node -> Obj] : CreateCases(c, n, f, objects)
      BY <1>13, CreateFacts
    <2>2. /\ DoneEffect(c, objects) /\ UNCHANGED <<log, snap, ended>>
          /\ f.exists = TRUE /\ f.verified = obj[c][n].md.verified
      BY <2>1 DEF CreateCases, Found
    <2>3. CASE objects = obj[c] /\ md' = md
      BY <1>d, <2>2, <2>3
    <2>4. CASE /\ md' \in [Node -> MD] /\ md'[Depth] = f
               /\ \A k \in Node : k # Depth => md'[k] = md[k] /\ objects[k] = obj[c][k]
               /\ objects[Depth].md = f /\ objects[Depth].current = TRUE
      <3>1. f.verified <= Len(log)
        BY <1>0, <2>2 DEF Versions
      <3>2. \A k \in Node : /\ md[k].exists => md'[k].exists
                            /\ md'[k].verified <= Len(log) /\ objects[k].md.verified <= Len(log)
        BY <1>0, <2>2, <2>4, <3>1 DEF Versions
      <3>3. \A k \in Node : objects[k].current => objects[k].md.exists /\ md'[k].exists
        BY <1>0, <2>2, <2>4 DEF Held
      <3> QED
        BY <2>2, <2>4, <3>2, <3>3, TypeDone
    <2> QED
      BY <2>1, <2>3, <2>4 DEF CreateCases
  <1>14. ASSUME NEW c \in Client, Update(c)
         PROVE  TypeInv'
    <2>1. UNCHANGED <<md, log, obj, req, ended, calm>> /\ snap' = [snap EXCEPT ![c] = Len(log)]
      BY <1>14 DEF Update
    <2>2. Shape'
      BY <1>0, <1>c, <2>1 DEF Shape
    <2>3. Versions'
      <3>1. \A d \in Client : snap'[d] <= Len(log)
        BY <1>0, <1>c, <2>1 DEF Versions, Shape
      <3> QED
        BY <1>0, <2>1, <3>1 DEF Versions
    <2>4. Held'
      BY <1>0, <2>1 DEF Held
    <2>5. Requests'
      BY <1>0, <2>1 DEF Requests, RequestOK
    <2> QED
      BY <2>2, <2>3, <2>4, <2>5 DEF TypeInv
  <1>15. CASE UNCHANGED vars
    BY <1>0, <1>15 DEF vars, TypeInv, Shape, Requests, RequestOK, Versions, Held
  <1> QED
    BY <1>1, <1>2, <1>3, <1>4, <1>5, <1>6, <1>7, <1>8, <1>9, <1>10, <1>11, <1>12, <1>13, <1>14, <1>15
    DEF Next

\* The entries of metadata that exists are entries of users and groups of the
\* directories' permissions, at most two of them for the children, and nothing is
\* verified against a change that is not in the log: the assertion in
\* computePathPermissionChildren holds for any permissions, clients, crashes and
\* length of the path.
THEOREM Typing == Spec => []TypeOK
  <1>1. TypeInv => TypeOK
    <2> SUFFICES ASSUME TypeInv
                 PROVE  TypeOK
      OBVIOUS
    <2>0. Shape /\ Versions /\ Held /\ Len(log) \in Nat
      BY DEF TypeInv, Shape
    <2>1. ASSUME NEW n \in Node
          PROVE  /\ md[n].pp \subseteq Entry /\ md[n].ppc \subseteq Entry
                 /\ Cardinality(md[n].ppc) <= 2
                 /\ md[n].verified \in 0 .. Len(log)
      BY <2>0 DEF Shape, MD, FewEntries, Versions
    <2>2. snap \in [Client -> 0 .. Len(log)]
      BY <2>0 DEF Shape, Versions
    <2>3. ASSUME NEW c \in Client, NEW n \in Node, obj[c][n].current
          PROVE  obj[c][n].md.exists = md[n].exists
      <3>1. obj[c][n].md.exists \in BOOLEAN /\ md[n].exists \in BOOLEAN
        BY <2>0 DEF Shape, Obj, MD
      <3> QED
        BY <2>0, <2>3, <3>1 DEF Held
    <2>4. log \in Seq(Dir) /\ ended \subseteq {"removal", "recursion"}
      BY <2>0 DEF Shape
    <2>5. \A c \in Client : req[c].pc \in {"idle", "lookup", "inherit", "found", "children", "log", "force", "create"}
      BY <2>0 DEF Shape, Req
    <2> QED
      BY <2>1, <2>2, <2>3, <2>4, <2>5 DEF TypeOK
  <1> QED
    BY <1>1, TypeInit, TypeStep, PTL DEF Spec

-----------------------------------------------------------------------------
(* The entries that no change in the log is newer than.  The operators that *)
(* follow have the stored metadata s, the log lg and so on as parameters, so *)
(* that the lemmas about them say what becomes of them in a step.           *)

\* The situations that are left out in the theorems below, and the permissions
\* RestrictionsExact is about.
Careful ==
    /\ {"root", "old snapshot", "entry during chmod", "crash in chmod", "crash before verify"} \subseteq Avoid
    /\ \A p \in Perm : p.x # {}

\* Users that the directories 0 .. n - 1 let pass are those that the entries let
\* pass.
Passes(s, n, u) == \A d \in 0 .. n - 1 : Enters(s[d].perm, u)
Exact(s, entries, n) == \A u \in User : check_path_permissions(entries, u) <=> Passes(s, n, u)

\* Metadata m of node n: if no change in the log is newer, its entries are those
\* of the path, and in a directory so are the entries for the children, as long
\* as no directory of the set P, changed but not yet in the log, is above.
Good(s, lg, P, m, n) ==
    m.exists /\ Covers(lg, m.verified, Len(lg), n) =>
        /\ (\A d \in P : d >= n) => Exact(s, m.pp, n)
        /\ n \in Dir /\ (\A d \in P : d > n) => Exact(s, m.pp \cup m.ppc, n + 1)

\* The same for metadata on a drive or in memory.  It is not newer than newest;
\* what is stored is not staler than what a client has in memory.
Known(s, lg, P, newest, m, n) ==
    /\ Good(s, lg, P, m, n)
    /\ m.verified <= newest
    /\ m.exists /\ Covers(lg, m.verified, Len(lg), n) => Covers(lg, s[n].verified, Len(lg), n)
    /\ m.exists => s[n].exists

\* The newest change of directory n itself is covered by version x, unless a
\* directory above has been changed since.
OwnCovered(lg, x, n) ==
    \A i \in 1 .. Len(lg) :
        lg[i] = n /\ (\A j \in i + 1 .. Len(lg) : lg[j] \notin 1 .. n - 1) => i <= x

\* No directory 1 .. k has changed since some version that is not newer than v.
QuietSince(lg, v, k) == \E i \in 1 .. v : \A j \in i .. Len(lg) : lg[j] \notin 1 .. k

ChangesPerm(c) == req[c].op \in {"chmod", "chown"}
InChange(c) == req[c].pc \in {"children", "log", "force"}
Computed(m) == m.ppc = Range(Restrictions(m.perm)) \ m.pp
PendingAt(c) == req[c].pc = "log" \/ (req[c].pc = "children" /\ ~Computed(Found(c)))
Pending == {req[c].target : c \in {d \in Client : PendingAt(d)}}
Forcing == \E c \in Client : req[c].pc = "force"
ForcedAt(n) == \E c \in Client : req[c].pc = "force" /\ req[c].target = n
Newest == IF Forcing THEN Len(log) - 1 ELSE Len(log)

LogOK == \A i \in 1 .. Len(log) : log[i] # 0
Alone == \A c, d \in Client : ChangesPerm(c) /\ ChangesPerm(d) => c = d
Stored == \A n \in Node : Known(md, log, Pending, Newest, md[n], n)
Own == \A n \in Dir : ~ForcedAt(n) => OwnCovered(log, md[n].verified, n)

SlotOK(c, n) ==
    /\ Known(md, log, Pending, Newest, obj[c][n].md, n)
    /\ obj[c][n].cached => obj[c][n].md.exists
    /\ obj[c][n].current =>
        /\ obj[c][n].md.perm = md[n].perm /\ obj[c][n].md.pp = md[n].pp
        /\ obj[c][n].md.verified = md[n].verified
        /\ obj[c][n].md.ppc = md[n].ppc \/ (req[c].pc \in {"log", "force"} /\ req[c].target = n)

\* A lookup: the nodes below have been found stale; a parent is not, if the
\* client could know of all changes above.
LookupOK(c) ==
    LET at == req[c].at IN
    /\ req[c].pc \in {"lookup", "inherit"} =>
        \A k \in Node : k <= req[c].target /\ (k > at \/ (k = at /\ req[c].pc = "inherit"))
                        => ~Covers(log, obj[c][k].md.verified, snap[c], k)
    /\ req[c].pc = "inherit" =>
        /\ obj[c][at - 1].md.exists
        /\ calm[c] \/ ChangesPerm(c) \/ QuietSince(log, snap[c], at - 1)
            => Covers(log, obj[c][at - 1].md.verified, Len(log), at - 1)
    /\ req[c].pc \in {"found", "children", "log", "force", "create"} => Found(c).exists
    /\ req[c].pc = "found" /\ (calm[c] \/ ChangesPerm(c))
        => Covers(log, Found(c).verified, Len(log), req[c].target)

\* A change of a directory, and a lookup during which there is none.
ChangeOK(c) ==
    LET n == req[c].target IN
    /\ ChangesPerm(c) => n \in Dir \ {0} /\ snap[c] = Len(log)
    /\ calm[c] => snap[c] = Len(log) /\ req[c].pc # "idle" /\ \A d \in Client : ~InChange(d)
    /\ InChange(c) => Exact(md, Found(c).pp, n) /\ Found(c).perm = md[n].perm
    /\ req[c].pc = "children" => RemovalInRange(Found(c).perm, Found(c).pp)
    /\ req[c].pc \in {"log", "force"} => Computed(Found(c))
    /\ req[c].pc \in {"children", "log"} => obj[c][n].current /\ Covers(log, md[n].verified, Len(log), n)
    /\ req[c].pc = "force" =>
        /\ Len(log) > 0 /\ log[Len(log)] = n
        /\ Covers(log, md[n].verified, Len(log), n - 1)
        /\ obj[c][n].current \/ (Computed(md[n]) /\ Exact(md, md[n].pp, n))

ClientOK(c) == (\A n \in Node : SlotOK(c, n)) /\ LookupOK(c) /\ ChangeOK(c)

PathInv == TypeInv /\ LogOK /\ Alone /\ Stored /\ Own /\ \A c \in Client : ClientOK(c)

LEMMA CoversLess ==
  ASSUME NEW lg, NEW x, NEW v \in Nat, NEW w \in Nat, NEW n \in Nat, NEW k \in Nat,
         Covers(lg, x, v, n), w <= v, k <= n
  PROVE  Covers(lg, x, w, k)
  <1>1. \A i \in 1 .. w : i \in 1 .. v
    OBVIOUS
  <1>2. 1 .. k \subseteq 1 .. n
    OBVIOUS
  <1> QED
    BY <1>1, <1>2 DEF Covers

LEMMA QuietCovers ==
  ASSUME NEW lg \in Seq(Dir), NEW x \in Nat, NEW v \in Nat, NEW k,
         Covers(lg, x, v, k), QuietSince(lg, v, k)
  PROVE  Covers(lg, x, Len(lg), k)
  <1>1. PICK i \in 1 .. v : \A j \in i .. Len(lg) : lg[j] \notin 1 .. k
    BY DEF QuietSince
  <1>2. ASSUME NEW j \in 1 .. Len(lg), lg[j] \in 1 .. k
        PROVE  j <= x
    <2>1. ~(j >= i)
      BY <1>1, <1>2
    <2>2. j \in 1 .. v
      BY <2>1
    <2> QED
      BY <1>2, <2>2 DEF Covers
  <1> QED
    BY <1>2 DEF Covers

\* A directory that is stale for some snapshot, although its newest change is
\* covered: a directory above has been changed after each of its changes.
LEMMA OwnStale ==
  ASSUME NEW lg \in Seq(Dir), NEW x \in Nat, NEW v \in Nat, NEW n \in Dir, v <= Len(lg),
         OwnCovered(lg, x, n), ~Covers(lg, x, v, n),
         NEW i \in 1 .. Len(lg), lg[i] = n
  PROVE  \E j \in i + 1 .. Len(lg) : lg[j] \in 1 .. n - 1
  <1> SUFFICES ASSUME \A j \in i + 1 .. Len(lg) : lg[j] \notin 1 .. n - 1
               PROVE  FALSE
    OBVIOUS
  <1>0. Len(lg) \in Nat /\ n \in Nat
    BY DEF Dir
  <1>1. i <= x
    BY DEF OwnCovered
  <1>2. PICK j \in 1 .. v : lg[j] \in 1 .. n /\ ~(j <= x)
    BY DEF Covers
  <1>3. j \in i + 1 .. Len(lg)
    BY <1>0, <1>1, <1>2
  <1>4. lg[j] = n
    BY <1>0, <1>2, <1>3
  <1>5. \A k \in j + 1 .. Len(lg) : k \in i + 1 .. Len(lg)
    BY <1>0, <1>3
  <1>6. j <= x
    BY <1>0, <1>3, <1>4, <1>5 DEF OwnCovered
  <1> QED
    BY <1>2, <1>6

\* So if the entries of its parent are not stale, they cover its changes too.
LEMMA ParentCovers ==
  ASSUME NEW lg \in Seq(Dir), NEW x \in Nat, NEW y \in Nat, NEW v \in Nat, NEW n \in Node, v <= Len(lg),
         n # 0, n \in Dir => OwnCovered(lg, x, n), ~Covers(lg, x, v, n),
         Covers(lg, y, Len(lg), n - 1)
  PROVE  Covers(lg, y, Len(lg), n)
  <1>0. n \in Nat /\ Len(lg) \in Nat
    BY DEF Node
  <1> SUFFICES ASSUME NEW i \in 1 .. Len(lg), lg[i] \in 1 .. n
               PROVE  i <= y
    BY DEF Covers
  <1>1. CASE lg[i] \in 1 .. n - 1
    BY <1>1 DEF Covers
  <1>2. CASE lg[i] = n
    <2>1. n \in Dir
      BY <1>2
    <2>2. PICK j \in i + 1 .. Len(lg) : lg[j] \in 1 .. n - 1
      BY <1>2, <2>1, OwnStale
    <2>3. j \in 1 .. Len(lg)
      BY <1>0, <2>2
    <2>4. j <= y
      BY <2>2, <2>3 DEF Covers
    <2> QED
      BY <1>0, <2>2, <2>4
  <1> QED
    BY <1>0, <1>1, <1>2

\* Entries are exact for the same paths as long as no directory changes.
LEMMA ExactSame ==
  ASSUME NEW s, NEW t, NEW e, NEW n \in Nat, \A d \in 0 .. n - 1 : t[d].perm = s[d].perm
  PROVE  Exact(s, e, n) <=> Exact(t, e, n)
  <1>1. \A u : Passes(s, n, u) <=> Passes(t, n, u)
    BY DEF Passes
  <1> QED
    BY <1>1 DEF Exact

LEMMA EntersExact ==
  ASSUME Careful, NEW p \in Perms, NEW u
  PROVE  check_path_permissions(Range(Restrictions(p)), u) <=> Enters(p, u)
  <1>1. p.x \cap {"user", "group", "other"} # {}
    <2>1. PICK q \in Perm \cup {Open} : p.x = q.x
      BY DEF Perms
    <2>2. q.x # {} /\ q.x \subseteq {"user", "group", "other"}
      <3>1. CASE q = Open
        BY <3>1 DEF Open
      <3>2. CASE q \in Perm
        <4>1. q \in [uid : Nat, gid : Nat, x : SUBSET {"user", "group", "other"}]
          BY <3>2, PermAssumption
        <4> QED
          BY <3>2, <4>1 DEF Careful
      <3> QED
        BY <3>1, <3>2
    <2> QED
      BY <2>1, <2>2
  <1> QED
    BY <1>1, RestrictionsExact

LEMMA CheckRest ==
  ASSUME NEW A, NEW B, NEW u
  PROVE  check_path_permissions(A \cup (B \ A), u)
           <=> check_path_permissions(A, u) /\ check_path_permissions(B, u)
  <1>1. A \cup (B \ A) = A \cup B
    OBVIOUS
  <1> QED
    BY <1>1, CheckUnion

\* Exact entries of a directory with those of its own x bits are exact below it.
LEMMA ExactBelow ==
  ASSUME Careful, NEW s, NEW m, NEW n \in Nat, m.perm \in Perms, s[n].perm = m.perm, Computed(m)
  PROVE  /\ Exact(s, m.pp, n) => Exact(s, m.pp \cup m.ppc, n + 1)
         /\ \A u : check_path_permissions(m.pp \cup m.ppc, u)
                     <=> check_path_permissions(m.pp, u) /\ Enters(m.perm, u)
  <1>1. \A u : check_path_permissions(m.pp \cup m.ppc, u)
                 <=> check_path_permissions(m.pp, u) /\ Enters(m.perm, u)
    BY CheckRest, EntersExact DEF Computed
  <1>2. \A u : Passes(s, n + 1, u) <=> Passes(s, n, u) /\ Enters(m.perm, u)
    <2>1. 0 .. (n + 1) - 1 = (0 .. n - 1) \cup {n}
      OBVIOUS
    <2> QED
      BY <2>1 DEF Passes
  <1> QED
    BY <1>1, <1>2 DEF Exact

LEMMA GoodSame ==
  ASSUME NEW s, NEW t, NEW lg, NEW P, NEW Q, NEW m, NEW n \in Node,
         \A d \in Dir : t[d].perm = s[d].perm, P \subseteq Q, Good(s, lg, P, m, n)
  PROVE  Good(t, lg, Q, m, n)
  <1>1. n \in Nat /\ \A d \in 0 .. n - 1 : d \in Dir
    BY DEF Node, Dir
  <1>2. Exact(s, m.pp, n) <=> Exact(t, m.pp, n)
    BY <1>1, ExactSame
  <1>3. n \in Dir => (Exact(s, m.pp \cup m.ppc, n + 1) <=> Exact(t, m.pp \cup m.ppc, n + 1))
    <2> SUFFICES ASSUME n \in Dir
                 PROVE  Exact(s, m.pp \cup m.ppc, n + 1) <=> Exact(t, m.pp \cup m.ppc, n + 1)
      OBVIOUS
    <2>1. n + 1 \in Nat /\ \A d \in 0 .. (n + 1) - 1 : d \in Dir
      BY <1>1 DEF Dir
    <2> QED
      BY <2>1, ExactSame
  <1> QED
    BY <1>2, <1>3 DEF Good

\* Steps after which metadata that is not stale still is not, and that change no
\* permissions.
FreshKept(s, t, lg) ==
    \A n \in Node : s[n].exists =>
        /\ t[n].exists
        /\ Covers(lg, s[n].verified, Len(lg), n) => Covers(lg, t[n].verified, Len(lg), n)
SamePerms(s, t) == \A d \in Dir : t[d].perm = s[d].perm
Frame ==
    /\ log' = log /\ SamePerms(md, md') /\ FreshKept(md, md', log)
    /\ Pending \subseteq Pending' /\ Newest <= Newest'

LEMMA KnownSame ==
  ASSUME NEW s, NEW t, NEW lg, NEW P, NEW Q, NEW v \in Int, NEW w \in Int, NEW m \in MD, NEW n \in Node,
         SamePerms(s, t), FreshKept(s, t, lg), P \subseteq Q, v <= w, Known(s, lg, P, v, m, n)
  PROVE  Known(t, lg, Q, w, m, n)
  <1>1. Good(t, lg, Q, m, n)
    BY GoodSame DEF Known, SamePerms
  <1>2. m.verified <= w
    <2>1. m.verified \in Nat
      BY DEF MD
    <2> QED
      BY <2>1 DEF Known
  <1> QED
    BY <1>1, <1>2 DEF Known, FreshKept

LEMMA NewestType == TypeInv => Newest \in Int /\ Len(log) \in Nat
  BY DEF TypeInv, Shape, Newest

LEMMA KnownStep ==
  ASSUME TypeInv, TypeInv', Frame, NEW m \in MD, NEW n \in Node, Known(md, log, Pending, Newest, m, n)
  PROVE  Known(md', log', Pending', Newest', m, n)
  <1>1. Newest \in Int /\ Newest' \in Int
    BY DEF TypeInv, Shape, Newest
  <1> QED
    BY <1>1, KnownSame DEF Frame

\* What a step of client c leaves to another client d.
Beside(d) ==
    /\ req'[d] = req[d] /\ snap'[d] = snap[d] /\ (calm'[d] = calm[d] \/ calm'[d] = FALSE)
    /\ \A n \in Node : /\ obj'[d][n].md = obj[d][n].md /\ obj'[d][n].cached = obj[d][n].cached
                       /\ obj'[d][n].current => obj[d][n].current /\ md'[n] = md[n]

\* The metadata that client d is changing has only been written since if it is
\* verified next.
ChangeKept(d) ==
    LET n == req[d].target IN
    /\ req[d].pc \in {"children", "log"} /\ obj[d][n].current => obj'[d][n].current
    /\ req[d].pc = "force" =>
        /\ Covers(log, md'[n].verified, Len(log), n - 1)
        /\ obj'[d][n].current \/ (Computed(md'[n]) /\ Exact(md', md'[n].pp, n))

LEMMA FrameOf ==
  ASSUME TypeInv, TypeInv', NEW c \in Client, log' = log, SamePerms(md, md'), FreshKept(md, md', log),
         \A d \in Client : d # c => Beside(d),
         PendingAt(c) => PendingAt(c)' /\ req'[c].target = req[c].target,
         req'[c].pc = "force" => req[c].pc = "force"
  PROVE  Frame
  <1>1. ASSUME NEW d \in Client, PendingAt(d)
        PROVE  PendingAt(d)' /\ req'[d].target = req[d].target
    <2>1. CASE d # c
      <3>1. req'[d] = req[d] /\ \A n \in Node : obj'[d][n].md = obj[d][n].md
        BY <2>1 DEF Beside
      <3>2. req[d].target \in Node
        BY DEF TypeInv, Shape, Req
      <3>3. obj'[d][req[d].target].md = obj[d][req[d].target].md
        BY <3>1, <3>2
      <3> QED
        BY <1>1, <3>1, <3>3 DEF PendingAt, Found
    <2> QED
      BY <1>1, <2>1
  <1>2. Pending \subseteq Pending'
    <2> SUFFICES ASSUME NEW d \in Client, PendingAt(d)
                 PROVE  req[d].target \in Pending'
      BY DEF Pending
    <2>1. PendingAt(d)' /\ req'[d].target = req[d].target
      BY <1>1
    <2> QED
      BY <2>1 DEF Pending
  <1>3. Newest <= Newest'
    <2>1. Len(log) \in Nat /\ log' = log
      BY DEF TypeInv, Shape
    <2>2. Forcing' => Forcing
      <3>1. ASSUME NEW d \in Client, req'[d].pc = "force"
            PROVE  req[d].pc = "force"
        BY <3>1 DEF Beside
      <3> QED
        BY <3>1 DEF Forcing
    <2> QED
      BY <2>1, <2>2 DEF Newest
  <1> QED
    BY <1>2, <1>3 DEF Frame

LEMMA OthersOK ==
  ASSUME TypeInv, TypeInv', Frame, NEW d \in Client, ClientOK(d), Beside(d), ChangeKept(d),
         \A e \in Client : InChange(e)' => InChange(e)
  PROVE  ClientOK(d)'
  <1>0. Shape /\ log' = log /\ SamePerms(md, md') /\ req[d].target \in Node /\ req[d].at \in Node
    BY DEF TypeInv, Frame, Shape, Req
  <1>1. /\ req'[d] = req[d] /\ snap'[d] = snap[d] /\ (calm'[d] => calm[d])
        /\ \A n \in Node : obj'[d][n].md = obj[d][n].md /\ obj'[d][n].cached = obj[d][n].cached
    BY DEF Beside
  <1>2. ASSUME NEW n \in Node
        PROVE  SlotOK(d, n)'
    <2>1. SlotOK(d, n) /\ obj[d][n].md \in MD
      BY <1>0 DEF ClientOK, Shape, Obj
    <2> DEFINE m == obj[d][n].md
    <2>2. Known(md', log', Pending', Newest', m, n)
      BY <2>1, KnownStep DEF SlotOK
    <2>3. Known(md', log', Pending', Newest', obj'[d][n].md, n)
      BY <1>1, <2>2
    <2>4. obj'[d][n].cached => obj'[d][n].md.exists
      BY <1>1, <2>1 DEF SlotOK
    <2>5. ASSUME obj'[d][n].current
          PROVE  /\ obj'[d][n].md.perm = md'[n].perm /\ obj'[d][n].md.pp = md'[n].pp
                 /\ obj'[d][n].md.verified = md'[n].verified
                 /\ obj'[d][n].md.ppc = md'[n].ppc \/ (req'[d].pc \in {"log", "force"} /\ req'[d].target = n)
      <3>1. obj[d][n].current /\ md'[n] = md[n]
        BY <2>5 DEF Beside
      <3> QED
        BY <1>1, <2>1, <3>1 DEF SlotOK
    <2> QED
      BY <2>3, <2>4, <2>5 DEF SlotOK
  <1>3. LookupOK(d)'
    <2>1. LookupOK(d)
      BY DEF ClientOK
    <2>2. Found(d)' = Found(d)
      BY <1>0, <1>1 DEF Found
    <2>3. req[d].pc = "inherit" => req[d].at - 1 \in Node
      <3>1. req[d].pc = "inherit" => req[d].at >= 1
        BY DEF TypeInv, Requests, RequestOK
      <3> QED
        BY <1>0, <3>1 DEF Node
    <2>4. ChangesPerm(d)' = ChangesPerm(d)
      BY <1>1 DEF ChangesPerm
    <2> QED
      BY <1>0, <1>1, <2>1, <2>2, <2>3, <2>4 DEF LookupOK
  <1>4. ChangeOK(d)'
    <2> DEFINE n == req[d].target
    <2>1. ChangeOK(d) /\ SlotOK(d, n)
      BY <1>0 DEF ClientOK
    <2>2. Found(d)' = Found(d) /\ Found(d) = obj[d][n].md
      BY <1>0, <1>1 DEF Found
    <2>3. /\ ChangesPerm(d)' => n \in Dir \ {0} /\ snap'[d] = Len(log')
          /\ calm'[d] => snap'[d] = Len(log') /\ req'[d].pc # "idle" /\ \A e \in Client : ~InChange(e)'
      BY <1>0, <1>1, <2>1 DEF ChangeOK, ChangesPerm
    <2>4. req[d].pc \in {"children", "log", "force"} => n \in Dir /\ n \in Nat
      BY <1>0, Nodes DEF TypeInv, Requests, RequestOK
    <2>5. req[d].pc \in {"children", "log", "force"} => Exact(md', Found(d).pp, n) /\ Found(d).perm = md'[n].perm
      <3> SUFFICES ASSUME req[d].pc \in {"children", "log", "force"}
                   PROVE  Exact(md', Found(d).pp, n) /\ Found(d).perm = md'[n].perm
        OBVIOUS
      <3>1. Exact(md, Found(d).pp, n) /\ Found(d).perm = md[n].perm
        BY <2>1 DEF ChangeOK, InChange
      <3>2. \A k \in 0 .. n - 1 : k \in Dir
        BY <2>4 DEF Dir
      <3>3. \A k \in 0 .. n - 1 : md'[k].perm = md[k].perm
        BY <1>0, <3>2 DEF SamePerms
      <3>4. Exact(md', Found(d).pp, n)
        BY <2>4, <3>1, <3>3, ExactSame
      <3> QED
        BY <1>0, <2>4, <3>1, <3>4 DEF SamePerms
    <2>6. req[d].pc \in {"children", "log"} =>
            obj'[d][n].current /\ Covers(log', md'[n].verified, Len(log'), n)
      <3> SUFFICES ASSUME req[d].pc \in {"children", "log"}
                   PROVE  obj'[d][n].current /\ Covers(log', md'[n].verified, Len(log'), n)
        OBVIOUS
      <3>1. obj[d][n].current /\ Covers(log, md[n].verified, Len(log), n)
        BY <2>1 DEF ChangeOK
      <3>2. obj'[d][n].current
        BY <3>1 DEF ChangeKept
      <3>3. md'[n] = md[n]
        BY <1>0, <3>2 DEF Beside
      <3> QED
        BY <1>0, <3>1, <3>2, <3>3
    <2>7. req[d].pc = "force" =>
            /\ Len(log') > 0 /\ log'[Len(log')] = n
            /\ Covers(log', md'[n].verified, Len(log'), n - 1)
            /\ obj'[d][n].current \/ (Computed(md'[n]) /\ Exact(md', md'[n].pp, n))
      BY <1>0, <2>1 DEF ChangeOK, ChangeKept
    <2> HIDE DEF n
    <2>8. n = req'[d].target /\ req'[d].pc = req[d].pc
      BY <1>1 DEF n
    <2>9. /\ req'[d].pc = "children" => RemovalInRange(Found(d)'.perm, Found(d)'.pp)
          /\ req'[d].pc \in {"log", "force"} => Computed(Found(d)')
      BY <1>1, <2>1, <2>2 DEF ChangeOK
    <2> QED
      BY <2>2, <2>3, <2>5, <2>6, <2>7, <2>8, <2>9 DEF ChangeOK, InChange, Computed
  <1> QED
    BY <1>2, <1>3, <1>4 DEF ClientOK

LEMMA StepOK ==
  ASSUME PathInv, TypeInv', Frame, NEW c \in Client,
         \A d \in Client : d # c => Beside(d) /\ ChangeKept(d),
         InChange(c)' => InChange(c), Alone', Own', ClientOK(c)',
         \A n \in Node : Known(md', log', Pending', Newest', md'[n], n)
  PROVE  PathInv'
  <1>1. \A e \in Client : InChange(e)' => InChange(e)
    BY DEF Beside, InChange
  <1>2. ASSUME NEW d \in Client, d # c
        PROVE  ClientOK(d)'
    BY <1>1, <1>2, OthersOK DEF PathInv
  <1>3. LogOK'
    BY DEF PathInv, LogOK, Frame
  <1>4. Stored'
    BY DEF Stored
  <1>5. \A d \in Client : ClientOK(d)'
    BY <1>2
  <1> QED
    BY <1>3, <1>4, <1>5 DEF PathInv

LEMMA SameFrame == md' = md => SamePerms(md, md') /\ FreshKept(md, md', log)
  BY DEF SamePerms, FreshKept

\* Steps that write no metadata, or what is stored already.
LEMMA QuietStep ==
  ASSUME PathInv, TypeInv', Frame, NEW c \in Client, md' = md,
         \A d \in Client : d # c => Beside(d),
         \A d \in Client : d # c /\ InChange(d) /\ obj[d][req[d].target].current => obj'[d][req[d].target].current,
         InChange(c)' => InChange(c),
         req[c].pc = "force" => req'[c].pc = "force" /\ req'[c].target = req[c].target,
         Alone', ClientOK(c)'
  PROVE  PathInv'
  <1>0. TypeInv /\ Stored /\ Own /\ \A d \in Client : ClientOK(d)
    BY DEF PathInv
  <1>1. ASSUME NEW d \in Client, d # c
        PROVE  ChangeKept(d)
    BY <1>0, <1>1 DEF ClientOK, ChangeOK, ChangeKept, InChange
  <1>2. ASSUME NEW n \in Node
        PROVE  Known(md', log', Pending', Newest', md'[n], n)
    <2>1. md[n] \in MD /\ Known(md, log, Pending, Newest, md[n], n)
      BY <1>0 DEF TypeInv, Shape, Stored
    <2>2. Known(md', log', Pending', Newest', md[n], n)
      BY <1>0, <2>1, KnownStep
    <2> QED
      BY <2>2
  <1>3. Own'
    <2> SUFFICES ASSUME NEW n \in Dir, ~ForcedAt(n)'
                 PROVE  OwnCovered(log', md'[n].verified, n)
      BY DEF Own
    <2>1. ~ForcedAt(n)
      <3> SUFFICES ASSUME NEW d \in Client, req[d].pc = "force", req[d].target = n
                   PROVE  ForcedAt(n)'
        BY DEF ForcedAt
      <3>1. req'[d].pc = "force" /\ req'[d].target = n
        BY DEF Beside
      <3> QED
        BY <3>1 DEF ForcedAt
    <2> QED
      BY <1>0, <2>1 DEF Own, Frame
  <1> QED
    BY <1>1, <1>2, <1>3, StepOK

LEMMA SlotNone ==
  ASSUME PathInv, TypeInv', Frame, NEW c \in Client, NEW n \in Node, obj'[c][n] = NoObject
  PROVE  SlotOK(c, n)'
  <1>1. obj'[c][n].md = Missing /\ obj'[c][n].cached = FALSE /\ obj'[c][n].current = FALSE
    BY Constants
  <1>2. Missing.exists = FALSE /\ Missing.verified = 0
    BY Constants
  <1>3. 0 <= Newest'
    <2>1. md[n].verified \in Nat /\ md[n].verified <= Newest
      BY DEF PathInv, Stored, Known, TypeInv, Shape, MD
    <2>2. Newest \in Int /\ Newest' \in Int
      BY DEF PathInv, TypeInv, Shape, Newest
    <2> QED
      BY <2>1, <2>2 DEF Frame
  <1>4. Known(md', log', Pending', Newest', Missing, n)
    BY <1>2, <1>3 DEF Known, Good
  <1> QED
    BY <1>1, <1>4 DEF SlotOK

LEMMA SlotKept ==
  ASSUME PathInv, TypeInv', Frame, NEW c \in Client, NEW n \in Node, obj'[c][n] = obj[c][n],
         obj[c][n].current => md'[n] = md[n],
         req[c].pc \in {"log", "force"} /\ req[c].target = n => req'[c].pc \in {"log", "force"} /\ req'[c].target = n
  PROVE  SlotOK(c, n)'
  <1>1. SlotOK(c, n) /\ TypeInv /\ obj[c][n].md \in MD
    BY DEF PathInv, ClientOK, TypeInv, Shape, Obj
  <1> DEFINE m == obj[c][n].md
  <1>2. Known(md', log', Pending', Newest', m, n)
    BY <1>1, KnownStep DEF SlotOK
  <1> QED
    BY <1>1, <1>2 DEF SlotOK

LEMMA SlotLoaded ==
  ASSUME PathInv, TypeInv', Frame, NEW c \in Client, NEW n \in Node, md'[n] = md[n],
         obj'[c][n].md = md[n], md[n].exists
  PROVE  SlotOK(c, n)'
  <1>1. Known(md, log, Pending, Newest, md[n], n) /\ TypeInv /\ md[n] \in MD
    BY DEF PathInv, Stored, TypeInv, Shape
  <1>2. Known(md', log', Pending', Newest', md[n], n)
    BY <1>1, KnownStep
  <1> QED
    BY <1>2 DEF SlotOK

LEMMA AloneKept ==
  ASSUME Alone, NEW c \in Client, \A d \in Client : d # c => req'[d] = req[d], ChangesPerm(c)' => ChangesPerm(c)
  PROVE  Alone'
  <1>1. \A d \in Client : ChangesPerm(d)' => ChangesPerm(d)
    BY DEF ChangesPerm
  <1> QED
    BY <1>1 DEF Alone

LEMMA OverOK ==
  ASSUME PathInv, TypeInv', Frame, NEW c \in Client, req'[c] = NoRequest, calm'[c] = FALSE,
         \A n \in Node : \/ obj'[c][n] = NoObject
                         \/ /\ obj'[c][n] = obj[c][n] /\ (obj[c][n].current => md'[n] = md[n])
                            /\ ~(req[c].pc \in {"log", "force"} /\ req[c].target = n)
  PROVE  ClientOK(c)'
  <1>1. req'[c].op = "none" /\ req'[c].pc = "idle"
    BY Constants
  <1>2. \A n \in Node : SlotOK(c, n)'
    BY SlotNone, SlotKept
  <1>3. LookupOK(c)'
    BY <1>1 DEF LookupOK
  <1>4. ChangeOK(c)'
    BY <1>1 DEF ChangeOK, ChangesPerm, InChange
  <1> QED
    BY <1>2, <1>3, <1>4 DEF ClientOK

LEMMA PathOver ==
  ASSUME PathInv, TypeInv', NEW c \in Client, md' = md, log' = log, req'[c] = NoRequest, calm'[c] = FALSE,
         \A n \in Node : obj'[c][n] = NoObject \/ obj'[c][n] = obj[c][n],
         \A d \in Client : d # c => /\ req'[d] = req[d] /\ obj'[d] = obj[d] /\ calm'[d] = calm[d]
                                    /\ snap'[d] = snap[d],
         ~PendingAt(c), req[c].pc \notin {"log", "force"}
  PROVE  PathInv'
  <1>0. TypeInv /\ Alone
    BY DEF PathInv
  <1>1. req'[c].op = "none" /\ req'[c].pc = "idle"
    BY Constants
  <1>2. \A d \in Client : d # c => Beside(d)
    BY DEF Beside
  <1>3. Frame
    BY <1>0, <1>1, <1>2, SameFrame, FrameOf
  <1>4. ClientOK(c)'
    BY <1>3, OverOK
  <1>5. Alone'
    BY <1>0, <1>1, AloneKept DEF ChangesPerm
  <1>6. ~InChange(c)'
    BY <1>1 DEF InChange
  <1> QED
    BY <1>2, <1>3, <1>4, <1>5, <1>6, QuietStep

LEMMA PathRemount ==
  ASSUME PathInv, TypeInv', NEW c \in Client, RemountEffect(c), md' = md, log' = log, ~InChange(c)
  PROVE  PathInv'
  <1>1. ~PendingAt(c) /\ req[c].pc \notin {"log", "force"}
    BY DEF InChange, PendingAt
  <1> QED
    BY <1>1, PathOver DEF RemountEffect

LEMMA PathDone ==
  ASSUME PathInv, TypeInv', NEW c \in Client, DoneEffect(c, obj[c]), UNCHANGED <<md, log, snap>>,
         ~PendingAt(c), req[c].pc \notin {"log", "force"}
  PROVE  PathInv'
  <1>1. \A n \in Node : obj'[c][n] = NoObject \/ obj'[c][n] = obj[c][n]
    BY DEF DoneEffect
  <1> QED
    BY <1>1, PathOver DEF DoneEffect

LEMMA PathStart ==
  ASSUME PathInv, TypeInv', NEW c \in Client, NEW op \in {"access", "add", "chmod", "chown"}, NEW n \in Node,
         StartEffect(c, op, n),
         op \in {"chmod", "chown"} => /\ n \in Dir \ {0} /\ snap[c] = Len(log)
                                      /\ \A d \in Client : ~ChangesPerm(d)
  PROVE  PathInv'
  <1>0. TypeInv /\ Alone
    BY DEF PathInv
  <1>1. /\ req[c].pc = "idle" /\ req'[c].op = op /\ req'[c].pc = "lookup" /\ req'[c].target = n /\ req'[c].at = n
        /\ md' = md /\ log' = log /\ snap' = snap /\ obj' = obj
        /\ \A d \in Client : d # c => req'[d] = req[d] /\ calm'[d] = calm[d]
    BY DEF StartEffect
  <1>2. \A d \in Client : d # c => Beside(d)
    BY <1>1 DEF Beside
  <1>3. ~PendingAt(c) /\ ~InChange(c) /\ ~InChange(c)'
    BY <1>1 DEF PendingAt, InChange
  <1>4. Frame
    BY <1>0, <1>1, <1>2, <1>3, SameFrame, FrameOf
  <1>5. \A k \in Node : SlotOK(c, k)'
    BY <1>1, <1>4, SlotKept
  <1>6. LookupOK(c)'
    <2>1. n \in Nat /\ \A k \in Node : ~(k <= n /\ k > n)
      BY Nodes DEF Node
    <2> QED
      BY <1>1, <2>1 DEF LookupOK
  <1>7. ChangeOK(c)'
    <2>1. calm'[c] => snap[c] = Len(log) /\ \A d \in Client : ~InChange(d)
      <3> SUFFICES ASSUME calm'[c]
                   PROVE  snap[c] = Len(log) /\ \A d \in Client : ~InChange(d)
        OBVIOUS
      <3>1. snap[c] = Len(log) /\ \A d \in Dir : ~Changing(d)
        BY DEF StartEffect
      <3>2. ASSUME NEW d \in Client, InChange(d)
            PROVE  FALSE
        <4>1. req[d].target \in Dir
          BY <1>0, <3>2 DEF TypeInv, Requests, RequestOK, InChange
        <4> QED
          BY <3>1, <3>2, <4>1 DEF Changing, InChange
      <3> QED
        BY <3>1, <3>2
    <2>2. \A d \in Client : InChange(d)' => InChange(d)
      BY <1>1, <1>3 DEF InChange
    <2> QED
      BY <1>1, <1>3, <2>1, <2>2 DEF ChangeOK, ChangesPerm, InChange
  <1>8. ClientOK(c)'
    BY <1>5, <1>6, <1>7 DEF ClientOK
  <1>9. Alone'
    <2>1. CASE op \in {"chmod", "chown"}
      <3>1. \A d \in Client : d # c => ~ChangesPerm(d)'
        BY <1>1, <2>1 DEF ChangesPerm
      <3> QED
        BY <3>1 DEF Alone
    <2>2. CASE op \notin {"chmod", "chown"}
      BY <1>0, <1>1, <2>2, AloneKept DEF ChangesPerm
    <2> QED
      BY <2>1, <2>2
  <1> QED
    BY <1>1, <1>2, <1>3, <1>4, <1>8, <1>9, QuietStep

\* Steps of a request that is not changing a directory, and that sets one object.
LEMMA PathMove ==
  ASSUME PathInv, TypeInv', NEW c \in Client, NEW n \in Node, NEW o \in Obj, SetEffect(c, n, o),
         UNCHANGED <<md, log, snap, calm>>, ~InChange(c),
         \A d \in Client : d # c => req'[d] = req[d],
         req'[c].pc \in {"lookup", "inherit", "found", "create"},
         req'[c].op = req[c].op, req'[c].target = req[c].target,
         o = NoObject \/ o = obj[c][n] \/ (o.md = md[n] /\ md[n].exists), LookupOK(c)'
  PROVE  PathInv'
  <1>0. TypeInv /\ Alone /\ ChangeOK(c)
    BY DEF PathInv, ClientOK
  <1>1. /\ obj'[c][n] = o /\ (\A k \in Node : k # n => obj'[c][k] = obj[c][k])
        /\ \A d \in Client : d # c => obj'[d] = obj[d]
    BY DEF SetEffect
  <1>2. \A d \in Client : d # c => Beside(d)
    BY <1>1 DEF Beside
  <1>3. ~PendingAt(c) /\ ~InChange(c)' /\ req[c].pc \notin {"log", "force"} /\ req'[c].pc # "force"
    BY DEF PendingAt, InChange
  <1>4. Frame
    BY <1>0, <1>2, <1>3, SameFrame, FrameOf
  <1>5. \A k \in Node : k # n => SlotOK(c, k)'
    BY <1>1, <1>3, <1>4, SlotKept
  <1>6. SlotOK(c, n)'
    <2>1. CASE o = NoObject
      BY <1>1, <1>4, <2>1, SlotNone
    <2>2. CASE o = obj[c][n]
      BY <1>1, <1>3, <1>4, <2>2, SlotKept
    <2>3. CASE o.md = md[n] /\ md[n].exists
      BY <1>1, <1>4, <2>3, SlotLoaded
    <2> QED
      BY <2>1, <2>2, <2>3
  <1>7. \A d \in Client : InChange(d)' => InChange(d)
    BY <1>3 DEF InChange
  <1>8. ChangeOK(c)'
    BY <1>0, <1>3, <1>7 DEF ChangeOK, ChangesPerm, InChange
  <1>9. ClientOK(c)'
    BY <1>5, <1>6, <1>8 DEF ClientOK
  <1>10. Alone'
    BY <1>0, AloneKept DEF ChangesPerm
  <1> QED
    BY <1>1, <1>2, <1>3, <1>4, <1>9, <1>10, QuietStep

LEMMA AtExists ==
  ASSUME TypeInv, NEW c \in Client, req[c].pc # "idle"
  PROVE  /\ req[c].at \in Node /\ req[c].target \in Node /\ req[c].at <= req[c].target
         /\ md[req[c].at].exists
  <1>1. req[c].at \in Node /\ req[c].target \in Node
    BY DEF TypeInv, Shape, Req
  <1>2. req[c].at <= req[c].target /\ md[req[c].target].exists
    BY DEF TypeInv, Requests, RequestOK
  <1>3. req[c].at \in Dir \/ req[c].at = req[c].target
    BY <1>1, <1>2 DEF Node, Dir
  <1>4. \A n \in Dir : md[n].exists
    BY DEF TypeInv, Requests
  <1> QED
    BY <1>1, <1>2, <1>3, <1>4

LEMMA PathLookup ==
  ASSUME PathInv, TypeInv', NEW c \in Client, lookup(c)
  PROVE  PathInv'
  <1>0. TypeInv /\ LogOK /\ LookupOK(c) /\ ChangeOK(c) /\ \A k \in Node : SlotOK(c, k)
    BY DEF PathInv, ClientOK
  <1>1. PICK n \in Node, o \in Obj : LookupCases(c, n, o)
    BY <1>0, LookupFacts
  <1>2. /\ req[c].pc = "lookup" /\ n = req[c].at /\ o.cached = TRUE /\ UNCHANGED <<md, log>>
        /\ ~InChange(c)
    BY <1>1 DEF LookupCases, InChange
  <1>3. n <= req[c].target /\ md[n].exists /\ req[c].target \in Node
    BY <1>0, <1>2, AtExists
  <1>4. o = obj[c][n] \/ (o.md = md[n] /\ md[n].exists)
    BY <1>1, <1>3 DEF LookupCases
  <1>5. o.md.exists
    BY <1>0, <1>2, <1>4 DEF SlotOK
  <1>6. o.md.verified >= Required(snap[c], n) <=> Covers(log, o.md.verified, snap[c], n)
    <2>1. snap[c] \in Nat /\ snap[c] <= Len(log) /\ Len(log) \in Nat
      BY <1>0 DEF TypeInv, Shape, Versions
    <2>2. o.md.verified \in Nat
      BY DEF Obj, MD
    <2>3. \A i \in 1 .. snap[c] : log[i] # 0
      BY <1>0, <2>1 DEF LogOK
    <2> QED
      BY <2>1, <2>2, <2>3, RequiredCovers
  <1>7. CASE RemountEffect(c)
    BY <1>2, <1>7, PathRemount
  <1>8. CASE /\ SetEffect(c, n, o) /\ UNCHANGED <<snap, calm>>
             /\ Covers(log, o.md.verified, snap[c], n) /\ VerifiedNext(c, n)
    <2>1. obj'[c][n] = o /\ \A k \in Node : k # n => obj'[c][k] = obj[c][k]
      BY <1>8 DEF SetEffect
    <2>2. ASSUME calm[c] \/ ChangesPerm(c) \/ QuietSince(log, snap[c], n)
          PROVE  Covers(log, o.md.verified, Len(log), n)
      <3>1. CASE calm[c] \/ ChangesPerm(c)
        <4>1. snap[c] = Len(log)
          BY <1>0, <3>1 DEF ChangeOK
        <4> QED
          BY <1>8, <4>1
      <3>2. CASE QuietSince(log, snap[c], n)
        <4>1. log \in Seq(Dir) /\ o.md.verified \in Nat /\ snap[c] \in Nat
          BY <1>0 DEF TypeInv, Shape, Obj, MD
        <4> QED
          BY <1>8, <3>2, <4>1, QuietCovers
      <3> QED
        BY <2>2, <3>1, <3>2
    <2>3. CASE n = req[c].target /\ GotoEffect(c, "found", n)
      <3>1. /\ req'[c].pc = "found" /\ req'[c].op = req[c].op /\ req'[c].target = req[c].target
            /\ \A d \in Client : d # c => req'[d] = req[d]
        BY <2>3 DEF GotoEffect
      <3>2. LookupOK(c)'
        <4>1. Found(c)' = o.md
          BY <2>1, <2>3, <3>1 DEF Found
        <4> QED
          BY <1>2, <1>5, <1>8, <2>2, <2>3, <3>1, <4>1 DEF LookupOK, ChangesPerm
      <3> QED
        BY <1>2, <1>4, <1>8, <3>1, <3>2, PathMove
    <2>4. CASE n # req[c].target /\ n \in Dir /\ GotoEffect(c, "inherit", n + 1)
      <3>1. /\ req'[c].pc = "inherit" /\ req'[c].op = req[c].op /\ req'[c].target = req[c].target
            /\ req'[c].at = n + 1 /\ \A d \in Client : d # c => req'[d] = req[d]
        BY <2>4 DEF GotoEffect
      <3>2. LookupOK(c)'
        <4>1. ASSUME NEW k \in Node, k <= req[c].target, k > n + 1 \/ k = n + 1
              PROVE  ~Covers(log, obj'[c][k].md.verified, snap[c], k)
          <5>1. k > n /\ k # n
            BY <4>1 DEF Node
          <5>2. obj'[c][k] = obj[c][k]
            BY <2>1, <5>1
          <5> QED
            BY <1>0, <1>2, <4>1, <5>1, <5>2 DEF LookupOK
        <4>2. (n + 1) - 1 = n
          BY DEF Node
        <4> QED
          BY <1>2, <1>5, <1>8, <2>1, <2>2, <3>1, <4>1, <4>2 DEF LookupOK, ChangesPerm
      <3> QED
        BY <1>2, <1>4, <1>8, <3>1, <3>2, PathMove
    <2> QED
      BY <1>8, <2>3, <2>4 DEF VerifiedNext
  <1>9. CASE /\ SetEffect(c, n, o) /\ UNCHANGED <<snap, calm>> /\ n # 0
             /\ ~Covers(log, o.md.verified, snap[c], n) /\ GotoEffect(c, "lookup", n - 1)
    <2>1. obj'[c][n] = o /\ \A k \in Node : k # n => obj'[c][k] = obj[c][k]
      BY <1>9 DEF SetEffect
    <2>2. /\ req'[c].pc = "lookup" /\ req'[c].op = req[c].op /\ req'[c].target = req[c].target
          /\ req'[c].at = n - 1 /\ \A d \in Client : d # c => req'[d] = req[d]
      BY <1>9 DEF GotoEffect
    <2>3. LookupOK(c)'
      <3>1. ASSUME NEW k \in Node, k <= req[c].target, k > n - 1
            PROVE  ~Covers(log, obj'[c][k].md.verified, snap[c], k)
        <4>1. CASE k = n
          BY <1>9, <2>1, <4>1
        <4>2. CASE k # n
          <5>1. k > n
            BY <3>1, <4>2 DEF Node
          <5> QED
            BY <1>0, <1>2, <2>1, <3>1, <4>2, <5>1 DEF LookupOK
        <4> QED
          BY <4>1, <4>2
      <3> QED
        BY <1>2, <1>9, <2>2, <3>1 DEF LookupOK
    <2> QED
      BY <1>2, <1>4, <1>9, <2>2, <2>3, PathMove
  <1> QED
    BY <1>1, <1>6, <1>7, <1>8, <1>9 DEF LookupCases

LEMMA NothingPending ==
  ASSUME TypeInv, Alone, NEW d \in Client, ChangesPerm(d), ~PendingAt(d)
  PROVE  Pending = {}
  <1>1. ASSUME NEW e \in Client, PendingAt(e)
        PROVE  FALSE
    <2>1. ChangesPerm(e)
      BY <1>1 DEF TypeInv, Requests, RequestOK, PendingAt, ChangesPerm
    <2> QED
      BY <1>1, <2>1 DEF Alone
  <1> QED
    BY <1>1 DEF Pending

\* Client c inherits the entries of its parent object; its own object is current.
LEMMA PathInherit ==
  ASSUME Careful, PathInv, TypeInv', NEW c \in Client, NEW n \in Node, NEW m \in MD, InheritCases(c, n, m),
         obj[c][n].current, PutEffect(c, n, m, obj[c][n].cached), VerifiedNext(c, n)
  PROVE  PathInv'
  <1> DEFINE parent == obj[c][n - 1].md
             old == md[n].verified
  <1>0. /\ TypeInv /\ Alone /\ Stored /\ Own /\ LookupOK(c) /\ ChangeOK(c)
        /\ \A k \in Node : SlotOK(c, k)
    BY DEF PathInv, ClientOK
  <1>1. /\ req[c].pc = "inherit" /\ n = req[c].at /\ n - 1 \in Dir /\ UNCHANGED <<log, snap, calm>>
        /\ m.perm = obj[c][n].md.perm /\ m.exists = obj[c][n].md.exists
        /\ m.pp = parent.pp \cup parent.ppc /\ m.verified = parent.verified
        /\ (n \in Dir => Computed(m))
    BY DEF InheritCases, Computed
  <1>2. /\ n - 1 \in Node /\ n \in Nat /\ n # 0 /\ n <= req[c].target /\ req[c].target \in Node
        /\ log \in Seq(Dir) /\ Len(log) \in Nat /\ snap[c] \in Nat /\ snap[c] <= Len(log)
        /\ md \in [Node -> MD] /\ old \in Nat /\ m.verified \in Nat /\ m.perm \in Perms
    <2>1. n - 1 \in Node /\ n \in Nat /\ n # 0
      <3>1. n - 1 \in Dir
        BY <1>1
      <3> QED
        BY <3>1, Nodes DEF Node, Dir
    <2>2. n <= req[c].target /\ req[c].target \in Node
      BY <1>0, <1>1, AtExists
    <2>3. log \in Seq(Dir) /\ Len(log) \in Nat /\ snap[c] \in Nat /\ snap[c] <= Len(log) /\ md \in [Node -> MD]
      BY <1>0 DEF TypeInv, Shape, Versions
    <2> QED
      BY <2>1, <2>2, <2>3 DEF MD
  <1>3. /\ md[n].perm = m.perm /\ obj[c][n].md.verified = old /\ m.exists
        /\ parent.exists /\ Known(md, log, Pending, Newest, parent, n - 1)
    <2>1. md[n].perm = m.perm /\ obj[c][n].md.verified = old
      BY <1>0, <1>1 DEF SlotOK
    <2>2. m.exists
      BY <1>0, <1>1 DEF TypeInv, Held
    <2>3. parent.exists
      BY <1>0, <1>1 DEF LookupOK
    <2>4. Known(md, log, Pending, Newest, parent, n - 1)
      BY <1>0, <1>2 DEF SlotOK
    <2> QED
      BY <2>1, <2>2, <2>3, <2>4
  <1>4. ~Covers(log, old, snap[c], n) /\ ~Covers(log, old, Len(log), n)
    <2>1. ~Covers(log, old, snap[c], n)
      BY <1>0, <1>1, <1>2, <1>3 DEF LookupOK
    <2>2. n <= n
      BY <1>2
    <2> QED
      BY <1>2, <2>1, <2>2, CoversLess
  <1> HIDE DEF parent, old
  <1>5. /\ md'[n] = m /\ (\A k \in Node : k # n => md'[k] = md[k])
        /\ obj'[c][n].md = m /\ (\A k \in Node : k # n => obj'[c][k] = obj[c][k])
        /\ (\A d \in Client : d # c => obj'[d][n].current = FALSE)
        /\ \A d \in Client, k \in Node : k # n => obj'[d][k] = obj[d][k]
    BY DEF PutEffect
  <1>6. /\ req'[c].pc \in {"found", "inherit"} /\ req'[c].op = req[c].op /\ req'[c].target = req[c].target
        /\ \A d \in Client : d # c => req'[d] = req[d]
    BY DEF VerifiedNext, GotoEffect
  <1>7. \A d \in Client : d # c => Beside(d)
    <2> SUFFICES ASSUME NEW d \in Client, d # c
                 PROVE  Beside(d)
      OBVIOUS
    <2>1. ASSUME NEW k \in Node
          PROVE  /\ obj'[d][k].md = obj[d][k].md /\ obj'[d][k].cached = obj[d][k].cached
                 /\ obj'[d][k].current => obj[d][k].current /\ md'[k] = md[k]
      BY <1>5 DEF PutEffect
    <2> QED
      BY <1>1, <1>6, <2>1 DEF Beside
  <1>8. SamePerms(md, md')
    BY <1>3, <1>5, Nodes DEF SamePerms
  <1>9. FreshKept(md, md', log)
    BY <1>3, <1>4, <1>5 DEF FreshKept, old
  <1>10. ~PendingAt(c) /\ ~InChange(c) /\ ~InChange(c)' /\ req'[c].pc # "force"
    BY <1>1, <1>6 DEF PendingAt, InChange
  <1>11. Frame
    BY <1>0, <1>1, <1>7, <1>8, <1>9, <1>10, FrameOf
  \* What the parent's entries say of this node.
  <1>12. ASSUME Covers(log, m.verified, Len(log), n - 1), \A d \in Pending : d >= n
         PROVE  Exact(md, m.pp, n)
    <2>1. Good(md, log, Pending, parent, n - 1)
      BY <1>3 DEF Known
    <2>2. \A d \in Pending : d > n - 1
      <3>1. Pending \subseteq Node
        BY <1>0 DEF Pending, TypeInv, Shape, Req
      <3> QED
        BY <1>2, <1>12, <3>1 DEF Node
    <2>3. (n - 1) + 1 = n
      BY <1>2
    <2> QED
      BY <1>1, <1>3, <1>12, <2>1, <2>2, <2>3 DEF Good
  <1>13. Known(md', log', Pending', Newest', m, n)
    <2>1. Good(md, log, Pending, m, n)
      <3> SUFFICES ASSUME Covers(log, m.verified, Len(log), n)
                   PROVE  /\ (\A d \in Pending : d >= n) => Exact(md, m.pp, n)
                          /\ n \in Dir /\ (\A d \in Pending : d > n) => Exact(md, m.pp \cup m.ppc, n + 1)
        BY DEF Good
      <3>1. Covers(log, m.verified, Len(log), n - 1)
        <4>1. n - 1 <= n /\ Len(log) <= Len(log) /\ n - 1 \in Nat
          BY <1>2
        <4> QED
          BY <1>2, <4>1, CoversLess
      <3>2. (\A d \in Pending : d >= n) => Exact(md, m.pp, n)
        BY <1>12, <3>1
      <3>3. ASSUME n \in Dir, \A d \in Pending : d > n
            PROVE  Exact(md, m.pp \cup m.ppc, n + 1)
        <4>1. \A d \in Pending : d >= n
          <5>1. Pending \subseteq Nat
            <6>1. Pending \subseteq Node
              BY <1>0 DEF Pending, TypeInv, Shape, Req
            <6> QED
              BY <6>1, Nodes
          <5>2. \A d \in Nat : d > n => d >= n
            BY <1>2
          <5> QED
            BY <3>3, <5>1, <5>2
        <4> QED
          BY <1>1, <1>2, <1>3, <3>2, <3>3, <4>1, ExactBelow
      <3> QED
        BY <3>2, <3>3
    <2>2. Good(md', log', Pending', m, n)
      <3>1. log' = log /\ Pending \subseteq Pending' /\ \A d \in Dir : md'[d].perm = md[d].perm
        BY <1>8, <1>11 DEF Frame, SamePerms
      <3>2. Good(md', log, Pending', m, n)
        BY <2>1, <3>1, GoodSame
      <3> QED
        BY <3>1, <3>2
    <2>3. m.verified <= Newest'
      <3>1. m.verified <= Newest
        BY <1>1, <1>3 DEF Known
      <3>2. Newest \in Int /\ Newest' \in Int
        BY <1>0 DEF TypeInv, Shape, Newest
      <3> QED
        BY <1>2, <1>11, <3>1, <3>2 DEF Frame
    <2> QED
      BY <1>5, <2>2, <2>3 DEF Known
  <1>14. ASSUME NEW k \in Node
         PROVE  Known(md', log', Pending', Newest', md'[k], k)
    <2>1. CASE k = n
      BY <1>5, <1>13, <2>1
    <2>2. CASE k # n
      <3>1. Known(md, log, Pending, Newest, md[k], k) /\ md[k] \in MD
        BY <1>0, <1>2 DEF Stored
      <3>2. Known(md', log', Pending', Newest', md[k], k)
        BY <1>0, <1>11, <3>1, KnownStep
      <3> QED
        BY <1>5, <2>2, <3>2
    <2> QED
      BY <2>1, <2>2
  <1>15. ASSUME NEW d \in Client, d # c
         PROVE  ChangeKept(d)
    <2> DEFINE k == req[d].target
    <2>1. ChangeOK(d) /\ k \in Node
      BY <1>0 DEF PathInv, ClientOK, TypeInv, Shape, Req
    <2>2. CASE k # n
      <3>1. obj'[d][k] = obj[d][k] /\ md'[k] = md[k]
        BY <1>5, <2>1, <2>2
      <3>2. Exact(md, md[k].pp, k) => Exact(md', md[k].pp, k)
        <4>1. k \in Nat /\ \A i \in 0 .. k - 1 : i \in Dir
          BY <2>1 DEF Node, Dir
        <4>2. \A i \in 0 .. k - 1 : md'[i].perm = md[i].perm
          BY <1>8, <4>1 DEF SamePerms
        <4> QED
          BY <4>1, <4>2, ExactSame
      <3> QED
        BY <2>1, <3>1, <3>2 DEF ChangeOK, ChangeKept
    <2>3. CASE k = n
      <3>1. ~(req[d].pc \in {"children", "log"})
        BY <1>4, <2>1, <2>3 DEF ChangeOK, old
      <3>2. ASSUME req[d].pc = "force"
            PROVE  /\ Covers(log, m.verified, Len(log), n - 1)
                   /\ Computed(m) /\ Exact(md', m.pp, n)
        <4>1. Covers(log, old, Len(log), n - 1)
          BY <2>1, <2>3, <3>2 DEF ChangeOK, old
        <4>2. QuietSince(log, snap[c], n - 1)
          <5>1. PICK i \in 1 .. snap[c] : log[i] \in 1 .. n /\ ~(i <= old)
            BY <1>4 DEF Covers
          <5>2. ASSUME NEW j \in i .. Len(log)
                PROVE  log[j] \notin 1 .. n - 1
            <6>1. j \in 1 .. Len(log) /\ ~(j <= old)
              BY <1>2, <5>1
            <6> QED
              BY <4>1, <6>1 DEF Covers
          <5> QED
            BY <5>2 DEF QuietSince
        <4>3. Covers(log, m.verified, Len(log), n - 1)
          BY <1>0, <1>1, <4>2 DEF LookupOK, parent
        <4>4. Pending = {}
          <5>1. ChangesPerm(d) /\ ~PendingAt(d)
            BY <1>0, <3>2 DEF PendingAt, ChangesPerm, TypeInv, Requests, RequestOK
          <5> QED
            BY <1>0, <5>1, NothingPending
        <4>5. Exact(md, m.pp, n)
          BY <1>12, <4>3, <4>4
        <4>6. n \in Dir
          BY <1>0, <2>3, <3>2 DEF TypeInv, Requests, RequestOK
        <4>7. \A i \in 0 .. n - 1 : md'[i].perm = md[i].perm
          <5>1. \A i \in 0 .. n - 1 : i \in Dir
            BY DEF Node, Dir
          <5> QED
            BY <1>8, <5>1 DEF SamePerms
        <4>8. Exact(md', m.pp, n)
          BY <1>2, <4>5, <4>7, ExactSame
        <4> QED
          BY <1>1, <4>3, <4>6, <4>8
      <3> QED
        BY <1>5, <2>3, <3>1, <3>2 DEF ChangeKept
    <2> QED
      BY <2>2, <2>3
  <1>16. Own'
    <2> SUFFICES ASSUME NEW k \in Dir, ~ForcedAt(k)'
                 PROVE  OwnCovered(log, md'[k].verified, k)
      BY <1>1 DEF Own
    <2>1. ~ForcedAt(k)
      BY <1>1, <1>6 DEF ForcedAt
    <2>2. OwnCovered(log, md[k].verified, k)
      BY <1>0, <2>1 DEF Own
    <2>3. CASE k # n
      BY <1>5, <2>2, <2>3, Nodes
    <2>4. CASE k = n
      <3>1. \A i \in 1 .. Len(log) : log[i] = n => \E j \in i + 1 .. Len(log) : log[j] \in 1 .. n - 1
        BY <1>2, <1>4, <2>2, <2>4, OwnStale DEF old
      <3> QED
        BY <2>4, <3>1 DEF OwnCovered
    <2> QED
      BY <2>3, <2>4
  <1>17. ASSUME NEW k \in Node
         PROVE  SlotOK(c, k)'
    <2>1. CASE k # n
      <3>1. obj'[c][k] = obj[c][k] /\ md'[k] = md[k] /\ ~(req[c].pc \in {"log", "force"})
        BY <1>1, <1>5, <2>1
      <3> QED
        BY <1>11, <3>1, SlotKept
    <2>2. CASE k = n
      BY <1>3, <1>5, <1>13, <2>2 DEF SlotOK
    <2> QED
      BY <2>1, <2>2
  <1>18. ASSUME calm[c] \/ ChangesPerm(c) \/ QuietSince(log, snap[c], n)
         PROVE  Covers(log, m.verified, Len(log), n)
    <2>1. Covers(log, m.verified, Len(log), n - 1)
      <3>1. QuietSince(log, snap[c], n) => QuietSince(log, snap[c], n - 1)
        <4>1. \A i : i \in 1 .. n - 1 => i \in 1 .. n
          BY <1>2
        <4> QED
          BY <4>1 DEF QuietSince
      <3> QED
        BY <1>0, <1>1, <1>18, <3>1 DEF LookupOK, parent
    <2>2. ~ForcedAt(n)
      <3> SUFFICES ASSUME NEW d \in Client, req[d].pc = "force", req[d].target = n
                   PROVE  FALSE
        BY DEF ForcedAt
      <3>1. InChange(d) /\ ChangesPerm(d) /\ d # c
        BY <1>0, <1>1 DEF InChange, ChangesPerm, TypeInv, Requests, RequestOK
      <3>2. ~calm[c]
        BY <1>0, <3>1 DEF ChangeOK
      <3>3. ~ChangesPerm(c)
        BY <1>0, <3>1 DEF Alone
      <3>4. Len(log) > 0 /\ log[Len(log)] = n
        BY DEF PathInv, ClientOK, ChangeOK
      <3>5. PICK i \in 1 .. snap[c] : \A j \in i .. Len(log) : log[j] \notin 1 .. n
        BY <1>18, <3>2, <3>3 DEF QuietSince
      <3>6. Len(log) \in i .. Len(log) /\ n \in 1 .. n
        BY <1>2, <3>4, <3>5
      <3> QED
        BY <3>4, <3>5, <3>6
    <2>3. n \in Dir => OwnCovered(log, old, n)
      BY <1>0, <2>2 DEF Own, old
    <2> QED
      BY <1>2, <1>4, <2>1, <2>3, ParentCovers
  <1>19. LookupOK(c)'
    <2>1. CASE n = req[c].target /\ GotoEffect(c, "found", n)
      <3>1. req'[c].pc = "found" /\ Found(c)' = m
        BY <1>5, <1>6, <2>1 DEF GotoEffect, Found
      <3> QED
        BY <1>1, <1>3, <1>6, <1>18, <2>1, <3>1 DEF LookupOK, ChangesPerm
    <2>2. CASE n # req[c].target /\ n \in Dir /\ GotoEffect(c, "inherit", n + 1)
      <3>1. req'[c].pc = "inherit" /\ req'[c].at = n + 1
        BY <2>2 DEF GotoEffect
      <3>2. ASSUME NEW k \in Node, k <= req[c].target, k > n + 1 \/ k = n + 1
            PROVE  ~Covers(log, obj'[c][k].md.verified, snap[c], k)
        <4>1. k > n /\ k # n
          BY <3>2 DEF Node
        <4>2. obj'[c][k] = obj[c][k]
          BY <1>5, <4>1
        <4> QED
          BY <1>0, <1>1, <3>2, <4>1, <4>2 DEF LookupOK
      <3>3. (n + 1) - 1 = n
        BY <1>2
      <3> QED
        <4>1. /\ log' = log /\ snap' = snap /\ calm' = calm /\ req'[c].target = req[c].target
              /\ ChangesPerm(c)' = ChangesPerm(c)
          BY <1>1, <1>6 DEF ChangesPerm
        <4>2. \A k \in Node : k <= req'[c].target /\ (k > req'[c].at \/ k = req'[c].at)
                  => ~Covers(log', obj'[c][k].md.verified, snap'[c], k)
          BY <3>1, <3>2, <4>1
        <4>3. req'[c].at - 1 = n /\ obj'[c][n].md = m /\ m.exists
          BY <1>3, <1>5, <3>1, <3>3
        <4>4. calm'[c] \/ ChangesPerm(c)' \/ QuietSince(log', snap'[c], n)
                  => Covers(log', m.verified, Len(log'), n)
          BY <1>18, <4>1
        <4> QED
          BY <3>1, <4>2, <4>3, <4>4 DEF LookupOK
    <2> QED
      BY <2>1, <2>2 DEF VerifiedNext
  <1>20. ChangeOK(c)'
    <2>1. \A d \in Client : InChange(d)' => InChange(d)
      BY <1>6, <1>10 DEF InChange
    <2> QED
      BY <1>0, <1>1, <1>6, <1>10, <2>1 DEF ChangeOK, ChangesPerm, InChange
  <1>21. ClientOK(c)'
    BY <1>17, <1>19, <1>20 DEF ClientOK
  <1>22. Alone'
    BY <1>0, <1>6, AloneKept DEF ChangesPerm
  <1> QED
    BY <1>7, <1>10, <1>11, <1>14, <1>15, <1>16, <1>21, <1>22, StepOK

LEMMA OthersNotChanging ==
  ASSUME TypeInv, Alone, NEW c \in Client, ChangesPerm(c), NEW d \in Client, d # c
  PROVE  ~ChangesPerm(d) /\ ~InChange(d)
  BY DEF Alone, TypeInv, Requests, RequestOK, InChange, ChangesPerm

LEMMA PathComputeChildren ==
  ASSUME Careful, PathInv, TypeInv', NEW c \in Client, ComputeChildren(c)
  PROVE  PathInv'
  <1>0. TypeInv /\ Alone /\ LookupOK(c) /\ ChangeOK(c) /\ \A k \in Node : SlotOK(c, k)
    BY DEF PathInv, ClientOK
  <1>1. PICK n \in Node, o \in Obj : ComputeCases(c, n, o)
    BY <1>0, ComputeFacts
  <1>2. /\ req[c].pc = "children" /\ n = req[c].target /\ n \in Dir /\ UNCHANGED <<md, log>>
        /\ o.md = computePathPermissionChildren(Found(c)) /\ Found(c) = obj[c][n].md
        /\ o.current = obj[c][n].current /\ o.cached = obj[c][n].cached
    BY <1>1 DEF ComputeCases, Found
  <1>3. /\ o.md.perm = Found(c).perm /\ o.md.pp = Found(c).pp /\ o.md.verified = Found(c).verified
        /\ o.md.exists = Found(c).exists /\ Computed(o.md)
    <2>1. Found(c) \in MD
      BY <1>0, <1>2 DEF TypeInv, Shape, Obj
    <2> DEFINE r == computePathPermissionChildren(Found(c))
    <2>2. /\ r.perm = Found(c).perm /\ r.pp = Found(c).pp /\ r.verified = Found(c).verified
          /\ r.exists = Found(c).exists /\ r.ppc = Range(Restrictions(Found(c).perm)) \ Found(c).pp
      BY <2>1, ComputeType, Zenon
    <2>3. o.md = r
      BY <1>2
    <2> HIDE DEF r
    <2>4. Computed(r)
      BY <2>2 DEF Computed
    <2> QED
      BY <2>2, <2>3, <2>4
  <1>4. RemovalInRange(Found(c).perm, Found(c).pp)
    BY <1>0, <1>2 DEF ChangeOK
  <1>5. CASE o.md = Found(c) /\ DoneEffect(c, obj[c]) /\ UNCHANGED <<snap, ended>>
    <2>1. ~PendingAt(c) /\ req[c].pc \notin {"log", "force"}
      BY <1>2, <1>3, <1>5 DEF PendingAt
    <2> QED
      BY <1>2, <1>5, <2>1, PathDone
  <1>6. CASE SetEffect(c, n, o) /\ GotoEffect(c, "log", n) /\ UNCHANGED <<snap, ended, calm>>
    <2>1. /\ obj'[c][n] = o /\ (\A k \in Node : k # n => obj'[c][k] = obj[c][k])
          /\ \A d \in Client : d # c => obj'[d] = obj[d]
      BY <1>6 DEF SetEffect
    <2>2. /\ req'[c].pc = "log" /\ req'[c].op = req[c].op /\ req'[c].target = n
          /\ \A d \in Client : d # c => req'[d] = req[d]
      BY <1>2, <1>6 DEF GotoEffect
    <2>3. \A d \in Client : d # c => Beside(d)
      BY <1>2, <1>6, <2>1, <2>2 DEF Beside
    <2>4. PendingAt(c)' /\ n \in Pending'
      BY <2>2 DEF PendingAt, Pending
    <2>5. Frame
      BY <1>0, <1>2, <2>2, <2>3, <2>4, SameFrame, FrameOf
    <2>6. \A k \in Node : k # n => SlotOK(c, k)'
      BY <1>2, <2>1, <2>5, SlotKept
    <2>7. SlotOK(c, n)'
      <3>1. SlotOK(c, n) /\ Found(c) \in MD
        BY <1>0, <1>2 DEF TypeInv, Shape, Obj
      <3>2. Known(md', log', Pending', Newest', Found(c), n)
        BY <1>0, <1>2, <2>5, <3>1, KnownStep DEF SlotOK
      <3>3. ~(\A d \in Pending' : d > n)
        BY <2>4 DEF Node
      <3>4. Good(md', log', Pending', o.md, n)
        BY <1>3, <3>2, <3>3 DEF Known, Good
      <3>5. Known(md', log', Pending', Newest', o.md, n)
        BY <1>3, <3>2, <3>4 DEF Known
      <3>6. obj'[c][n].cached => obj'[c][n].md.exists
        BY <1>2, <1>3, <2>1, <3>1 DEF SlotOK
      <3>7. obj'[c][n].current =>
              /\ obj'[c][n].md.perm = md'[n].perm /\ obj'[c][n].md.pp = md'[n].pp
              /\ obj'[c][n].md.verified = md'[n].verified
        <4>1. obj'[c][n].md = o.md /\ obj'[c][n].current = obj[c][n].current /\ md' = md
          BY <1>2, <2>1
        <4>2. obj[c][n].current =>
                /\ Found(c).perm = md[n].perm /\ Found(c).pp = md[n].pp
                /\ Found(c).verified = md[n].verified
          BY <1>2, <3>1, Zenon DEF SlotOK
        <4> QED
          BY <1>3, <4>1, <4>2
      <3>8. Known(md, log, Pending, Newest, obj[c][n].md, n)'
        BY <2>1, <3>5
      <3> QED
        BY <2>2, <3>6, <3>7, <3>8 DEF SlotOK
    <2>8. Found(c)' = o.md
      BY <2>1, <2>2 DEF Found
    <2>9. LookupOK(c)'
      BY <1>0, <1>2, <1>3, <2>2, <2>8 DEF LookupOK
    <2>10. ChangeOK(c)'
      <3>1. ~calm[c] /\ ~calm'[c] /\ InChange(c)
        BY <1>0, <1>2, <1>6 DEF ChangeOK, InChange
      <3>2. md' = md /\ log' = log /\ snap' = snap /\ obj'[c][n].current = obj[c][n].current
        BY <1>2, <1>6, <2>1
      <3>3. ChangesPerm(c)' => n \in Dir \ {0} /\ snap'[c] = Len(log')
        BY <1>0, <1>2, <2>2, <3>2 DEF ChangeOK, ChangesPerm
      <3>4. Exact(md', Found(c)'.pp, n) /\ Found(c)'.perm = md'[n].perm
        BY <1>0, <1>2, <1>3, <2>8, <3>1, <3>2 DEF ChangeOK
      <3>5. Computed(Found(c)')
        BY <1>3, <2>8
      <3>6. obj'[c][n].current /\ Covers(log', md'[n].verified, Len(log'), n)
        BY <1>0, <1>2, <3>2 DEF ChangeOK
      <3> QED
        BY <2>2, <3>1, <3>3, <3>4, <3>5, <3>6 DEF ChangeOK
    <2>11. ClientOK(c)'
      BY <2>6, <2>7, <2>9, <2>10 DEF ClientOK
    <2>12. Alone'
      BY <1>0, <2>2, AloneKept DEF ChangesPerm
    <2>13. InChange(c) /\ req[c].pc # "force"
      BY <1>2 DEF InChange
    <2> QED
      BY <1>2, <2>1, <2>3, <2>5, <2>11, <2>12, <2>13, QuietStep
  <1> QED
    BY <1>1, <1>4, <1>5, <1>6 DEF ComputeCases

LEMMA PathReload ==
  ASSUME PathInv, TypeInv', NEW c \in Client, NEW n \in Node, ReloadEffect(c, n), n = req[c].target,
         UNCHANGED <<log, snap, ended>>, req[c].pc = "force" \/ (req[c].pc = "found" /\ ~ChangesPerm(c))
  PROVE  PathInv'
  <1>0. TypeInv /\ Alone /\ LookupOK(c) /\ ChangeOK(c) /\ \A k \in Node : SlotOK(c, k)
    BY DEF PathInv, ClientOK
  <1>1. PICK o \in Obj : o.md = md[n] /\ o.current = TRUE /\ o.cached = FALSE /\ SetEffect(c, n, o)
    BY DEF ReloadEffect
  <1>2. UNCHANGED <<md, req, calm>> /\ ~obj[c][n].current
    BY DEF ReloadEffect
  <1>3. md[n].exists
    BY <1>0 DEF TypeInv, Requests, RequestOK
  <1>4. /\ obj'[c][n] = o /\ (\A k \in Node : k # n => obj'[c][k] = obj[c][k])
        /\ \A d \in Client : d # c => obj'[d] = obj[d]
    BY <1>1 DEF SetEffect
  <1>5. Found(c)' = md[n] /\ Found(c) = obj[c][n].md
    BY <1>1, <1>2, <1>4 DEF Found
  <1>6. LookupOK(c)'
    <2>1. req[c].pc = "found" /\ calm[c] => Covers(log, md[n].verified, Len(log), n)
      BY <1>0, <1>5 DEF LookupOK, SlotOK, Known
    <2> QED
      BY <1>0, <1>2, <1>3, <1>5, <2>1 DEF LookupOK, ChangesPerm
  <1>7. CASE req[c].pc = "found"
    <2>1. ~InChange(c) /\ req'[c].pc = "found"
      BY <1>2, <1>7 DEF InChange
    <2> QED
      BY <1>1, <1>2, <1>3, <1>6, <2>1, PathMove
  <1>8. CASE req[c].pc = "force"
    <2>1. \A d \in Client : d # c => Beside(d)
      BY <1>2, <1>4 DEF Beside
    <2>2. ~PendingAt(c) /\ InChange(c)
      BY <1>8 DEF PendingAt, InChange
    <2>3. Frame
      BY <1>0, <1>2, <1>8, <2>1, <2>2, SameFrame, FrameOf
    <2>4. \A k \in Node : k # n => SlotOK(c, k)'
      BY <1>2, <1>4, <2>3, SlotKept
    <2>5. SlotOK(c, n)'
      BY <1>1, <1>2, <1>3, <1>4, <2>3, SlotLoaded
    <2>6. ChangeOK(c)'
      <3>1. \A d \in Client : InChange(d)' = InChange(d)
        BY <1>2 DEF InChange
      <3>2. Computed(md[n]) /\ Exact(md, md[n].pp, n)
        BY <1>0, <1>2, <1>8 DEF ChangeOK
      <3> QED
        BY <1>0, <1>1, <1>2, <1>4, <1>5, <1>8, <3>1, <3>2 DEF ChangeOK, ChangesPerm, Computed
    <2>7. ClientOK(c)'
      BY <1>6, <2>4, <2>5, <2>6 DEF ClientOK
    <2>8. Alone'
      BY <1>0, <1>2 DEF Alone, ChangesPerm
    <2> QED
      BY <1>2, <1>4, <1>8, <2>1, <2>2, <2>3, <2>7, <2>8, QuietStep
  <1> QED
    BY <1>7, <1>8

\* The times of a directory: the entries are written as they are stored.
LEMMA PathPutTimes ==
  ASSUME Careful, PathInv, TypeInv', NEW c \in Client, PutTimes(c)
  PROVE  PathInv'
  <1>0. TypeInv /\ Alone /\ LookupOK(c) /\ ChangeOK(c) /\ \A k \in Node : SlotOK(c, k)
    BY DEF PathInv, ClientOK
  <1>1. PICK n \in Node : PutTimesCases(c, n)
    BY <1>0, PutTimesFacts
  <1>2. /\ req[c].pc = "found" /\ req[c].op = "add" /\ n = req[c].target /\ UNCHANGED <<log, snap, ended>>
        /\ ~Changing(n) /\ Found(c) = obj[c][n].md /\ ~ChangesPerm(c)
    BY <1>1 DEF PutTimesCases, Careful, Avoided, Found, ChangesPerm
  <1>3. CASE ReloadEffect(c, n)
    BY <1>2, <1>3, PathReload
  <1>4. CASE /\ obj[c][n].current /\ PutEffect(c, n, Found(c), obj[c][n].cached)
             /\ GotoEffect(c, "create", n) /\ calm' = calm
    <2>1. Found(c) = md[n]
      <3>1. Found(c) \in MD /\ md[n] \in MD
        BY <1>0, <1>2 DEF TypeInv, Shape, Obj
      <3>2. /\ Found(c).perm = md[n].perm /\ Found(c).pp = md[n].pp /\ Found(c).ppc = md[n].ppc
            /\ Found(c).verified = md[n].verified
        BY <1>0, <1>2, <1>4 DEF SlotOK
      <3>3. Found(c).exists = md[n].exists
        <4>1. Found(c).exists /\ md[n].exists
          BY <1>0, <1>2, <1>4 DEF TypeInv, Held
        <4> QED
          BY <3>1, <4>1 DEF MD
      <3> QED
        BY <3>1, <3>2, <3>3 DEF MD
    <2>2. md[n].exists
      BY <1>0, <1>4 DEF TypeInv, Held
    <2>3. md' = md
      <3>1. md' \in [Node -> MD] /\ md \in [Node -> MD]
        BY <1>0, <1>4 DEF PutEffect, TypeInv, Shape
      <3>2. \A k \in Node : md'[k] = md[k]
        BY <1>4, <2>1 DEF PutEffect
      <3> QED
        BY <3>1, <3>2
    <2>4. /\ obj'[c][n].md = md[n] /\ (\A k \in Node : k # n => obj'[c][k] = obj[c][k])
          /\ \A d \in Client, k \in Node : k # n => obj'[d][k] = obj[d][k]
      BY <1>4, <2>1 DEF PutEffect
    <2>5. /\ req'[c].pc = "create" /\ req'[c].op = "add" /\ req'[c].target = n
          /\ \A d \in Client : d # c => req'[d] = req[d]
      BY <1>2, <1>4 DEF GotoEffect
    <2>6. ASSUME NEW d \in Client, d # c
          PROVE  Beside(d)
      <3>1. ASSUME NEW k \in Node
            PROVE  /\ obj'[d][k].md = obj[d][k].md /\ obj'[d][k].cached = obj[d][k].cached
                   /\ obj'[d][k].current => obj[d][k].current /\ md'[k] = md[k]
        BY <1>4, <2>3, <2>4, <2>6 DEF PutEffect
      <3> QED
        BY <1>2, <1>4, <2>5, <2>6, <3>1 DEF Beside
    <2>7. ~PendingAt(c) /\ ~InChange(c) /\ ~InChange(c)' /\ req'[c].pc # "force" /\ req[c].pc # "force"
      BY <1>2, <2>5 DEF PendingAt, InChange
    <2>8. Frame
      BY <1>0, <1>2, <2>3, <2>6, <2>7, SameFrame, FrameOf
    <2>9. \A k \in Node : SlotOK(c, k)'
      <3>1. SlotOK(c, n)'
        BY <2>2, <2>3, <2>4, <2>8, SlotLoaded
      <3>2. \A k \in Node : k # n => SlotOK(c, k)'
        BY <1>2, <2>3, <2>4, <2>8, SlotKept
      <3> QED
        BY <3>1, <3>2
    <2>10. LookupOK(c)'
      <3>1. Found(c)' = md[n]
        BY <2>4, <2>5 DEF Found
      <3> QED
        BY <2>2, <2>5, <3>1 DEF LookupOK
    <2>11. ChangeOK(c)'
      <3>1. \A d \in Client : InChange(d)' => InChange(d)
        BY <2>5, <2>7 DEF InChange
      <3> QED
        BY <1>0, <1>2, <1>4, <2>5, <2>7, <3>1 DEF ChangeOK, ChangesPerm, InChange
    <2>12. ClientOK(c)'
      BY <2>9, <2>10, <2>11 DEF ClientOK
    <2>13. Alone'
      BY <1>0, <2>5, AloneKept DEF ChangesPerm
    <2>14. ASSUME NEW d \in Client, d # c, InChange(d), obj[d][req[d].target].current
           PROVE  obj'[d][req[d].target].current
      <3>1. req[d].target # n /\ req[d].target \in Node
        BY <1>0, <1>2, <2>14 DEF Changing, InChange, TypeInv, Shape, Req
      <3> QED
        BY <2>4, <2>14, <3>1
    <2> QED
      BY <2>3, <2>6, <2>7, <2>8, <2>12, <2>13, <2>14, QuietStep
  <1> QED
    BY <1>1, <1>3, <1>4 DEF PutTimesCases

\* A file is created with the entries of its directory.
LEMMA PathCreate ==
  ASSUME PathInv, TypeInv', NEW c \in Client, CreateFile(c)
  PROVE  PathInv'
  <1>0. /\ TypeInv /\ Alone /\ Stored /\ Own /\ LookupOK(c) /\ ChangeOK(c)
        /\ \A k \in Node : SlotOK(c, k)
    BY DEF PathInv, ClientOK
  <1>1. PICK n \in Node, f \in MD, objects \in [Node -> Obj] : CreateCases(c, n, f, objects)
    BY <1>0, CreateFacts
  <1>2. /\ req[c].pc = "create" /\ n = req[c].target /\ f.exists = TRUE
        /\ f.pp = Found(c).pp \cup Found(c).ppc /\ f.verified = Found(c).verified
        /\ DoneEffect(c, objects) /\ UNCHANGED <<log, snap, ended>>
        /\ Found(c) = obj[c][n].md
    BY <1>1 DEF CreateCases, Found
  <1>3. ~PendingAt(c) /\ req[c].pc \notin {"log", "force"} /\ ~InChange(c)
    BY <1>2 DEF PendingAt, InChange
  <1>4. CASE objects = obj[c] /\ md' = md
    BY <1>2, <1>3, <1>4, PathDone
  <1>5. CASE /\ n = Depth - 1 /\ md[Depth].exists = FALSE
             /\ md' \in [Node -> MD] /\ md'[Depth] = f
             /\ \A k \in Node : k # Depth => md'[k] = md[k] /\ objects[k] = obj[c][k]
             /\ objects[Depth].md = f /\ objects[Depth].current = TRUE
    <2>1. /\ req'[c] = NoRequest /\ calm'[c] = FALSE
          /\ (\A k \in Node : obj'[c][k] = IF objects[k].cached THEN objects[k] ELSE NoObject)
          /\ \A d \in Client : d # c => req'[d] = req[d] /\ obj'[d] = obj[d] /\ calm'[d] = calm[d]
      BY <1>2 DEF DoneEffect
    <2>2. req'[c].op = "none" /\ req'[c].pc = "idle" /\ ~InChange(c)'
      BY <2>1, Constants DEF InChange
    <2>3. \A k \in Dir : k \in Node /\ k # Depth /\ md'[k] = md[k]
      BY <1>5, Nodes DEF Dir
    <2>4. SamePerms(md, md') /\ FreshKept(md, md', log)
      <3>1. SamePerms(md, md')
        BY <2>3 DEF SamePerms
      <3>2. FreshKept(md, md', log)
        BY <1>5 DEF FreshKept
      <3> QED
        BY <3>1, <3>2
    <2>5. ASSUME NEW d \in Client, d # c
          PROVE  Beside(d)
      <3>1. ASSUME NEW k \in Node, obj[d][k].current
            PROVE  md'[k] = md[k]
        BY <1>0, <1>5, <3>1 DEF TypeInv, Held
      <3> QED
        BY <1>2, <2>1, <2>5, <3>1 DEF Beside
    <2>6. Frame
      BY <1>0, <1>2, <1>3, <2>2, <2>4, <2>5, FrameOf
    <2>7. ASSUME NEW d \in Client, d # c
          PROVE  ChangeKept(d)
      <3> DEFINE k == req[d].target
      <3>1. ChangeOK(d) /\ obj'[d] = obj[d]
        BY <2>1, <2>7 DEF PathInv, ClientOK
      <3>2. ASSUME InChange(d)
            PROVE  md'[k] = md[k] /\ (Exact(md, md[k].pp, k) => Exact(md', md'[k].pp, k))
        <4>1. k \in Dir
          BY <1>0, <3>2 DEF TypeInv, Requests, RequestOK, InChange
        <4>2. k \in Nat /\ \A i \in 0 .. k - 1 : i \in Dir
          BY <4>1 DEF Dir
        <4>3. \A i \in 0 .. k - 1 : md'[i].perm = md[i].perm
          BY <2>3, <4>2
        <4> QED
          BY <2>3, <4>1, <4>2, <4>3, ExactSame
      <3> QED
        BY <3>1, <3>2 DEF ChangeOK, ChangeKept, InChange
    <2>8. Own'
      <3> SUFFICES ASSUME NEW k \in Dir, ~ForcedAt(k)'
                   PROVE  OwnCovered(log, md'[k].verified, k)
        BY <1>2 DEF Own
      <3>1. ~ForcedAt(k)
        BY <1>2, <2>1 DEF ForcedAt
      <3> QED
        BY <1>0, <2>3, <3>1 DEF Own
    <2>9. Known(md', log', Pending', Newest', f, Depth)
      <3>1. Known(md, log, Pending, Newest, Found(c), n) /\ Found(c).exists
        BY <1>0, <1>2 DEF SlotOK, LookupOK
      <3>2. /\ n \in Nat /\ n + 1 = Depth /\ n <= Depth /\ Depth \in Nat /\ n \in Dir /\ Depth \notin Dir
            /\ Depth \in Node /\ Len(log) \in Nat /\ Len(log) <= Len(log)
        BY <1>0, <1>5 DEF TypeInv, Shape, Node, Dir
      <3>3. Good(md, log, Pending, f, Depth)
        <4> SUFFICES ASSUME Covers(log, f.verified, Len(log), Depth), \A d \in Pending : d >= Depth
                     PROVE  Exact(md, f.pp, Depth)
          BY <3>2 DEF Good
        <4>1. Covers(log, f.verified, Len(log), n)
          BY <3>2, CoversLess
        <4>2. \A d \in Pending : d > n
          <5>1. Pending \subseteq Nat
            <6>1. Pending \subseteq Node
              BY <1>0 DEF Pending, TypeInv, Shape, Req
            <6> QED
              BY <6>1, Nodes
          <5>2. \A d \in Nat : d >= Depth => d > n
            BY <3>2
          <5> QED
            BY <5>1, <5>2
        <4> QED
          BY <1>2, <3>1, <3>2, <4>1, <4>2 DEF Known, Good
      <3>4. Good(md', log', Pending', f, Depth)
        <4>1. log' = log /\ Pending \subseteq Pending' /\ \A d \in Dir : md'[d].perm = md[d].perm
          BY <2>4, <2>6 DEF Frame, SamePerms
        <4>2. Good(md', log, Pending', f, Depth)
          BY <3>2, <3>3, <4>1, GoodSame
        <4> QED
          BY <4>1, <4>2
      <3>5. f.verified <= Newest'
        <4>1. f.verified <= Newest /\ f.verified \in Nat
          BY <1>2, <3>1 DEF Known, MD
        <4>2. Newest \in Int /\ Newest' \in Int
          BY <1>0 DEF TypeInv, Shape, Newest
        <4> QED
          BY <2>6, <4>1, <4>2 DEF Frame
      <3> QED
        BY <1>2, <1>5, <3>4, <3>5 DEF Known
    <2>10. ASSUME NEW k \in Node
           PROVE  Known(md', log', Pending', Newest', md'[k], k)
      <3>1. CASE k = Depth
        BY <1>5, <2>9, <3>1
      <3>2. CASE k # Depth
        <4>1. Known(md, log, Pending, Newest, md[k], k) /\ md[k] \in MD
          BY <1>0 DEF Stored, TypeInv, Shape
        <4>2. Known(md', log', Pending', Newest', md[k], k)
          BY <1>0, <2>6, <4>1, KnownStep
        <4> QED
          BY <1>5, <3>2, <4>2
      <3> QED
        BY <3>1, <3>2
    <2>11. ASSUME NEW k \in Node
           PROVE  SlotOK(c, k)'
      <3>1. CASE ~objects[k].cached
        BY <2>1, <2>6, <3>1, SlotNone
      <3>2. CASE objects[k].cached /\ k # Depth
        <4>1. obj'[c][k] = obj[c][k] /\ md'[k] = md[k]
          BY <1>5, <2>1, <3>2
        <4> QED
          BY <1>2, <2>6, <4>1, SlotKept
      <3>3. CASE objects[k].cached /\ k = Depth
        <4>1. obj'[c][k].md = f
          BY <1>5, <2>1, <3>3
        <4> QED
          BY <1>2, <1>5, <2>9, <3>3, <4>1 DEF SlotOK
      <3> QED
        BY <3>1, <3>2, <3>3
    <2>12. LookupOK(c)'
      BY <2>2 DEF LookupOK
    <2>13. ChangeOK(c)'
      BY <2>1, <2>2 DEF ChangeOK, ChangesPerm, InChange
    <2>14. ClientOK(c)'
      BY <2>11, <2>12, <2>13 DEF ClientOK
    <2>15. Alone'
      BY <1>0, <2>1, <2>2, AloneKept DEF ChangesPerm
    <2> QED
      BY <2>2, <2>5, <2>6, <2>7, <2>8, <2>10, <2>14, <2>15, StepOK
  <1> QED
    BY <1>1, <1>4, <1>5 DEF CreateCases

\* The end of a change: the directory's entries are verified at the version of
\* the change itself.
LEMMA PathPutVerified ==
  ASSUME Careful, PathInv, TypeInv', NEW c \in Client, PutVerified(c)
  PROVE  PathInv'
  <1>0. /\ TypeInv /\ Alone /\ Stored /\ Own /\ LookupOK(c) /\ ChangeOK(c)
        /\ \A k \in Node : SlotOK(c, k)
    BY DEF PathInv, ClientOK
  <1>1. PICK n \in Node, m \in MD : PutVerifiedCases(c, n, m)
    BY <1>0, PutVerifiedFacts
  <1>2. /\ req[c].pc = "force" /\ n = req[c].target /\ n \in Dir
        /\ m.perm = Found(c).perm /\ m.pp = Found(c).pp /\ m.ppc = Found(c).ppc
        /\ m.verified = snap[c] /\ m.exists = Found(c).exists /\ UNCHANGED <<log, snap, ended>>
    BY <1>1 DEF PutVerifiedCases
  <1>3. CASE ReloadEffect(c, n)
    BY <1>2, <1>3, PathReload
  <1>4. CASE /\ obj[c][n].current /\ PutEffect(c, n, m, obj[c][n].cached) /\ calm' = calm
             /\ req' \in [Client -> Req] /\ req'[c] = NoRequest
             /\ \A d \in Client : d # c => req'[d] = req[d]
    <2>1. ChangesPerm(c) /\ InChange(c) /\ ~PendingAt(c)
      BY <1>0, <1>2 DEF ChangesPerm, InChange, PendingAt, TypeInv, Requests, RequestOK
    <2>2. /\ m.verified = Len(log) /\ m.exists /\ m.perm = md[n].perm /\ Exact(md, m.pp, n) /\ Computed(m)
          /\ ~calm[c]
      BY <1>0, <1>2, <2>1 DEF ChangeOK, LookupOK, Computed
    <2>3. Len(log) \in Nat /\ n \in Nat /\ m.perm \in Perms
      BY <1>0, Nodes DEF TypeInv, Shape, MD
    <2>4. /\ md'[n] = m /\ (\A k \in Node : k # n => md'[k] = md[k])
          /\ obj'[c][n].md = m /\ (\A k \in Node : k # n => obj'[c][k] = obj[c][k])
          /\ \A d \in Client, k \in Node : k # n => obj'[d][k] = obj[d][k]
      BY <1>4 DEF PutEffect
    <2>5. req'[c].op = "none" /\ req'[c].pc = "idle" /\ ~InChange(c)'
      BY <1>4, Constants DEF InChange
    <2>6. \A d \in Client : d # c => ~ChangesPerm(d) /\ ~InChange(d)
      BY <1>0, <2>1, OthersNotChanging
    <2>7. SamePerms(md, md')
      BY <2>2, <2>4, Nodes DEF SamePerms
    <2>8. FreshKept(md, md', log)
      <3>1. Covers(log, m.verified, Len(log), n)
        BY <2>2, <2>3 DEF Covers
      <3> QED
        BY <2>2, <2>4, <3>1 DEF FreshKept
    <2>9. ASSUME NEW d \in Client, d # c
          PROVE  Beside(d)
      <3>1. ASSUME NEW k \in Node
            PROVE  /\ obj'[d][k].md = obj[d][k].md /\ obj'[d][k].cached = obj[d][k].cached
                   /\ obj'[d][k].current => obj[d][k].current /\ md'[k] = md[k]
        BY <1>4, <2>4, <2>9 DEF PutEffect
      <3> QED
        BY <1>2, <1>4, <2>9, <3>1 DEF Beside
    <2>10. Frame
      BY <1>0, <1>2, <2>1, <2>5, <2>7, <2>8, <2>9, FrameOf
    <2>11. \A d \in Client : d # c => ChangeKept(d)
      BY <2>6 DEF ChangeKept, InChange
    <2>12. Newest' = Len(log)
      <3>1. \A d \in Client : req'[d].pc # "force"
        BY <1>4, <2>5, <2>6 DEF InChange
      <3> QED
        BY <1>2, <3>1 DEF Newest, Forcing
    <2>13. Known(md', log', Pending', Newest', m, n)
      <3>1. Exact(md, m.pp \cup m.ppc, n + 1)
        BY <2>2, <2>3, ExactBelow
      <3>2. Good(md, log, Pending, m, n)
        BY <2>2, <3>1 DEF Good
      <3>3. Good(md', log', Pending', m, n)
        <4>1. log' = log /\ Pending \subseteq Pending' /\ \A d \in Dir : md'[d].perm = md[d].perm
          BY <2>7, <2>10 DEF Frame, SamePerms
        <4>2. Good(md', log, Pending', m, n)
          BY <3>2, <4>1, GoodSame
        <4> QED
          BY <4>1, <4>2
      <3> QED
        BY <2>2, <2>3, <2>4, <2>12, <3>3 DEF Known
    <2>14. ASSUME NEW k \in Node
           PROVE  Known(md', log', Pending', Newest', md'[k], k)
      <3>1. CASE k = n
        BY <2>4, <2>13, <3>1
      <3>2. CASE k # n
        <4>1. Known(md, log, Pending, Newest, md[k], k) /\ md[k] \in MD
          BY <1>0 DEF Stored, TypeInv, Shape
        <4>2. Known(md', log', Pending', Newest', md[k], k)
          BY <1>0, <2>10, <4>1, KnownStep
        <4> QED
          BY <2>4, <3>2, <4>2
      <3> QED
        BY <3>1, <3>2
    <2>15. Own'
      <3> SUFFICES ASSUME NEW k \in Dir
                   PROVE  OwnCovered(log, md'[k].verified, k)
        BY <1>2 DEF Own
      <3>1. CASE k = n
        BY <2>2, <2>3, <2>4, <3>1 DEF OwnCovered
      <3>2. CASE k # n
        <4>1. ~ForcedAt(k)
          BY <1>2, <2>6, <3>2 DEF ForcedAt, InChange
        <4> QED
          BY <1>0, <2>4, <3>2, <4>1, Nodes DEF Own
      <3> QED
        BY <3>1, <3>2
    <2>16. ASSUME NEW k \in Node
           PROVE  SlotOK(c, k)'
      <3>1. CASE k = n
        BY <2>2, <2>4, <2>13, <3>1 DEF SlotOK
      <3>2. CASE k # n
        <4>1. obj'[c][k] = obj[c][k] /\ md'[k] = md[k] /\ ~(req[c].target = k)
          BY <1>2, <2>4, <3>2
        <4> QED
          BY <2>10, <4>1, SlotKept
      <3> QED
        BY <3>1, <3>2
    <2>17. LookupOK(c)'
      BY <2>5 DEF LookupOK
    <2>18. ChangeOK(c)'
      BY <1>4, <2>2, <2>5 DEF ChangeOK, ChangesPerm, InChange
    <2>19. ClientOK(c)'
      BY <2>16, <2>17, <2>18 DEF ClientOK
    <2>20. Alone'
      BY <1>0, <1>4, <2>5, AloneKept DEF ChangesPerm
    <2> QED
      BY <2>5, <2>9, <2>10, <2>11, <2>14, <2>15, <2>19, <2>20, StepOK
  <1> QED
    BY <1>1, <1>3, <1>4 DEF PutVerifiedCases

\* A change of directory n is appended to the log.
Grown(lg, lg2, n) ==
    /\ lg \in Seq(Dir) /\ lg2 \in Seq(Dir) /\ Len(lg2) = Len(lg) + 1 /\ lg2[Len(lg2)] = n
    /\ \A i \in 1 .. Len(lg) : lg2[i] = lg[i]

LEMMA CoversGrow ==
  ASSUME NEW lg, NEW lg2, NEW n \in Dir \ {0}, Grown(lg, lg2, n),
         NEW x \in Nat, x <= Len(lg), NEW k \in Node
  PROVE  /\ k < n => (Covers(lg2, x, Len(lg2), k) <=> Covers(lg, x, Len(lg), k))
         /\ ~(k < n) => ~Covers(lg2, x, Len(lg2), k)
         /\ \A v \in Nat : v <= Len(lg) => (Covers(lg2, x, v, k) <=> Covers(lg, x, v, k))
  <1>1. /\ lg \in Seq(Dir) /\ lg2 \in Seq(Dir) /\ Len(lg2) = Len(lg) + 1 /\ lg2[Len(lg2)] = n
        /\ \A i \in 1 .. Len(lg) : lg2[i] = lg[i]
    BY DEF Grown
  <1>2. Len(lg) \in Nat /\ n \in Nat /\ n # 0 /\ k \in Nat
    BY <1>1, Nodes
  <1>3. \A v \in Nat : v <= Len(lg) => (Covers(lg2, x, v, k) <=> Covers(lg, x, v, k))
    <2> SUFFICES ASSUME NEW v \in Nat, v <= Len(lg)
                 PROVE  Covers(lg2, x, v, k) <=> Covers(lg, x, v, k)
      OBVIOUS
    <2>1. \A i \in 1 .. v : lg2[i] = lg[i]
      BY <1>1, <1>2
    <2> QED
      BY <2>1 DEF Covers
  <1>4. ASSUME k < n
        PROVE  Covers(lg2, x, Len(lg2), k) <=> Covers(lg, x, Len(lg), k)
    <2>1. Covers(lg2, x, Len(lg2), k) <=> Covers(lg2, x, Len(lg), k)
      <3>1. lg2[Len(lg2)] \notin 1 .. k
        BY <1>1, <1>2, <1>4
      <3>2. 1 .. Len(lg2) = (1 .. Len(lg)) \cup {Len(lg2)}
        BY <1>1, <1>2
      <3> QED
        BY <3>1, <3>2 DEF Covers
    <2>2. Covers(lg2, x, Len(lg), k) <=> Covers(lg, x, Len(lg), k)
      BY <1>2, <1>3
    <2> QED
      BY <2>1, <2>2
  <1>5. ASSUME ~(k < n)
        PROVE  ~Covers(lg2, x, Len(lg2), k)
    <2>1. Len(lg2) \in 1 .. Len(lg2) /\ lg2[Len(lg2)] \in 1 .. k /\ ~(Len(lg2) <= x)
      BY <1>1, <1>2, <1>5
    <2> QED
      BY <2>1 DEF Covers
  <1> QED
    BY <1>3, <1>4, <1>5

\* What is known of metadata while the change of directory n is only stored is
\* known after it is in the log: below the directory everything is stale then.
LEMMA KnownGrow ==
  ASSUME NEW s, NEW lg, NEW lg2, NEW n \in Dir \ {0}, Grown(lg, lg2, n), NEW m \in MD, NEW k \in Node,
         s[k] \in MD, s[k].verified <= Len(lg), Known(s, lg, {n}, Len(lg), m, k)
  PROVE  Known(s, lg2, {}, Len(lg), m, k)
  <1>1. m.verified \in Nat /\ m.verified <= Len(lg) /\ s[k].verified \in Nat /\ n \in Nat /\ k \in Nat
    BY Nodes DEF MD, Known
  <1>2. CASE k < n
    <2>1. Covers(lg2, m.verified, Len(lg2), k) <=> Covers(lg, m.verified, Len(lg), k)
      BY <1>1, <1>2, CoversGrow
    <2>2. Covers(lg2, s[k].verified, Len(lg2), k) <=> Covers(lg, s[k].verified, Len(lg), k)
      BY <1>1, <1>2, CoversGrow
    <2>3. \A d \in {n} : d >= k /\ d > k
      BY <1>1, <1>2
    <2>4. Good(s, lg2, {}, m, k)
      BY <2>1, <2>3 DEF Known, Good
    <2> QED
      BY <1>1, <2>1, <2>2, <2>4 DEF Known
  <1>3. CASE ~(k < n)
    <2>1. ~Covers(lg2, m.verified, Len(lg2), k)
      BY <1>1, <1>3, CoversGrow
    <2> QED
      BY <1>1, <2>1 DEF Known, Good
  <1> QED
    BY <1>2, <1>3

LEMMA PathLogChange ==
  ASSUME PathInv, TypeInv', NEW c \in Client, LogChange(c)
  PROVE  PathInv'
  <1>0. /\ TypeInv /\ LogOK /\ Alone /\ Stored /\ Own /\ LookupOK(c) /\ ChangeOK(c)
        /\ \A k \in Node : SlotOK(c, k)
    BY DEF PathInv, ClientOK
  <1>1. PICK n \in Node : LogCases(c, n)
    BY <1>0, LogFacts
  <1>2. /\ req[c].pc = "log" /\ n = req[c].target /\ n \in Dir /\ snap'[c] = Len(log')
        /\ (\A d \in Client : d # c => snap'[d] = snap[d]) /\ UNCHANGED <<md, obj, ended, calm>>
        /\ req'[c].pc = "force" /\ req'[c].op = req[c].op /\ req'[c].target = n
        /\ \A d \in Client : d # c => req'[d] = req[d]
    BY <1>1 DEF LogCases, GotoEffect
  <1>3. ChangesPerm(c) /\ InChange(c) /\ PendingAt(c) /\ n \in Dir \ {0}
    <2>1. ChangesPerm(c) /\ InChange(c) /\ PendingAt(c)
      BY <1>0, <1>2 DEF ChangesPerm, InChange, PendingAt, TypeInv, Requests, RequestOK
    <2> QED
      BY <1>0, <1>2, <2>1 DEF ChangeOK
  <1>4. Grown(log, log', n)
    BY <1>0, <1>1 DEF LogCases, Grown, TypeInv, Shape
  <1>5. Len(log) \in Nat /\ Len(log') = Len(log) + 1 /\ n \in Nat /\ n # 0
    BY <1>0, <1>3, <1>4, Nodes DEF Grown, TypeInv, Shape
  <1>6. \A d \in Client : d # c => ~ChangesPerm(d) /\ ~InChange(d)
    BY <1>0, <1>3, OthersNotChanging
  <1>7. \A d \in Client : ~calm[d]
    BY <1>3 DEF PathInv, ClientOK, ChangeOK
  <1>8. Pending = {n} /\ Pending' = {}
    <2>1. \A d \in Client : PendingAt(d) => d = c
      BY <1>6 DEF PendingAt, InChange
    <2>2. Pending = {n}
      BY <1>2, <1>3, <2>1 DEF Pending
    <2>3. \A d \in Client : ~PendingAt(d)'
      <3> SUFFICES ASSUME NEW d \in Client
                   PROVE  ~PendingAt(d)'
        OBVIOUS
      <3>1. req'[d].pc \notin {"log", "children"}
        BY <1>2, <1>6 DEF InChange
      <3> QED
        BY <3>1 DEF PendingAt
    <2> QED
      BY <2>2, <2>3 DEF Pending
  <1>9. Newest = Len(log) /\ Newest' = Len(log)
    <2>1. ~Forcing
      BY <1>2, <1>6 DEF Forcing, InChange
    <2>2. Forcing'
      BY <1>2 DEF Forcing
    <2> QED
      BY <1>5, <2>1, <2>2 DEF Newest
  <1>10. ASSUME NEW m \in MD, NEW k \in Node, Known(md, log, Pending, Newest, m, k)
         PROVE  Known(md', log', Pending', Newest', m, k)
    <2>1. md[k] \in MD /\ md[k].verified <= Len(log)
      BY <1>0 DEF TypeInv, Shape, Versions
    <2>2. Known(md, log', {}, Len(log), m, k)
      BY <1>3, <1>4, <1>8, <1>9, <1>10, <2>1, KnownGrow
    <2> QED
      BY <1>2, <1>8, <1>9, <2>2
  <1>11. Stored'
    <2>1. ASSUME NEW k \in Node
          PROVE  Known(md', log', Pending', Newest', md'[k], k)
      <3>1. md[k] \in MD /\ Known(md, log, Pending, Newest, md[k], k)
        BY <1>0 DEF TypeInv, Shape, Stored
      <3>2. Known(md', log', Pending', Newest', md[k], k)
        BY <1>10, <3>1
      <3> QED
        BY <1>2, <3>2
    <2> QED
      BY <2>1 DEF Stored
  <1>12. ASSUME NEW d \in Client, NEW k \in Node
         PROVE  SlotOK(d, k)'
    <2>1. SlotOK(d, k) /\ obj[d][k].md \in MD
      BY <1>0 DEF PathInv, ClientOK, TypeInv, Shape, Obj
    <2> DEFINE m == obj[d][k].md
    <2>2. Known(md', log', Pending', Newest', m, k)
      BY <1>10, <2>1 DEF SlotOK
    <2>3. req[d].pc \in {"log", "force"} /\ req[d].target = k => req'[d].pc \in {"log", "force"} /\ req'[d].target = k
      BY <1>2
    <2> QED
      BY <1>2, <2>1, <2>2, <2>3 DEF SlotOK
  <1>13. Own'
    <2> SUFFICES ASSUME NEW k \in Dir, ~ForcedAt(k)'
                 PROVE  OwnCovered(log', md[k].verified, k)
      BY <1>2 DEF Own
    <2>1. k # n
      BY <1>2 DEF ForcedAt
    <2>2. ~ForcedAt(k)
      BY <1>2, <1>6 DEF ForcedAt, InChange
    <2>3. OwnCovered(log, md[k].verified, k)
      BY <1>0, <2>2 DEF Own
    <2> SUFFICES ASSUME NEW i \in 1 .. Len(log'), log'[i] = k,
                        \A j \in i + 1 .. Len(log') : log'[j] \notin 1 .. k - 1
                 PROVE  i <= md[k].verified
      BY DEF OwnCovered
    <2>4. i \in 1 .. Len(log) /\ log[i] = k
      BY <1>4, <1>5, <2>1 DEF Grown
    <2>5. ASSUME NEW j \in i + 1 .. Len(log)
          PROVE  log[j] \notin 1 .. k - 1
      <3>1. j \in i + 1 .. Len(log') /\ j \in 1 .. Len(log)
        BY <1>5
      <3> QED
        BY <1>4, <3>1 DEF Grown
    <2> QED
      BY <2>3, <2>4, <2>5 DEF OwnCovered
  <1>14. ASSUME NEW d \in Client, d # c
         PROVE  ClientOK(d)'
    <2>1. /\ LookupOK(d) /\ req'[d] = req[d] /\ snap'[d] = snap[d] /\ snap[d] \in Nat /\ snap[d] <= Len(log)
          /\ ~calm'[d] /\ ~ChangesPerm(d) /\ ~InChange(d) /\ ~ChangesPerm(d)' /\ ~InChange(d)'
      BY <1>0, <1>2, <1>6, <1>7, <1>14 DEF PathInv, ClientOK, TypeInv, Shape, Versions, ChangesPerm, InChange
    <2>2. ASSUME NEW k \in Node
          PROVE  obj[d][k].md.verified \in Nat /\ obj[d][k].md.verified <= Len(log)
      <3>1. obj[d][k].md \in MD
        BY <1>0 DEF TypeInv, Shape, Obj
      <3> QED
        BY <1>0, <3>1 DEF TypeInv, Versions, MD
    <2>3. \A k \in Node : Covers(log', obj[d][k].md.verified, snap[d], k)
                            <=> Covers(log, obj[d][k].md.verified, snap[d], k)
      BY <1>3, <1>4, <2>1, <2>2, CoversGrow
    <2>4. ASSUME req[d].pc = "inherit", QuietSince(log', snap[d], req[d].at - 1)
          PROVE  Covers(log', obj[d][req[d].at - 1].md.verified, Len(log'), req[d].at - 1)
      <3> DEFINE k == req[d].at - 1
      <3>1. k \in Node /\ k \in Nat
        <4>1. req[d].at \in Node /\ req[d].at >= 1
          BY <1>0, <2>4 DEF TypeInv, Shape, Req, Requests, RequestOK
        <4> QED
          BY <4>1 DEF Node
      <3> HIDE DEF k
      <3>2. PICK i \in 1 .. snap[d] : \A j \in i .. Len(log') : log'[j] \notin 1 .. k
        BY <2>4 DEF QuietSince, k
      <3>3. k < n
        <4>1. Len(log') \in i .. Len(log') /\ log'[Len(log')] = n
          BY <1>4, <1>5, <2>1, <3>2 DEF Grown
        <4> QED
          BY <1>5, <3>1, <3>2, <4>1
      <3>4. QuietSince(log, snap[d], k)
        <4>1. ASSUME NEW j \in i .. Len(log)
              PROVE  log[j] \notin 1 .. k
          <5>1. j \in i .. Len(log') /\ j \in 1 .. Len(log)
            BY <1>5, <2>1, <3>2
          <5> QED
            BY <1>4, <3>2, <5>1 DEF Grown
        <4> QED
          BY <3>2, <4>1 DEF QuietSince
      <3>5. Covers(log, obj[d][k].md.verified, Len(log), k)
        BY <2>1, <2>4, <3>4 DEF LookupOK, k
      <3>6. Covers(log', obj[d][k].md.verified, Len(log'), k)
        BY <1>3, <1>4, <2>2, <3>1, <3>3, <3>5, CoversGrow
      <3> QED
        BY <3>6 DEF k
    <2>5. Found(d)' = Found(d)
      BY <1>2, <2>1 DEF Found
    <2>6. LookupOK(d)'
      BY <1>2, <2>1, <2>3, <2>4, <2>5 DEF LookupOK
    <2>7. ChangeOK(d)'
      BY <2>1 DEF ChangeOK, InChange
    <2> QED
      BY <1>12, <2>6, <2>7 DEF ClientOK
  <1>15. ClientOK(c)'
    <2>1. Found(c)' = Found(c) /\ Found(c) = obj[c][n].md
      BY <1>2 DEF Found
    <2>2. LookupOK(c)'
      BY <1>0, <1>2, <2>1 DEF LookupOK
    <2>3. /\ Exact(md, Found(c).pp, n) /\ Found(c).perm = md[n].perm /\ Computed(Found(c))
          /\ obj[c][n].current /\ Covers(log, md[n].verified, Len(log), n)
      BY <1>0, <1>2, <1>3 DEF ChangeOK
    <2>4. Covers(log', md[n].verified, Len(log'), n - 1)
      <3>1. n - 1 \in Node /\ n - 1 < n /\ n - 1 <= n /\ n - 1 \in Nat /\ Len(log) <= Len(log)
        BY <1>5 DEF Node
      <3>2. Covers(log, md[n].verified, Len(log), n - 1)
        BY <1>5, <2>3, <3>1, CoversLess
      <3>3. md[n].verified \in Nat /\ md[n].verified <= Len(log)
        BY <1>0 DEF TypeInv, Shape, MD, Versions
      <3> QED
        BY <1>3, <1>4, <3>1, <3>2, <3>3, CoversGrow
    <2>5. log'[Len(log')] = n /\ Len(log') > 0
      BY <1>4, <1>5 DEF Grown
    <2>6. ChangeOK(c)'
      BY <1>2, <1>3, <1>7, <2>1, <2>3, <2>4, <2>5 DEF ChangeOK, ChangesPerm, InChange, Computed
    <2> QED
      BY <1>12, <2>2, <2>6 DEF ClientOK
  <1>16. LogOK'
    BY <1>0, <1>4, <1>5 DEF LogOK, Grown
  <1>17. Alone'
    BY <1>0, <1>2, AloneKept DEF ChangesPerm
  <1>18. \A d \in Client : ClientOK(d)'
    BY <1>14, <1>15
  <1> QED
    BY <1>11, <1>13, <1>16, <1>17, <1>18 DEF PathInv

\* The x bits or the owner of directory n change.  Nothing changes for the nodes
\* up to it; for those below it nothing does either, if its entries for the
\* children are those of the new permissions already.
LEMMA PassesChanged ==
  ASSUME Careful, NEW s, NEW t, NEW m, NEW n \in Nat, m.perm \in Perms, t[n].perm = m.perm,
         \A d \in Dir : d # n => t[d].perm = s[d].perm,
         Exact(s, m.pp, n), Exact(s, m.pp \cup m.ppc, n + 1),
         NEW k \in Nat, \A d \in 0 .. k - 1 : d \in Dir, k <= n \/ Computed(m),
         NEW u \in User
  PROVE  Passes(s, k, u) <=> Passes(t, k, u)
  <1>1. CASE k <= n
    <2>1. \A d \in 0 .. k - 1 : t[d].perm = s[d].perm
      BY <1>1
    <2> QED
      BY <2>1 DEF Passes
  <1>2. CASE ~(k <= n)
    <2>0. \A d \in 0 .. n - 1 : d \in Dir /\ d # n
      BY <1>2
    <2>1. Passes(s, n, u) <=> Passes(t, n, u)
      BY <2>0 DEF Passes
    <2>2. check_path_permissions(m.pp \cup m.ppc, u) <=> check_path_permissions(m.pp, u) /\ Enters(m.perm, u)
      BY <1>2, ExactBelow
    <2>3. Passes(s, n + 1, u) <=> Passes(s, n, u) /\ Enters(m.perm, u)
      BY <2>2 DEF Exact
    <2>4. Passes(t, n + 1, u) <=> Passes(t, n, u) /\ Enters(m.perm, u)
      <3>1. 0 .. (n + 1) - 1 = (0 .. n - 1) \cup {n}
        OBVIOUS
      <3> QED
        BY <3>1 DEF Passes
    <2>5. 0 .. k - 1 = (0 .. (n + 1) - 1) \cup (n + 1 .. k - 1)
      BY <1>2
    <2>6. \A d \in n + 1 .. k - 1 : t[d].perm = s[d].perm
      BY <1>2
    <2>7. Passes(s, k, u) <=> Passes(s, n + 1, u) /\ \A d \in n + 1 .. k - 1 : Enters(s[d].perm, u)
      BY <2>5 DEF Passes
    <2>8. Passes(t, k, u) <=> Passes(t, n + 1, u) /\ \A d \in n + 1 .. k - 1 : Enters(t[d].perm, u)
      BY <2>5 DEF Passes
    <2> QED
      BY <2>1, <2>3, <2>4, <2>6, <2>7, <2>8
  <1> QED
    BY <1>1, <1>2

LEMMA KnownChanged ==
  ASSUME Careful, NEW s, NEW t, NEW lg, NEW P, NEW v, NEW m, NEW n \in Node,
         m.perm \in Perms, t[n].perm = m.perm,
         \A d \in Dir : d # n => t[d].perm = s[d].perm,
         \A d \in Node : t[d].verified = s[d].verified /\ (s[d].exists => t[d].exists),
         Exact(s, m.pp, n), Exact(s, m.pp \cup m.ppc, n + 1), n \in P \/ Computed(m),
         NEW x, NEW k \in Node, Known(s, lg, {}, v, x, k)
  PROVE  Known(t, lg, P, v, x, k)
  <1>0. n \in Nat /\ k \in Nat /\ (\A d \in 0 .. k - 1 : d \in Dir) /\ \A d \in 0 .. (k + 1) - 1 : k \in Dir => d \in Dir
    BY DEF Node, Dir
  <1>1. ASSUME Exact(s, x.pp, k), \A d \in P : d >= k
        PROVE  Exact(t, x.pp, k)
    <2>1. k <= n \/ Computed(m)
      BY <1>0, <1>1
    <2>2. \A u \in User : Passes(s, k, u) <=> Passes(t, k, u)
      BY <1>0, <2>1, PassesChanged
    <2> QED
      BY <1>1, <2>2 DEF Exact
  <1>2. ASSUME k \in Dir, Exact(s, x.pp \cup x.ppc, k + 1), \A d \in P : d > k
        PROVE  Exact(t, x.pp \cup x.ppc, k + 1)
    <2> DEFINE j == k + 1
    <2>1. j <= n \/ Computed(m)
      BY <1>0, <1>2
    <2>2. j \in Nat /\ \A d \in 0 .. j - 1 : d \in Dir
      BY <1>0, <1>2
    <2> HIDE DEF j
    <2>3. \A u \in User : Passes(s, j, u) <=> Passes(t, j, u)
      BY <1>0, <2>1, <2>2, PassesChanged
    <2> QED
      BY <1>2, <2>3 DEF Exact, j
  <1>3. Good(t, lg, P, x, k)
    BY <1>1, <1>2 DEF Known, Good
  <1> QED
    BY <1>3 DEF Known

LEMMA PathPutPermissions ==
  ASSUME Careful, PathInv, TypeInv', NEW c \in Client, PutPermissions(c)
  PROVE  PathInv'
  <1>0. /\ TypeInv /\ LogOK /\ Alone /\ Stored /\ Own /\ LookupOK(c) /\ ChangeOK(c)
        /\ \A k \in Node : SlotOK(c, k)
    BY DEF PathInv, ClientOK
  <1>1. PICK n \in Node, m \in MD : PutPermissionsCases(c, n, m)
    BY <1>0, PutPermissionsFacts
  <1>2. /\ req[c].pc = "found" /\ ChangesPerm(c) /\ n = req[c].target /\ n \in Dir /\ UNCHANGED <<log, snap, ended>>
        /\ m.pp = Found(c).pp /\ m.ppc = Found(c).ppc
        /\ m.verified = Found(c).verified /\ m.exists = Found(c).exists /\ Found(c) = obj[c][n].md
        /\ ~InChange(c) /\ ~PendingAt(c)
    BY <1>1 DEF PutPermissionsCases, ChangesPerm, Found, InChange, PendingAt
  <1>3. CASE SetEffect(c, n, NoObject) /\ GotoEffect(c, "lookup", n) /\ UNCHANGED <<md, calm>>
    <2>1. /\ req'[c].pc = "lookup" /\ req'[c].at = n /\ req'[c].op = req[c].op /\ req'[c].target = req[c].target
          /\ \A d \in Client : d # c => req'[d] = req[d]
      BY <1>3 DEF GotoEffect
    <2>2. n \in Nat /\ \A k \in Node : ~(k <= n /\ k > n)
      BY Nodes DEF Node
    <2>3. LookupOK(c)'
      BY <1>2, <2>1, <2>2 DEF LookupOK
    <2> QED
      BY <1>2, <1>3, <2>1, <2>3, Constants, PathMove
  <1>4. CASE /\ obj[c][n].current /\ PutEffect(c, n, m, obj[c][n].cached)
             /\ Avoided("crash in chmod", ~RemovalInRange(m.perm, m.pp))
             /\ calm' = [d \in Client |-> FALSE] /\ GotoEffect(c, "children", n)
    <2>1. /\ md'[n] = m /\ (\A k \in Node : k # n => md'[k] = md[k])
          /\ obj'[c][n].md = m /\ obj'[c][n].current /\ (\A k \in Node : k # n => obj'[c][k] = obj[c][k])
          /\ (\A d \in Client : d # c => obj'[d][n].md = obj[d][n].md /\ obj'[d][n].current = FALSE
                                         /\ obj'[d][n].cached = obj[d][n].cached)
          /\ \A d \in Client, k \in Node : k # n => obj'[d][k] = obj[d][k]
      BY <1>4 DEF PutEffect
    <2>2. /\ req'[c].pc = "children" /\ req'[c].op = req[c].op /\ req'[c].target = n
          /\ \A d \in Client : d # c => req'[d] = req[d]
      BY <1>2, <1>4 DEF GotoEffect
    <2>3. /\ n \in Dir \ {0} /\ n \in Nat /\ snap[c] = Len(log) /\ Found(c).exists
          /\ Covers(log, Found(c).verified, Len(log), n)
      BY <1>0, <1>2, Nodes DEF ChangeOK, LookupOK
    <2>4. \A d \in Client : d # c => ~ChangesPerm(d) /\ ~InChange(d)
      BY <1>0, <1>2, OthersNotChanging
    <2>5. Pending = {}
      BY <1>0, <1>2, NothingPending
    <2>6. Newest' = Newest
      <3>1. Forcing' = Forcing
        BY <1>2, <2>2 DEF Forcing
      <3> QED
        BY <1>2, <3>1 DEF Newest
    <2>7. Exact(md, m.pp, n) /\ Exact(md, m.pp \cup m.ppc, n + 1)
      <3>1. Good(md, log, {}, Found(c), n)
        BY <1>0, <1>2, <2>5 DEF SlotOK, Known
      <3> QED
        BY <1>2, <2>3, <3>1 DEF Good
    <2>8. n \in Pending' \/ Computed(m)
      <3>1. Found(c)' = m
        BY <2>1, <2>2 DEF Found
      <3>2. PendingAt(c)' \/ Computed(m)
        BY <2>2, <3>1 DEF PendingAt, Computed
      <3> QED
        BY <2>2, <3>2 DEF Pending
    <2>9. /\ md[n].pp = m.pp /\ md[n].ppc = m.ppc /\ md[n].verified = m.verified /\ md[n].exists /\ m.exists
          /\ m.perm \in Perms
      <3>1. md[n].pp = m.pp /\ md[n].ppc = m.ppc /\ md[n].verified = m.verified
        BY <1>0, <1>2, <1>4 DEF SlotOK
      <3>2. md[n].exists /\ m.exists
        BY <1>0, <1>2, <1>4 DEF TypeInv, Held
      <3> QED
        BY <3>1, <3>2 DEF MD
    <2>10. ASSUME NEW x, NEW k \in Node, Known(md, log, Pending, Newest, x, k)
           PROVE  Known(md', log', Pending', Newest', x, k)
      <3>1. \A d \in Dir : d # n => md'[d].perm = md[d].perm
        BY <2>1, Nodes
      <3>2. \A d \in Node : md'[d].verified = md[d].verified /\ (md[d].exists => md'[d].exists)
        BY <2>1, <2>9
      <3>3. md'[n].perm = m.perm
        BY <2>1
      <3>4. Known(md, log, {}, Newest, x, k)
        BY <2>5, <2>10
      <3>5. Known(md', log, Pending', Newest, x, k)
        BY <2>7, <2>8, <2>9, <3>1, <3>2, <3>3, <3>4, KnownChanged
      <3> QED
        BY <1>2, <2>6, <3>5
    <2>11. Known(md', log', Pending', Newest', m, n)
      <3>1. Known(md, log, Pending, Newest, md[n], n)
        BY <1>0 DEF Stored
      <3>2. Known(md, log, Pending, Newest, m, n)
        BY <2>9, <3>1 DEF Known, Good
      <3> QED
        BY <2>10, <3>2
    <2>12. Stored'
      <3>1. ASSUME NEW k \in Node
            PROVE  Known(md', log', Pending', Newest', md'[k], k)
        <4>1. CASE k = n
          BY <2>1, <2>11, <4>1
        <4>2. CASE k # n
          <5>1. Known(md, log, Pending, Newest, md[k], k)
            BY <1>0 DEF Stored
          <5>2. Known(md', log', Pending', Newest', md[k], k)
            BY <2>10, <5>1
          <5> QED
            BY <2>1, <4>2, <5>2
        <4> QED
          BY <4>1, <4>2
      <3> QED
        BY <3>1 DEF Stored
    <2>13. ASSUME NEW d \in Client, NEW k \in Node, k # n \/ d # c
           PROVE  SlotOK(d, k)'
      <3>1. SlotOK(d, k)
        BY DEF PathInv, ClientOK
      <3> DEFINE x == obj[d][k].md
      <3>2. Known(md', log', Pending', Newest', x, k)
        BY <2>10, <3>1 DEF SlotOK
      <3>3. obj'[d][k].md = x /\ obj'[d][k].cached = obj[d][k].cached
        BY <2>1, <2>13
      <3>4. obj'[d][k].current => obj[d][k].current /\ md'[k] = md[k]
        BY <2>1, <2>13
      <3>5. req[d].pc \notin {"log", "force"}
        BY <1>2, <2>4 DEF InChange
      <3> QED
        BY <3>1, <3>2, <3>3, <3>4, <3>5 DEF SlotOK
    <2>14. Own'
      <3> SUFFICES ASSUME NEW k \in Dir, ~ForcedAt(k)'
                   PROVE  OwnCovered(log, md'[k].verified, k)
        BY <1>2 DEF Own
      <3>1. ~ForcedAt(k)
        BY <1>2, <2>2 DEF ForcedAt
      <3>2. md'[k].verified = md[k].verified
        BY <2>1, <2>9, Nodes
      <3> QED
        BY <1>0, <3>1, <3>2 DEF Own
    <2>15. ASSUME NEW d \in Client, d # c
           PROVE  ClientOK(d)'
      <3>1. /\ LookupOK(d) /\ req'[d] = req[d] /\ ~calm'[d]
            /\ ~ChangesPerm(d) /\ ~InChange(d) /\ ~ChangesPerm(d)' /\ ~InChange(d)'
        BY <1>4, <2>2, <2>4, <2>15 DEF PathInv, ClientOK, ChangesPerm, InChange
      <3>2. \A k \in Node : obj'[d][k].md = obj[d][k].md
        BY <2>1, <2>15
      <3>3. req[d].target \in Node /\ req[d].at \in Node /\ (req[d].pc = "inherit" => req[d].at - 1 \in Node)
        <4>1. req[d].target \in Node /\ req[d].at \in Node /\ (req[d].pc = "inherit" => req[d].at >= 1)
          BY <1>0 DEF TypeInv, Shape, Req, Requests, RequestOK
        <4> QED
          BY <4>1 DEF Node
      <3>4. Found(d)' = Found(d)
        BY <3>1, <3>2, <3>3 DEF Found
      <3>5. LookupOK(d)'
        BY <1>2, <3>1, <3>2, <3>3, <3>4 DEF LookupOK
      <3>6. ChangeOK(d)'
        BY <3>1 DEF ChangeOK, InChange
      <3> QED
        BY <2>13, <2>15, <3>5, <3>6 DEF ClientOK
    <2>16. ClientOK(c)'
      <3>1. Found(c)' = m
        BY <2>1, <2>2 DEF Found
      <3>2. SlotOK(c, n)'
        BY <2>1, <2>9, <2>11 DEF SlotOK
      <3>3. LookupOK(c)'
        BY <2>2, <2>9, <3>1 DEF LookupOK
      <3>4. RemovalInRange(m.perm, m.pp)
        BY <1>4 DEF Avoided, Careful
      <3>5. Exact(md', m.pp, n)
        <4>1. \A d \in 0 .. n - 1 : md'[d].perm = md[d].perm
          <5>1. \A d \in 0 .. n - 1 : d \in Node /\ d # n
            BY <2>3 DEF Node
          <5> QED
            BY <2>1, <5>1
        <4> QED
          BY <2>3, <2>7, <4>1, ExactSame
      <3>6. ~calm'[c]
        BY <1>4
      <3>7. ChangeOK(c)'
        <4>1. RemovalInRange(Found(c)'.perm, Found(c)'.pp)
          BY <3>1, <3>4
        <4>2. Covers(log', md'[n].verified, Len(log'), n)
          BY <1>2, <2>1, <2>3
        <4>3. Exact(md', Found(c)'.pp, n) /\ Found(c)'.perm = md'[n].perm
          BY <2>1, <3>1, <3>5
        <4>4. ChangesPerm(c)' => n \in Dir \ {0} /\ snap'[c] = Len(log')
          BY <1>2, <2>3
        <4> QED
          BY <2>1, <2>2, <3>6, <4>1, <4>2, <4>3, <4>4 DEF ChangeOK, InChange
      <3> QED
        BY <2>13, <3>2, <3>3, <3>7 DEF ClientOK
    <2>17. LogOK' /\ Alone'
      <3>1. Alone'
        BY <1>0, <2>2, AloneKept DEF ChangesPerm
      <3> QED
        BY <1>0, <1>2, <3>1 DEF LogOK
    <2>18. \A d \in Client : ClientOK(d)'
      BY <2>15, <2>16
    <2> QED
      BY <2>12, <2>14, <2>17, <2>18 DEF PathInv
  <1> QED
    BY <1>1, <1>3, <1>4 DEF PutPermissionsCases

-----------------------------------------------------------------------------
(* PathInv is inductive.                                                   *)

LEMMA OpenEnters == \A u : Enters(Open, u)
  BY DEF Enters, Open

LEMMA MadeExact ==
  ASSUME Careful, NEW p \in [Node \ {0} -> Perm], NEW s,
         \A d \in Dir : s[d].perm = Made(p)[d].perm,
         NEW n \in Node
  PROVE  /\ Exact(s, Made(p)[n].pp, n)
         /\ n \in Dir => Exact(s, Made(p)[n].pp \cup Made(p)[n].ppc, n + 1)
  <1> DEFINE Above(k) == UNION {Range(Restrictions(p[d])) : d \in 1 .. k - 1}
             New(k) == [NewFile(p[k]) EXCEPT !.pp = Above(k)]
  <1>1. \A k \in Node : Made(p)[k] = IF k = 0 THEN Root
                                     ELSE IF k \in Dir THEN computePathPermissionChildren(New(k))
                                     ELSE New(k)
    BY DEF Made
  <1>2. ASSUME NEW k \in Node, k # 0
        PROVE  /\ Made(p)[k].perm = p[k] /\ Made(p)[k].pp = Above(k)
               /\ k \in Dir => Made(p)[k].ppc = Range(Restrictions(p[k])) \ Above(k)
    <2> DEFINE A == Above(k)
               q == p[k]
               M == [perm : {q}, pp : {{}, A}, ppc : {{}}, verified : {0}, exists : {TRUE}]
               h == NewFile(q)
               f == [h EXCEPT !.pp = A]
    <2>1. New(k) = f
      OBVIOUS
    <2> HIDE DEF A, q
    <2>2. h \in M
      BY DEF NewFile
    <2> HIDE DEF h
    <2>3. f \in M /\ f.perm = q /\ f.pp = A
      BY <2>2
    <2> HIDE DEF f
    <2>4. /\ computePathPermissionChildren(f).perm = q /\ computePathPermissionChildren(f).pp = A
          /\ computePathPermissionChildren(f).ppc = Range(Restrictions(q)) \ A
      BY <2>3 DEF computePathPermissionChildren
    <2> QED
      BY <1>1, <1>2, <2>1, <2>3, <2>4 DEF A, q
  <1>3. s[0].perm = Open /\ 0 \in Dir
    <2>1. Made(p)[0] = Root /\ 0 \in Dir
      BY <1>1, Nodes
    <2> QED
      BY <2>1 DEF Root
  <1>4. n \in Nat /\ \A d \in 1 .. n - 1 : d \in Node /\ d \in Dir /\ d # 0
    BY DEF Node, Dir
  <1>5. CASE n = 0
    <2>0. Made(p)[n] = Root
      BY <1>1, <1>5
    <2>1. Made(p)[n].pp = {} /\ Made(p)[n].ppc = {}
      BY <2>0 DEF Root
    <2>2. \A u : check_path_permissions({}, u)
      BY DEF check_path_permissions
    <2>3. \A u : Passes(s, 0, u) /\ Passes(s, 1, u)
      <3>1. 0 .. 0 - 1 = {} /\ 0 .. 1 - 1 = {0}
        OBVIOUS
      <3> QED
        BY <1>3, <3>1, OpenEnters DEF Passes
    <2> QED
      BY <1>5, <2>1, <2>2, <2>3 DEF Exact
  <1>6. CASE n # 0
    <2> DEFINE m == Made(p)[n]
    <2>1. m.perm = p[n] /\ m.pp = Above(n) /\ (n \in Dir => m.ppc = Range(Restrictions(p[n])) \ Above(n))
      BY <1>2, <1>6
    <2>2. ASSUME NEW u
          PROVE  check_path_permissions(Above(n), u) <=> Passes(s, n, u)
      <3>1. check_path_permissions(Above(n), u)
              <=> \A d \in 1 .. n - 1 : check_path_permissions(Range(Restrictions(p[d])), u)
        BY DEF check_path_permissions
      <3>2. \A d \in 1 .. n - 1 : /\ p[d] \in Perms /\ s[d].perm = p[d]
                                  /\ check_path_permissions(Range(Restrictions(p[d])), u) <=> Enters(s[d].perm, u)
        <4> SUFFICES ASSUME NEW d \in 1 .. n - 1
                     PROVE  /\ p[d] \in Perms /\ s[d].perm = p[d]
                            /\ check_path_permissions(Range(Restrictions(p[d])), u) <=> Enters(s[d].perm, u)
          OBVIOUS
        <4>1. d \in Node /\ d \in Dir /\ d # 0
          BY <1>4
        <4>2. p[d] \in Perms
          BY <4>1, OpenPerm
        <4>3. s[d].perm = p[d]
          BY <1>2, <4>1
        <4> QED
          BY <4>2, <4>3, EntersExact
      <3>3. 0 .. n - 1 = {0} \cup (1 .. n - 1)
        BY <1>4, <1>6
      <3>4. Passes(s, n, u) <=> \A d \in 1 .. n - 1 : Enters(s[d].perm, u)
        BY <1>3, <3>3, OpenEnters DEF Passes
      <3> QED
        BY <3>1, <3>2, <3>4
    <2>3. Exact(s, m.pp, n)
      BY <2>1, <2>2 DEF Exact
    <2>4. n \in Dir => Exact(s, m.pp \cup m.ppc, n + 1)
      <3> SUFFICES ASSUME n \in Dir
                   PROVE  Exact(s, m.pp \cup m.ppc, n + 1)
        OBVIOUS
      <3>1. Computed(m) /\ s[n].perm = m.perm
        BY <2>1 DEF Computed
      <3>2. m.perm \in Perms
        BY <1>6, <2>1, OpenPerm
      <3> HIDE DEF m
      <3> QED
        BY <1>4, <2>3, <3>1, <3>2, ExactBelow
    <2> QED
      BY <2>3, <2>4
  <1> QED
    BY <1>5, <1>6

LEMMA PathInitial == Careful /\ Init => PathInv
  <1> SUFFICES ASSUME Careful, Init
               PROVE  PathInv
    OBVIOUS
  <1>0. TypeInv
    BY TypeInit
  <1>1. PICK p \in [Node \ {0} -> Perm], created \in BOOLEAN :
            md = [n \in Node |-> IF n = Depth /\ ~created THEN Missing ELSE Made(p)[n]]
    BY DEF Init
  <1>2. Len(log) = 0 /\ log \in Seq(Dir) /\ 1 .. Len(log) = {}
    <2>1. log = <<>>
      BY DEF Init
    <2> QED
      BY <1>0, <2>1 DEF TypeInv, Shape
  <1>3. /\ \A c \in Client : /\ req[c].op = "none" /\ req[c].pc = "idle" /\ ~calm[c]
                             /\ \A n \in Node : obj[c][n] = NoObject
    <2>1. \A c \in Client : req[c] = NoRequest /\ ~calm[c] /\ \A n \in Node : obj[c][n] = NoObject
      BY DEF Init
    <2> QED
      BY <2>1, Constants
  <1>4. \A c \in Client : ~PendingAt(c) /\ ~InChange(c) /\ ~ChangesPerm(c) /\ req[c].pc # "force"
    BY <1>3 DEF PendingAt, InChange, ChangesPerm
  <1>5. Pending = {} /\ Newest = 0
    BY <1>2, <1>4 DEF Pending, Newest, Forcing
  <1>6. \A n \in Node : md[n] = Missing \/ md[n] = Made(p)[n]
    BY <1>1
  <1>7. \A n \in Dir : md[n] = Made(p)[n]
    <2>1. \A n \in Dir : n \in Node /\ n # Depth
      BY Nodes
    <2> QED
      BY <1>1, <2>1
  <1>9. ASSUME NEW n \in Node
        PROVE  Known(md, log, Pending, Newest, Missing, n)
    BY <1>5, Constants DEF Known, Good
  <1>10. ASSUME NEW n \in Node
         PROVE  Known(md, log, Pending, Newest, md[n], n)
    <2>1. CASE md[n] = Missing
      BY <1>9, <2>1
    <2>2. CASE md[n] = Made(p)[n]
      <3>1. Exact(md, md[n].pp, n) /\ (n \in Dir => Exact(md, md[n].pp \cup md[n].ppc, n + 1))
        BY <1>7, <2>2, MadeExact
      <3>2. md[n].verified <= Newest
        BY <1>0, <1>2, <1>5 DEF TypeInv, Versions
      <3> QED
        BY <3>1, <3>2 DEF Known, Good
    <2> QED
      BY <1>6, <2>1, <2>2
  <1>11. Stored
    BY <1>10 DEF Stored
  <1>12. Own
    BY <1>2 DEF Own, OwnCovered
  <1>13. ASSUME NEW c \in Client
         PROVE  ClientOK(c)
    <2>1. ASSUME NEW n \in Node
          PROVE  SlotOK(c, n)
      <3>1. obj[c][n].md = Missing /\ obj[c][n].cached = FALSE /\ obj[c][n].current = FALSE
        BY <1>3, Constants
      <3> QED
        BY <1>9, <3>1 DEF SlotOK
    <2>2. LookupOK(c)
      BY <1>3 DEF LookupOK
    <2>3. ChangeOK(c)
      BY <1>3, <1>4 DEF ChangeOK
    <2> QED
      BY <2>1, <2>2, <2>3 DEF ClientOK
  <1>14. LogOK /\ Alone
    BY <1>2, <1>4 DEF LogOK, Alone
  <1> QED
    BY <1>0, <1>11, <1>12, <1>13, <1>14 DEF PathInv

LEMMA PathStutter ==
  ASSUME PathInv, TypeInv', UNCHANGED vars
  PROVE  PathInv'
  <1>0. UNCHANGED <<md, log, snap, obj, req, calm>>
    BY DEF vars
  <1>1. Pending' = Pending /\ Newest' = Newest
    BY <1>0 DEF Pending, PendingAt, Found, Computed, Newest, Forcing
  <1>2. LogOK' /\ Alone' /\ Stored'
    BY <1>0, <1>1 DEF PathInv, LogOK, Alone, ChangesPerm, Stored
  <1>3. Own'
    BY <1>0 DEF PathInv, Own, ForcedAt
  <1>4. ASSUME NEW c \in Client
        PROVE  ClientOK(c)'
    <2>1. \A n \in Node : SlotOK(c, n)'
      BY <1>0, <1>1 DEF PathInv, ClientOK, SlotOK
    <2>2. LookupOK(c)'
      BY <1>0 DEF PathInv, ClientOK, LookupOK, Found, ChangesPerm
    <2>3. ChangeOK(c)'
      BY <1>0 DEF PathInv, ClientOK, ChangeOK, Found, ChangesPerm, InChange, Computed, RemovalInRange
    <2> QED
      BY <2>1, <2>2, <2>3 DEF ClientOK
  <1> QED
    BY <1>2, <1>3, <1>4 DEF PathInv

LEMMA PathUpdate ==
  ASSUME PathInv, TypeInv', NEW c \in Client, Update(c)
  PROVE  PathInv'
  <1>0. TypeInv /\ Alone /\ ChangeOK(c)
    BY DEF PathInv, ClientOK
  <1>1. /\ req[c].pc = "idle" /\ UNCHANGED <<md, log, obj, req, ended, calm>>
        /\ snap'[c] = Len(log) /\ \A d \in Client : d # c => snap'[d] = snap[d]
    BY <1>0 DEF Update, TypeInv, Shape
  <1>2. \A d \in Client : d # c => Beside(d)
    BY <1>1 DEF Beside
  <1>3. ~PendingAt(c) /\ ~InChange(c) /\ ~InChange(c)'
    BY <1>1 DEF PendingAt, InChange
  <1>4. Frame
    BY <1>0, <1>1, <1>2, <1>3, SameFrame, FrameOf
  <1>5. \A n \in Node : SlotOK(c, n)'
    BY <1>1, <1>4, SlotKept
  <1>6. LookupOK(c)'
    BY <1>1 DEF LookupOK
  <1>7. ChangeOK(c)'
    BY <1>0, <1>1, <1>3 DEF ChangeOK, ChangesPerm, InChange
  <1>8. ClientOK(c)'
    BY <1>5, <1>6, <1>7 DEF ClientOK
  <1>9. Alone'
    BY <1>0, <1>1, AloneKept DEF ChangesPerm
  <1> QED
    BY <1>1, <1>2, <1>3, <1>4, <1>8, <1>9, QuietStep

LEMMA PathInheritAny ==
  ASSUME Careful, PathInv, TypeInv', NEW c \in Client, Inherit(c)
  PROVE  PathInv'
  <1>0. TypeInv /\ LookupOK(c)
    BY DEF PathInv, ClientOK
  <1>1. PICK n \in Node, m \in MD : InheritCases(c, n, m)
    BY <1>0, InheritFacts
  <1>2. CASE obj[c][n].current /\ PutEffect(c, n, m, obj[c][n].cached) /\ VerifiedNext(c, n)
    BY <1>1, <1>2, PathInherit
  <1>3. CASE SetEffect(c, n, NoObject) /\ GotoEffect(c, "lookup", n) /\ md' = md
    <2>1. req[c].pc = "inherit" /\ n = req[c].at /\ UNCHANGED <<log, snap, calm>> /\ ~InChange(c)
      BY <1>1 DEF InheritCases, InChange
    <2>2. /\ req'[c].pc = "lookup" /\ req'[c].at = n /\ req'[c].op = req[c].op /\ req'[c].target = req[c].target
          /\ \A d \in Client : d # c => req'[d] = req[d]
      BY <1>3 DEF GotoEffect
    <2>3. LookupOK(c)'
      <3>1. ASSUME NEW k \in Node, k <= req[c].target, k > n
            PROVE  ~Covers(log, obj'[c][k].md.verified, snap[c], k)
        <4>1. k # n
          BY <3>1, Nodes
        <4>2. obj'[c][k] = obj[c][k]
          BY <1>3, <4>1 DEF SetEffect
        <4> QED
          BY <1>0, <2>1, <3>1, <4>2 DEF LookupOK
      <3> QED
        BY <2>1, <2>2, <3>1 DEF LookupOK
    <2> QED
      BY <1>3, <2>1, <2>2, <2>3, Constants, PathMove
  <1> QED
    BY <1>1, <1>2, <1>3 DEF InheritCases

LEMMA PathBegin ==
  ASSUME Careful, PathInv, TypeInv', NEW c \in Client, Access(c) \/ AddName(c) \/ ChangePermissions(c)
  PROVE  PathInv'
  <1>0. Shape /\ Dir \subseteq Node
    BY Nodes DEF PathInv, TypeInv
  <1>1. CASE Access(c)
    <2>1. PICK n \in Node : Start(c, "access", n, Open)
      BY <1>1 DEF Access
    <2>2. StartEffect(c, "access", n)
      BY <1>0, <2>1, OpenPerm, StartFacts
    <2> QED
      BY <2>2, PathStart
  <1>2. CASE AddName(c)
    <2>1. PICK n \in Dir : Start(c, "add", n, Open)
      BY <1>2 DEF AddName
    <2>2. n \in Node /\ StartEffect(c, "add", n)
      BY <1>0, <2>1, OpenPerm, StartFacts
    <2> QED
      BY <2>2, PathStart
  <1>3. CASE ChangePermissions(c)
    <2>1. PICK op \in {"chmod", "chown"}, n \in Dir, p \in Perm :
              /\ Avoided("root", n = 0)
              /\ Avoided("old snapshot", snap[c] # Len(log) \/ \E d \in Client : req[d].op \in {"chmod", "chown"})
              /\ Start(c, op, n, p)
      BY <1>3 DEF ChangePermissions
    <2>2. n \in Node /\ StartEffect(c, op, n)
      BY <1>0, <2>1, OpenPerm, StartFacts
    <2>3. n \in Dir \ {0} /\ snap[c] = Len(log) /\ \A d \in Client : ~ChangesPerm(d)
      BY <2>1 DEF Careful, Avoided, ChangesPerm
    <2> QED
      BY <2>2, <2>3, PathStart
  <1> QED
    BY <1>1, <1>2, <1>3

LEMMA PathStep == Careful /\ PathInv /\ [Next]_vars => PathInv'
  <1> SUFFICES ASSUME Careful, PathInv, [Next]_vars
               PROVE  PathInv'
    OBVIOUS
  <1>0. TypeInv /\ Shape /\ TypeInv'
    <2>1. TypeInv
      BY DEF PathInv
    <2> QED
      BY <2>1, TypeStep DEF TypeInv
  <1>1. ASSUME NEW c \in Client, Access(c) \/ AddName(c) \/ ChangePermissions(c)
        PROVE  PathInv'
    BY <1>0, <1>1, PathBegin
  <1>2. ASSUME NEW c \in Client, lookup(c)
        PROVE  PathInv'
    BY <1>0, <1>2, PathLookup
  <1>3. ASSUME NEW c \in Client, Inherit(c)
        PROVE  PathInv'
    BY <1>0, <1>3, PathInheritAny
  <1>4. ASSUME NEW c \in Client, InheritEnds(c) \/ Crash(c)
        PROVE  PathInv'
    <2>1. Remount(c) /\ md' = md /\ log' = log
      BY <1>4 DEF InheritEnds, Crash, Ends
    <2>2. ~InChange(c)
      BY <1>4 DEF InheritEnds, Crash, Careful, Avoided, InChange
    <2>3. RemountEffect(c)
      BY <1>0, <2>1, RemountFacts
    <2> QED
      BY <1>0, <2>1, <2>2, <2>3, PathRemount
  <1>5. ASSUME NEW c \in Client, Return(c)
        PROVE  PathInv'
    <2>1. req[c].pc = "found" /\ Done(c, obj[c]) /\ UNCHANGED <<md, log, snap>>
      BY <1>5 DEF Return
    <2>2. DoneEffect(c, obj[c])
      BY <1>0, <2>1, DoneFacts DEF Shape
    <2>3. ~PendingAt(c) /\ req[c].pc \notin {"log", "force"}
      BY <2>1 DEF PendingAt
    <2> QED
      BY <1>0, <2>1, <2>2, <2>3, PathDone
  <1>6. ASSUME NEW c \in Client, PutPermissions(c)
        PROVE  PathInv'
    BY <1>0, <1>6, PathPutPermissions
  <1>7. ASSUME NEW c \in Client, ComputeChildren(c)
        PROVE  PathInv'
    BY <1>0, <1>7, PathComputeChildren
  <1>8. ASSUME NEW c \in Client, LogChange(c)
        PROVE  PathInv'
    BY <1>0, <1>8, PathLogChange
  <1>9. ASSUME NEW c \in Client, PutVerified(c)
        PROVE  PathInv'
    BY <1>0, <1>9, PathPutVerified
  <1>10. ASSUME NEW c \in Client, PutTimes(c)
         PROVE  PathInv'
    BY <1>0, <1>10, PathPutTimes
  <1>11. ASSUME NEW c \in Client, CreateFile(c)
         PROVE  PathInv'
    BY <1>0, <1>11, PathCreate
  <1>12. ASSUME NEW c \in Client, Update(c)
         PROVE  PathInv'
    BY <1>0, <1>12, PathUpdate
  <1>13. CASE UNCHANGED vars
    BY <1>0, <1>13, PathStutter
  <1> QED
    BY <1>1, <1>2, <1>3, <1>4, <1>5, <1>6, <1>7, <1>8, <1>9, <1>10, <1>11, <1>12, <1>13 DEF Next

\* Stored entries that no change in the log is newer than let exactly those users
\* pass that all directories above let pass, unless one of these is being changed:
\* for any number of clients, changes and crashes, any path and any permissions
\* with an x bit, in all situations but those named in Careful (lookup.cc,
\* step 4, and do_permission_change).
THEOREM VerifiedIsCurrentCorrect ==
  ASSUME Careful
  PROVE  Spec => []VerifiedIsCurrent
  <1>1. PathInv => VerifiedIsCurrent
    <2> SUFFICES ASSUME PathInv, NEW n \in Node, md[n].exists, md[n].verified >= Required(Len(log), n),
                        \A d \in 0 .. n - 1 : ~Changing(d), NEW u \in User
                 PROVE  check_path_permissions(md[n].pp, u) <=> Reaches(n, u)
      BY DEF VerifiedIsCurrent
    <2>0. TypeInv /\ LogOK /\ Stored /\ n \in Nat
      BY Nodes DEF PathInv
    <2>1. Covers(log, md[n].verified, Len(log), n)
      <3>1. Len(log) \in Nat /\ md[n].verified \in Nat
        BY <2>0 DEF TypeInv, Shape, MD
      <3> QED
        BY <2>0, <3>1, RequiredCovers DEF LogOK
    <2>2. ASSUME NEW d \in Pending
          PROVE  d >= n
      <3>1. PICK c \in Client : PendingAt(c) /\ d = req[c].target
        BY <2>2 DEF Pending
      <3>2. Changing(d)
        BY <3>1 DEF PendingAt, Changing
      <3>3. d \in Nat
        BY <2>0, <3>1, Nodes DEF TypeInv, Shape, Req
      <3> QED
        BY <2>0, <3>2, <3>3
    <2>3. Exact(md, md[n].pp, n)
      BY <2>0, <2>1, <2>2 DEF Stored, Known, Good
    <2> QED
      BY <2>3 DEF Exact, Passes, Reaches
  <1>2. Init => PathInv
    BY PathInitial
  <1>3. PathInv /\ [Next]_vars => PathInv'
    BY PathStep
  <1> QED
    BY <1>1, <1>2, <1>3, PTL DEF Spec

\* A lookup by a client that had seen all changes when it began, and during which
\* no directory is changed, lets exactly those users pass that all directories
\* above let pass, whatever the client has in its cache and however stale it or
\* the drives are (lookup.cc): under the same conditions.
THEOREM LookupEnforcesCorrect ==
  ASSUME Careful
  PROVE  Spec => []LookupEnforces
  <1>1. PathInv => LookupEnforces
    <2> SUFFICES ASSUME PathInv, NEW c \in Client, calm[c], req[c].pc = "found", NEW u \in User
                 PROVE  check_path_permissions(Found(c).pp, u) <=> Reaches(req[c].target, u)
      BY DEF LookupEnforces
    <2>0. TypeInv /\ LookupOK(c) /\ ChangeOK(c) /\ \A n \in Node : SlotOK(c, n)
      BY DEF PathInv, ClientOK
    <2>1. Pending = {}
      BY <2>0 DEF ChangeOK, InChange, Pending, PendingAt
    <2>2. Found(c).exists /\ Covers(log, Found(c).verified, Len(log), req[c].target)
      BY <2>0 DEF LookupOK
    <2>3. Good(md, log, Pending, Found(c), req[c].target)
      BY <2>0, TargetType DEF SlotOK, Known
    <2>4. Exact(md, Found(c).pp, req[c].target)
      BY <2>1, <2>2, <2>3 DEF Good
    <2> QED
      BY <2>4 DEF Exact, Passes, Reaches
  <1>2. Init => PathInv
    BY PathInitial
  <1>3. PathInv /\ [Next]_vars => PathInv'
    BY PathStep
  <1> QED
    BY <1>1, <1>2, <1>3, PTL DEF Spec
=============================================================================
