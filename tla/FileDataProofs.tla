--------------------------- MODULE FileDataProofs ---------------------------
(***************************************************************************)
(* Proofs about the cached blocks of a file, for any number of clients,    *)
(* any block and file size and any number of requests and faults.          *)
(***************************************************************************)
EXTENDS FileData, Integers, NaturalsInduction, WellFoundedInduction, TLAPS

USE SizeAssumption

-----------------------------------------------------------------------------
(* Cells and blocks.                                                       *)

\* A cell is in one block, at one place.
LEMMA Division ==
  ASSUME NEW o \in Nat
  PROVE  /\ BlockOf(o) \in Nat /\ InBlock(o) \in Nat
         /\ InBlock(o) < BlockSize /\ o = BlockSize * BlockOf(o) + InBlock(o)
  BY DEF BlockOf, InBlock

\* Where a cell is, is determined by its place in the file.
LEMMA Place ==
  ASSUME NEW o \in Nat, NEW b \in Nat, NEW i \in Nat, i < BlockSize, o = BlockSize * b + i
  PROVE  BlockOf(o) = b /\ InBlock(o) = i
  <1> DEFINE q == BlockOf(o)
             r == InBlock(o)
  <1>1. q \in Nat /\ r \in Nat /\ r < BlockSize /\ BlockSize * q + r = BlockSize * b + i
    BY Division
  <1> HIDE DEF q, r
  <1>2. BlockSize \in Nat
    OBVIOUS
  <1>3. BlockSize * (q - b) = i - r
    BY <1>1, <1>2
  <1>4. ~(q > b)
    <2> SUFFICES ASSUME q - b >= 1 PROVE FALSE
      BY <1>1
    <2> QED
      BY <1>1, <1>2, <1>3
  <1>5. ~(q < b)
    <2> SUFFICES ASSUME b - q >= 1 PROVE FALSE
      BY <1>1
    <2> QED
      BY <1>1, <1>2, <1>3
  <1> QED
    BY <1>1, <1>2, <1>3, <1>4, <1>5 DEF q, r

LEMMA Blocks ==
  ASSUME NEW o \in Offset
  PROVE  o \in Nat /\ BlockOf(o) \in Block /\ BlockOf(o) < NBlocks
  <1>1. o \in Nat /\ o < BlockSize * NBlocks
    BY DEF Offset, FileSize
  <1> DEFINE q == BlockOf(o)
             r == InBlock(o)
  <1>2. q \in Nat /\ r \in Nat /\ r < BlockSize /\ o = BlockSize * q + r
    BY <1>1, Division
  <1> HIDE DEF q, r
  <1>3. BlockSize * q < BlockSize * NBlocks
    BY <1>1, <1>2
  <1>4. q < NBlocks
    BY <1>2, <1>3
  <1> QED
    BY <1>1, <1>2, <1>4 DEF Block, q

\* A cell before another is not in a later block.
LEMMA Before ==
  ASSUME NEW o \in Nat, NEW p \in Nat, o < p
  PROVE  BlockOf(o) <= BlockOf(p)
  <1> DEFINE q == BlockOf(o)
             r == InBlock(o)
             qq == BlockOf(p)
             rr == InBlock(p)
  <1>1. /\ q \in Nat /\ r \in Nat /\ r < BlockSize /\ o = BlockSize * q + r
        /\ qq \in Nat /\ rr \in Nat /\ rr < BlockSize /\ p = BlockSize * qq + rr
    BY Division
  <1> HIDE DEF q, r, qq, rr
  <1>2. BlockSize * (q - qq) < BlockSize
    BY <1>1
  <1>3. ~(q - qq >= 1)
    BY <1>1, <1>2
  <1> QED
    BY <1>1, <1>3 DEF q, qq

\* The cells of a write lie in the block where it begins.
LEMMA RequestPlace ==
  ASSUME NEW off \in Offset, NEW n \in 0 .. BlockSize,
         NEW o \in off .. off + InBlockSize(off, n) - 1
  PROVE  /\ o \in Offset /\ BlockOf(o) = BlockOf(off)
         /\ Covers(<<InBlock(off), InBlockSize(off, n)>>, InBlock(o))
  <1> DEFINE b == BlockOf(off)
             i == InBlock(off)
             k == InBlockSize(off, n)
  <1>1. off \in Nat /\ b \in Nat /\ b < NBlocks
    BY Blocks DEF Block
  <1>2. i \in Nat /\ i < BlockSize /\ off = BlockSize * b + i
    BY <1>1, Division
  <1>3. k \in Nat /\ k <= BlockSize - i
    BY <1>2 DEF InBlockSize, Smaller
  <1> HIDE DEF b, i, k
  <1>4. o \in Nat /\ off <= o /\ o < off + k
    BY <1>1, <1>3 DEF k
  <1>5. o - off + i \in Nat /\ o - off + i < i + k /\ o - off + i < BlockSize /\ o - off + i >= i
    BY <1>1, <1>2, <1>3, <1>4
  <1>6. o = BlockSize * b + (o - off + i)
    BY <1>1, <1>2, <1>4
  <1>7. BlockOf(o) = b /\ InBlock(o) = o - off + i
    BY <1>1, <1>4, <1>5, <1>6, Place
  <1>8. o < BlockSize * NBlocks
    <2>1. o < BlockSize * b + BlockSize
      BY <1>1, <1>4, <1>5, <1>6
    <2>2. BlockSize * b + BlockSize <= BlockSize * NBlocks
      BY <1>1
    <2>3. BlockSize * b \in Nat /\ BlockSize * NBlocks \in Nat
      BY <1>1
    <2> QED
      BY <2>1, <2>2, <2>3, <1>4
  <1>9. o \in Offset
    BY <1>4, <1>8 DEF Offset, FileSize
  <1>10. Covers(<<i, k>>, InBlock(o))
    BY <1>5, <1>7 DEF Covers
  <1> QED
    BY <1>7, <1>9, <1>10 DEF b, i, k

-----------------------------------------------------------------------------
(* Shapes.  Nothing is said about the cells of a block: what is proved does *)
(* not depend on them.                                                      *)

Labels == {"idle", "block", "fsync", "putmd", "putdata", "getdata", "stored", "again",
           "truncate", "cut", "delete"}
Flushing == {"putmd", "putdata", "getdata", "stored"}
Updates == Seq(Nat \X Nat)

IsBlock(x) ==
    /\ DOMAIN x = {"version", "d", "updates", "cached"}
    /\ x.updates \in Updates /\ x.cached \in BOOLEAN
    /\ ~x.cached => x.updates = <<>>

IsMd(x) ==
    /\ DOMAIN x = {"size", "version", "dirty", "cached"}
    /\ x = [f \in DOMAIN x |-> x[f]]
    /\ x.dirty \in Block /\ x.cached \in BOOLEAN

Requests == [op : {"none", "read", "write", "fsync", "truncate"}, off : Offset,
             len : 0 .. BlockSize, append : BOOLEAN]

Shape ==
    /\ DOMAIN di = Client /\ DOMAIN mdi = Client
    /\ \A c \in Client : /\ DOMAIN di[c] = Block /\ IsMd(mdi[c])
                         /\ \A b \in Block : IsBlock(di[c][b])
    /\ pc \in [Client -> Labels]
    /\ req \in [Client -> Requests]
    /\ ret \in [Client -> {"none", "done", "setdirty", "written", "truncate", "cut"}]
    /\ current \in [Client -> Nat]
    /\ detached \in [Client -> BOOLEAN]
    /\ owed \in [Client -> SUBSET Offset]

LEMMA NoBlockShape == IsBlock(NoBlock) /\ IsBlock(EmptyBlock) /\ IsMd(NoMd) /\ NoBlock.updates = <<>> /\ EmptyBlock.updates = <<>>
  BY DEF NoBlock, EmptyBlock, NoMd, IsBlock, IsMd, Updates, Block

LEMMA FetchedShape == ASSUME NEW b PROVE IsBlock(Fetched(b)) /\ Fetched(b).updates = <<>>
  BY DEF Fetched, IsBlock, Updates

\* Another update of a block, and the cells that it writes.
WithUpdate(u, off, n) == Append(u, <<off, n>>)
Writes(off, n, o) == Covers(<<off, n>>, InBlock(o))

LEMMA UpdateShape ==
  ASSUME NEW x, IsBlock(x), NEW off \in Nat, NEW n \in Nat, NEW v, x.cached
  PROVE  /\ IsBlock(UpdateData(x, off, n, v))
         /\ UpdateData(x, off, n, v).updates = WithUpdate(x.updates, off, n)
  <1>1. x.updates \in Updates /\ <<off, n>> \in Nat \X Nat
    BY DEF IsBlock
  <1>2. Append(x.updates, <<off, n>>) \in Updates
    BY <1>1 DEF Updates
  <1> QED
    BY <1>2 DEF UpdateData, IsBlock, WithUpdate

LEMMA TruncateShape ==
  ASSUME NEW x, IsBlock(x), NEW off \in Nat, x.cached
  PROVE  /\ IsBlock(Truncate(x, off))
         /\ Truncate(x, off).updates = WithUpdate(x.updates, off, 0)
  <1>1. x.updates \in Updates /\ <<off, 0>> \in Nat \X Nat
    BY DEF IsBlock
  <1>2. Append(x.updates, <<off, 0>>) \in Updates
    BY <1>1 DEF Updates
  <1> QED
    BY <1>2 DEF Truncate, IsBlock, WithUpdate

\* The cells of a block that its updates write.
Covered(u, o) == \E k \in 1 .. Len(u) : Covers(u[k], InBlock(o))

LEMMA AppendCovers ==
  ASSUME NEW u \in Updates, NEW off \in Nat, NEW n \in Nat, NEW o
  PROVE  /\ Covered(u, o) => Covered(WithUpdate(u, off, n), o)
         /\ Writes(off, n, o) => Covered(WithUpdate(u, off, n), o)
  <1> DEFINE e == <<off, n>>
  <1>1. e \in Nat \X Nat
    OBVIOUS
  <1> HIDE DEF e
  <1>2. /\ Len(Append(u, e)) = Len(u) + 1 /\ Len(u) \in Nat
        /\ \A k \in 1 .. Len(u) : Append(u, e)[k] = u[k]
        /\ Append(u, e)[Len(u) + 1] = e
    BY <1>1 DEF Updates
  <1>3. /\ Covered(u, o) => Covered(Append(u, e), o)
        /\ Covers(e, InBlock(o)) => Covered(Append(u, e), o)
    BY <1>2 DEF Covered
  <1> QED
    BY <1>3 DEF WithUpdate, Writes, e

LEMMA EmptyCovers == ASSUME NEW o PROVE ~Covered(<<>>, o)
  BY DEF Covered

-----------------------------------------------------------------------------
(* The invariant.  Each part is about the state of one client.             *)

\* What the client owes is in the updates of its cached blocks.
Kept(c) == \A o \in owed[c] : Covered(di[c][BlockOf(o)].updates, o)

\* While the answer of a Put is on its way nothing of its block is owed, so its
\* updates may be forgotten.
AnswerOK(c) == pc[c] = "stored" => \A o \in owed[c] : BlockOf(o) # current[c]

\* A truncate deletes only blocks behind everything that is owed.
CutOK(c) ==
    /\ \/ pc[c] = "truncate" \/ Cutting(c)
       \/ pc[c] \in {"fsync"} \cup Flushing /\ ret[c] = "truncate"
       => req[c].op = "truncate"
    /\ pc[c] \in {"fsync", "putmd"} => ret[c] # "cut"
    /\ Cutting(c) => /\ \A o \in owed[c] : o < req[c].off
                     /\ current[c] >= BlockOf(req[c].off)
                     /\ pc[c] = "delete" => current[c] > BlockOf(req[c].off)

\* While it uses a descriptor with O_APPEND a client owes at most the cells of the
\* append in progress, so the block can be dropped when the append is taken back.
AppendOK(c) ==
    Appending(c) =>
        /\ c \in Appenders
        /\ owed[c] \subseteq RequestCells(c)
        /\ pc[c] \in {"idle", "block", "again", "truncate", "cut", "delete"} => owed[c] = {}
        /\ pc[c] \in {"fsync"} \cup Flushing /\ ret[c] \in {"done", "truncate", "cut"} => owed[c] = {}
        /\ pc[c] \notin {"idle", "again"} => mdi[c].cached /\ ~detached[c]
        /\ pc[c] = "fsync" /\ ret[c] = "written" => mdi[c].dirty = BlockOf(req[c].off)
        /\ pc[c] \in Flushing /\ ret[c] = "written" => current[c] = BlockOf(req[c].off)

ClientOK(c) == Kept(c) /\ AnswerOK(c) /\ CutOK(c) /\ AppendOK(c)

FileInv == Shape /\ \A c \in Client : ClientOK(c)

\* What a step of client c leaves alone, and the shape of what it changes.
DiFrame(c) ==
    /\ DOMAIN di' = Client /\ DOMAIN di'[c] = Block
    /\ \A x \in Client : x # c => di'[x] = di[x]
    /\ \A b \in Block : IsBlock(di'[c][b])
MdFrame(c) ==
    /\ DOMAIN mdi' = Client /\ IsMd(mdi'[c])
    /\ \A x \in Client : x # c => mdi'[x] = mdi[x]
PcFrame(c) ==
    /\ pc' \in [Client -> Labels]
    /\ ret' \in [Client -> {"none", "done", "setdirty", "written", "truncate", "cut"}]
    /\ \A x \in Client : x # c => pc'[x] = pc[x] /\ ret'[x] = ret[x]
RestFrame(c) ==
    /\ req' \in [Client -> Requests] /\ current' \in [Client -> Nat]
    /\ detached' \in [Client -> BOOLEAN] /\ owed' \in [Client -> SUBSET Offset]
    /\ \A x \in Client : x # c => /\ req'[x] = req[x] /\ current'[x] = current[x]
                                  /\ detached'[x] = detached[x] /\ owed'[x] = owed[x]

LEMMA LocalStep ==
  ASSUME FileInv, NEW c \in Client, DiFrame(c), MdFrame(c), PcFrame(c), RestFrame(c), ClientOK(c)'
  PROVE  FileInv'
  <1>1. Shape'
    <2>1. \A x \in Client : /\ DOMAIN di'[x] = Block /\ IsMd(mdi'[x])
                            /\ \A b \in Block : IsBlock(di'[x][b])
      BY DEF FileInv, Shape, DiFrame, MdFrame
    <2> QED
      BY <2>1 DEF Shape, DiFrame, MdFrame, PcFrame, RestFrame, IsBlock, IsMd
  <1>2. ASSUME NEW x \in Client, x # c PROVE ClientOK(x)'
    <2>1. /\ di'[x] = di[x] /\ mdi'[x] = mdi[x] /\ pc'[x] = pc[x] /\ ret'[x] = ret[x]
          /\ req'[x] = req[x] /\ current'[x] = current[x] /\ detached'[x] = detached[x]
          /\ owed'[x] = owed[x]
      BY <1>2 DEF DiFrame, MdFrame, PcFrame, RestFrame
    <2>2. Kept(x) /\ AnswerOK(x) /\ CutOK(x) /\ AppendOK(x)
      BY <1>2 DEF FileInv, ClientOK
    <2>3. Kept(x)' /\ AnswerOK(x)'
      BY <2>1, <2>2 DEF Kept, AnswerOK
    <2>4. CutOK(x)'
      BY <2>1, <2>2 DEF CutOK, Cutting
    <2>5. AppendOK(x)'
      BY <2>1, <2>2 DEF AppendOK, RequestCells, Size, Appending
    <2> QED
      BY <2>3, <2>4, <2>5 DEF ClientOK
  <1> QED
    BY <1>1, <1>2 DEF FileInv

LEMMA SameBlocks ==
  ASSUME Shape, NEW c \in Client, di' = di
  PROVE  DiFrame(c)
  BY DEF Shape, DiFrame

LEMMA SetBlock ==
  ASSUME Shape, NEW c \in Client, NEW b \in Block, NEW e, IsBlock(e), di' = [di EXCEPT ![c][b] = e]
  PROVE  /\ DiFrame(c) /\ di'[c][b] = e
         /\ \A k \in Block : k # b => di'[c][k] = di[c][k]
  BY DEF Shape, DiFrame

LEMMA SameMd ==
  ASSUME Shape, NEW c \in Client, mdi' = mdi
  PROVE  MdFrame(c)
  BY DEF Shape, MdFrame

LEMMA SetMd ==
  ASSUME Shape, NEW c \in Client, NEW m, IsMd(m), mdi' = [mdi EXCEPT ![c] = m]
  PROVE  MdFrame(c) /\ mdi'[c] = m
  BY DEF Shape, MdFrame

LEMMA LookedUpShape ==
  ASSUME Shape, NEW c \in Client
  PROVE  IsMd(LookedUp(c)) /\ LookedUp(c).cached
  <1>1. IsMd(mdi[c])
    BY DEF Shape
  <1>2. IsMd([size |-> md.size, version |-> md.version, dirty |-> NBlocks, cached |-> TRUE])
    BY DEF IsMd, Block
  <1> QED
    BY <1>1, <1>2 DEF LookedUp

LEMMA InitHolds == Init => FileInv
  <1> SUFFICES ASSUME Init PROVE FileInv
    OBVIOUS
  <1>1. 0 \in Offset /\ NoRequest \in Requests
    <2>1. BlockSize * NBlocks \in Nat /\ BlockSize * NBlocks >= 1
      OBVIOUS
    <2> QED
      BY <2>1 DEF Offset, FileSize, NoRequest, Requests
  <1>2. Shape
    BY <1>1, NoBlockShape DEF Init, Shape, Labels
  <1>3. \A c \in Client : ClientOK(c)
    BY DEF Init, ClientOK, Kept, AnswerOK, CutOK, AppendOK, Cutting, Appending, NoRequest
  <1> QED
    BY <1>2, <1>3 DEF FileInv

-----------------------------------------------------------------------------
(* Requests begin, read and write.                                         *)

\* Another thread does not write while its client flushes a block or truncates,
\* and a descriptor with O_APPEND is not used over other writes that are not stored.
Serial ==
    /\ ~Threads \/ {"shared truncate", "write during flush"} \subseteq Avoid
    /\ Appenders = {} \/ "append over writes" \in Avoid

LEMMA StepBegin ==
  ASSUME Serial, FileInv, NEW c \in Client, NEW op \in {"read", "write", "fsync", "truncate"},
         NEW off \in Offset, NEW n \in 0 .. BlockSize, NEW a \in BOOLEAN,
         Begin(c, op, off, n, a),
         \/ Goto(c, "block") /\ UNCHANGED ret
         \/ \E r \in {"done", "truncate"} : /\ Goto(c, "fsync") /\ ret' = [ret EXCEPT ![c] = r]
                                            /\ r = "truncate" => op = "truncate"
  PROVE  FileInv'
  <1>1. Shape /\ ClientOK(c)
    BY DEF FileInv
  <1>2. /\ pc[c] = "idle" /\ mdi' = [mdi EXCEPT ![c] = LookedUp(c)]
        /\ req' = [req EXCEPT ![c] = [op |-> op, off |-> off, len |-> n, append |-> a]]
        /\ detached' = [detached EXCEPT ![c] = FALSE]
        /\ UNCHANGED <<di, current, owed>>
    BY DEF Begin, store, history
  <1>3. DiFrame(c)
    BY <1>1, <1>2, SameBlocks
  <1>4. MdFrame(c) /\ mdi'[c].cached
    <2> DEFINE m == LookedUp(c)
    <2>1. IsMd(m) /\ m.cached
      BY <1>1, LookedUpShape
    <2>2. mdi' = [mdi EXCEPT ![c] = m]
      BY <1>2
    <2> HIDE DEF m
    <2> QED
      BY <1>1, <2>1, <2>2, SetMd
  <1>5. PcFrame(c)
    BY <1>1 DEF Shape, PcFrame, Goto, Labels
  <1>6. RestFrame(c)
    <2>1. [op |-> op, off |-> off, len |-> n, append |-> a] \in Requests
      BY DEF Requests
    <2> QED
      BY <1>1, <1>2, <2>1 DEF Shape, RestFrame
  <1>7. /\ req'[c].op = op /\ ~detached'[c] /\ owed' = owed
        /\ \/ pc'[c] = "block"
           \/ pc'[c] = "fsync" /\ ret'[c] \in {"done", "truncate"} /\ (ret'[c] = "truncate" => op = "truncate")
    BY <1>1, <1>2 DEF Shape, Goto
  <1>8. Kept(c)' /\ AnswerOK(c)'
    BY <1>1, <1>2, <1>7 DEF ClientOK, Kept, AnswerOK
  <1>9. CutOK(c)'
    BY <1>7 DEF CutOK, Cutting, Flushing
  <1>10. AppendOK(c)'
    <2> SUFFICES ASSUME Appending(c)' PROVE AppendOK(c)'
      BY DEF AppendOK
    <2>1. a
      BY <1>1, <1>2 DEF Appending, Shape
    <2>2. c \in Appenders
      BY <2>1 DEF Begin
    <2>3. owed[c] = {}
      <3>1. "append over writes" \in Avoid
        BY <2>2 DEF Serial
      <3> QED
        BY <2>1, <3>1, Zenon DEF Begin, Avoided
    <2> QED
      BY <1>4, <1>7, <2>2, <2>3 DEF AppendOK, Flushing
  <1> QED
    BY <1>3, <1>4, <1>5, <1>6, <1>8, <1>9, <1>10, LocalStep DEF ClientOK

LEMMA StepBeginFlush ==
  ASSUME Serial, FileInv, NEW c \in Client, NEW op \in {"fsync", "truncate"}, NEW off \in Offset,
         NEW n, n = 0, NEW a \in BOOLEAN, Begin(c, op, off, n, a), Goto(c, "fsync"),
         NEW r \in {"done", "truncate"}, ret' = [ret EXCEPT ![c] = r],
         r = "truncate" => op = "truncate"
  PROVE  FileInv'
  <1>1. op \in {"read", "write", "fsync", "truncate"} /\ n \in 0 .. BlockSize
    OBVIOUS
  <1>2. \E x \in {"done", "truncate"} : /\ Goto(c, "fsync") /\ ret' = [ret EXCEPT ![c] = x]
                                        /\ x = "truncate" => op = "truncate"
    OBVIOUS
  <1> QED
    BY <1>1, <1>2, StepBegin, ZenonT(40)

LEMMA RwShape ==
  ASSUME Shape, NEW c \in Client, pc[c] = "block"
  PROVE  LET b == BlockOf(req[c].off) IN
         /\ req[c].off \in Offset /\ b \in Block
         /\ IsBlock(RwBlock(c)) /\ RwBlock(c).cached
         /\ RwBlock(c).updates = di[c][b].updates
  <1> DEFINE b == BlockOf(req[c].off)
  <1>1. req[c].off \in Offset
    BY DEF Shape, Requests
  <1>2. b \in Block
    BY <1>1, Blocks
  <1>3. IsBlock(di[c][b])
    BY <1>2 DEF Shape
  <1>4. Fetched(b).cached /\ EmptyBlock.cached
    BY DEF Fetched, EmptyBlock, NoBlock
  <1>5. RwBlock(c) = IF di[c][b].cached THEN di[c][b] ELSE IF Growing(c) THEN EmptyBlock ELSE Fetched(b)
    BY DEF RwBlock
  <1>6. ~di[c][b].cached => di[c][b].updates = <<>>
    BY <1>3 DEF IsBlock
  <1> HIDE DEF b
  <1>7. IsBlock(RwBlock(c)) /\ RwBlock(c).cached /\ RwBlock(c).updates = di[c][b].updates
    BY <1>3, <1>4, <1>5, <1>6, NoBlockShape, FetchedShape
  <1> QED
    BY <1>1, <1>2, <1>7 DEF b

LEMMA StepRead ==
  ASSUME FileInv, NEW c \in Client, DoRead(c)
  PROVE  FileInv'
  <1> DEFINE b == BlockOf(req[c].off)
  <1>1. Shape /\ ClientOK(c)
    BY DEF FileInv
  <1>2. /\ pc[c] = "block" /\ di' = [di EXCEPT ![c][b] = RwBlock(c)] /\ Goto(c, "idle")
        /\ UNCHANGED <<mdi, req, ret, current, detached, owed>>
    BY DEF DoRead, Done, locals, history
  <1>3. b \in Block /\ IsBlock(RwBlock(c)) /\ RwBlock(c).updates = di[c][b].updates
    BY <1>1, <1>2, RwShape
  <1> HIDE DEF b
  <1>4. DiFrame(c) /\ di'[c][b] = RwBlock(c) /\ \A k \in Block : k # b => di'[c][k] = di[c][k]
    BY <1>1, <1>2, <1>3, SetBlock
  <1>5. MdFrame(c)
    BY <1>1, <1>2, SameMd
  <1>6. PcFrame(c) /\ RestFrame(c) /\ pc'[c] = "idle"
    BY <1>1, <1>2 DEF Shape, PcFrame, RestFrame, Goto, Labels
  <1>7. \A k \in Block : di'[c][k].updates = di[c][k].updates
    BY <1>3, <1>4
  <1>8. owed'[c] = owed[c] /\ \A o \in owed[c] : BlockOf(o) \in Block
    BY <1>1, <1>2, Blocks DEF Shape
  <1>9. Kept(c)'
    BY <1>1, <1>7, <1>8 DEF ClientOK, Kept
  <1>10. AnswerOK(c)' /\ CutOK(c)'
    BY <1>6 DEF AnswerOK, CutOK, Cutting, Flushing
  <1>11. AppendOK(c)'
    BY <1>1, <1>2, <1>6, <1>8 DEF ClientOK, AppendOK, Flushing, Appending
  <1> QED
    BY <1>4, <1>5, <1>6, <1>9, <1>10, <1>11, LocalStep DEF ClientOK

\* The cells of the request are in one block and covered by its update.
LEMMA RequestFacts ==
  ASSUME Shape, NEW c \in Client
  PROVE  /\ Size(c) \in Nat /\ InBlock(req[c].off) \in Nat
         /\ \A o \in RequestCells(c) :
               /\ o \in Offset /\ BlockOf(o) = BlockOf(req[c].off)
               /\ Writes(InBlock(req[c].off), Size(c), o)
  <1>1. req[c].off \in Offset /\ req[c].len \in 0 .. BlockSize
    BY DEF Shape, Requests
  <1>2. req[c].off \in Nat
    BY <1>1, Blocks
  <1>3. InBlock(req[c].off) \in Nat /\ InBlock(req[c].off) < BlockSize
    BY <1>2, Division
  <1>4. Size(c) \in Nat
    BY <1>1, <1>3 DEF Size, InBlockSize, Smaller
  <1> QED
    BY <1>1, <1>3, <1>4, RequestPlace DEF RequestCells, Size, Writes

LEMMA WrittenFacts ==
  ASSUME Shape, NEW c \in Client, Written(c)
  PROVE  /\ PcFrame(c)
         /\ \/ pc'[c] = "fsync" /\ ret'[c] = "written"
            \/ pc'[c] = "idle" /\ ~Appending(c)
  <1>1. CASE Goto(c, "fsync") /\ ret' = [ret EXCEPT ![c] = "written"]
    BY <1>1 DEF Shape, PcFrame, Goto, Labels
  <1>2. CASE Goto(c, "idle") /\ ret' = ret /\ ~Appending(c)
    BY <1>2 DEF Shape, PcFrame, Goto, Labels
  <1> QED
    BY <1>1, <1>2 DEF Written, WriteReturns, Done

LEMMA StepWrite ==
  ASSUME FileInv, NEW c \in Client, DoWrite(c)
  PROVE  FileInv'
  <1> DEFINE b == BlockOf(req[c].off)
             e == UpdateData(RwBlock(c), InBlock(req[c].off), Size(c), c)
  <1>1. Shape /\ ClientOK(c)
    BY DEF FileInv
  <1>2. /\ pc[c] = "block" /\ di' = [di EXCEPT ![c][b] = e]
        /\ \/ SetDirty(c, b) /\ Written(c)
           \/ Goto(c, "fsync") /\ ret' = [ret EXCEPT ![c] = "setdirty"] /\ mdi' = mdi
        /\ owed' = [owed EXCEPT ![c] = @ \cup RequestCells(c)]
        /\ UNCHANGED <<req, current, detached>>
    BY DEF DoWrite
  <1>3. /\ b \in Block /\ IsBlock(RwBlock(c)) /\ RwBlock(c).cached
        /\ RwBlock(c).updates = di[c][b].updates
    BY <1>1, <1>2, RwShape
  <1>4. /\ Size(c) \in Nat /\ InBlock(req[c].off) \in Nat
        /\ \A o \in RequestCells(c) : /\ o \in Offset /\ BlockOf(o) = b
                                      /\ Writes(InBlock(req[c].off), Size(c), o)
    BY <1>1, RequestFacts
  <1>5. IsBlock(e) /\ e.updates = WithUpdate(di[c][b].updates, InBlock(req[c].off), Size(c))
    <2> DEFINE x == RwBlock(c)
               i == InBlock(req[c].off)
               n == Size(c)
    <2> HIDE DEF x, i, n
    <2>1. IsBlock(x) /\ x.cached /\ x.updates = di[c][b].updates /\ i \in Nat /\ n \in Nat
      BY <1>3, <1>4 DEF x, i, n
    <2>2. IsBlock(UpdateData(x, i, n, c)) /\ UpdateData(x, i, n, c).updates = WithUpdate(x.updates, i, n)
      BY <2>1, UpdateShape
    <2> QED
      BY <2>1, <2>2 DEF x, i, n
  <1>6. di[c][b].updates \in Updates
    BY <1>1, <1>3 DEF Shape, IsBlock
  <1> HIDE DEF e
  <1>7. DiFrame(c) /\ di'[c][b] = e /\ \A k \in Block : k # b => di'[c][k] = di[c][k]
    BY <1>1, <1>2, <1>3, <1>5, SetBlock
  <1>8. MdFrame(c) /\ mdi'[c].cached = mdi[c].cached
    <2>1. CASE mdi' = mdi
      BY <1>1, <2>1, SameMd
    <2>2. CASE mdi' = [mdi EXCEPT ![c].dirty = b]
      <3>1. IsMd([mdi[c] EXCEPT !.dirty = b]) /\ [mdi[c] EXCEPT !.dirty = b].cached = mdi[c].cached
        BY <1>1, <1>3 DEF Shape, IsMd
      <3>2. mdi' = [mdi EXCEPT ![c] = [mdi[c] EXCEPT !.dirty = b]]
        BY <2>2
      <3> QED
        BY <1>1, <3>1, <3>2, SetMd
    <2> QED
      BY <1>2, <2>1, <2>2 DEF SetDirty
  <1>9. /\ PcFrame(c)
        /\ \/ /\ pc'[c] = "fsync" /\ ret'[c] = "written"
              /\ ~detached[c] => mdi'[c].dirty = b
           \/ pc'[c] = "idle" /\ ~Appending(c)
           \/ pc'[c] = "fsync" /\ ret'[c] = "setdirty"
    <2>1. CASE SetDirty(c, b) /\ Written(c)
      <3>1. ~detached[c] => mdi'[c].dirty = b
        BY <1>1, <2>1 DEF SetDirty, Shape, IsMd
      <3> QED
        BY <1>1, <2>1, <3>1, WrittenFacts
    <2>2. CASE Goto(c, "fsync") /\ ret' = [ret EXCEPT ![c] = "setdirty"]
      BY <1>1, <2>2 DEF Shape, PcFrame, Goto, Labels
    <2> QED
      BY <1>2, <2>1, <2>2
  <1>10. RestFrame(c) /\ owed'[c] = owed[c] \cup RequestCells(c)
    BY <1>1, <1>2, <1>4 DEF Shape, RestFrame
  <1>11. Kept(c)'
    <2> SUFFICES ASSUME NEW o \in owed'[c] PROVE Covered(di'[c][BlockOf(o)].updates, o)
      BY DEF Kept
    <2>1. BlockOf(o) \in Block
      BY <1>10, Blocks DEF RestFrame
    <2>2. CASE o \in RequestCells(c)
      BY <1>4, <1>5, <1>6, <1>7, <2>2, AppendCovers
    <2>3. CASE o \in owed[c]
      <3>1. Covered(di[c][BlockOf(o)].updates, o)
        BY <1>1, <2>3 DEF ClientOK, Kept
      <3>2. CASE BlockOf(o) = b
        BY <1>4, <1>5, <1>6, <1>7, <3>1, <3>2, AppendCovers
      <3>3. CASE BlockOf(o) # b
        BY <1>7, <2>1, <3>1, <3>3
      <3> QED
        BY <3>2, <3>3
    <2> QED
      BY <1>10, <2>2, <2>3
  <1>12. AnswerOK(c)' /\ CutOK(c)'
    BY <1>9 DEF AnswerOK, CutOK, Cutting, Flushing
  <1>13. AppendOK(c)'
    <2>1. SUFFICES ASSUME Appending(c) PROVE AppendOK(c)'
      BY <1>2 DEF AppendOK, Appending
    <2>2. /\ c \in Appenders /\ owed[c] = {} /\ mdi[c].cached /\ ~detached[c]
          /\ detached' = detached /\ req' = req
      BY <1>1, <1>2, <2>1 DEF ClientOK, AppendOK
    <2>3. RequestCells(c)' = RequestCells(c)
      BY <2>2 DEF RequestCells, Size
    <2>4. owed'[c] \subseteq RequestCells(c)' /\ mdi'[c].cached /\ ~detached'[c]
      BY <1>8, <1>10, <2>2, <2>3
    <2>5. pc'[c] = "fsync" /\ ret'[c] \in {"setdirty", "written"} /\ (ret'[c] = "written" => mdi'[c].dirty = BlockOf(req'[c].off))
      BY <1>9, <2>1, <2>2
    <2> QED
      BY <2>2, <2>4, <2>5 DEF AppendOK, Flushing
  <1> QED
    BY <1>7, <1>8, <1>9, <1>10, <1>11, <1>12, <1>13, LocalStep DEF ClientOK

LEMMA StepBuffered ==
  ASSUME Serial, FileInv, NEW c \in Client, NEW off \in Offset, BufferedWrite(c, off)
  PROVE  FileInv'
  <1> DEFINE b == BlockOf(off)
             i == InBlock(off)
             e == UpdateData(di[c][b], i, 1, c)
  <1>1. Shape /\ ClientOK(c)
    BY DEF FileInv
  <1>2. /\ pc[c] \notin {"idle", "block"} /\ di[c][b].cached
        /\ di' = [di EXCEPT ![c][b] = UpdateData(@, i, 1, c)]
        /\ mdi' = [mdi EXCEPT ![c].dirty = b] /\ owed' = [owed EXCEPT ![c] = @ \cup {off}]
        /\ UNCHANGED <<pc, req, ret, current, detached>>
    BY DEF BufferedWrite, locals
  <1>3. ~Truncating(c) /\ pc[c] \notin Flushing
    BY Zenon DEF BufferedWrite, Serial, Avoided, Flushing
  <1>0. ~Appending(c)
    <2>1. CASE Appenders = {}
      BY <1>1, <2>1 DEF ClientOK, AppendOK
    <2>2. CASE "append over writes" \in Avoid
      BY <2>2, Zenon DEF BufferedWrite, Avoided
    <2> QED
      BY <2>1, <2>2 DEF Serial
  <1>4. b \in Block /\ off \in Nat /\ i \in Nat
    BY Blocks, Division
  <1>5. IsBlock(di[c][b]) /\ di[c][b].updates \in Updates
    BY <1>1, <1>4 DEF Shape, IsBlock
  <1>6. Writes(i, 1, off)
    BY <1>4 DEF Writes, Covers
  <1> HIDE DEF i, b
  <1>7. IsBlock(e) /\ e.updates = WithUpdate(di[c][b].updates, i, 1)
    <2> DEFINE x == di[c][b]
    <2>1. IsBlock(x) /\ x.cached
      BY <1>2, <1>5
    <2> HIDE DEF x
    <2>2. IsBlock(UpdateData(x, i, 1, c)) /\ UpdateData(x, i, 1, c).updates = WithUpdate(x.updates, i, 1)
      BY <1>4, <2>1, UpdateShape
    <2> QED
      BY <2>2 DEF x
  <1>8. di' = [di EXCEPT ![c][b] = e]
    BY <1>2
  <1> HIDE DEF e
  <1>9. DiFrame(c) /\ di'[c][b] = e /\ \A k \in Block : k # b => di'[c][k] = di[c][k]
    BY <1>1, <1>4, <1>7, <1>8, SetBlock
  <1>10. MdFrame(c)
    <2>1. IsMd([mdi[c] EXCEPT !.dirty = b])
      BY <1>1, <1>4 DEF Shape, IsMd
    <2>2. mdi' = [mdi EXCEPT ![c] = [mdi[c] EXCEPT !.dirty = b]]
      BY <1>2
    <2> QED
      BY <1>1, <2>1, <2>2, SetMd
  <1>11. PcFrame(c) /\ RestFrame(c) /\ owed'[c] = owed[c] \cup {off}
    BY <1>1, <1>2 DEF Shape, PcFrame, RestFrame
  <1>12. Kept(c)'
    <2> SUFFICES ASSUME NEW o \in owed'[c] PROVE Covered(di'[c][BlockOf(o)].updates, o)
      BY DEF Kept
    <2>1. BlockOf(o) \in Block
      BY <1>11, Blocks DEF RestFrame
    <2>2. CASE o = off
      <3>1. Covered(e.updates, off)
        BY <1>4, <1>5, <1>6, <1>7, AppendCovers
      <3> QED
        BY <1>9, <2>2, <3>1 DEF b
    <2>3. CASE o \in owed[c]
      <3>1. Covered(di[c][BlockOf(o)].updates, o)
        BY <1>1, <2>3 DEF ClientOK, Kept
      <3>2. CASE BlockOf(o) = b
        BY <1>4, <1>5, <1>7, <1>9, <3>1, <3>2, AppendCovers
      <3>3. CASE BlockOf(o) # b
        BY <1>9, <2>1, <3>1, <3>3
      <3> QED
        BY <3>2, <3>3
    <2> QED
      BY <1>11, <2>2, <2>3
  <1>13. AnswerOK(c)' /\ AppendOK(c)'
    BY <1>0, <1>2, <1>3 DEF AnswerOK, AppendOK, Flushing, Appending
  <1>14. CutOK(c)'
    <2>1. ~Cutting(c)
      BY <1>1, <1>2, <1>3 DEF ClientOK, CutOK, Truncating
    <2> QED
      BY <1>1, <1>2, <2>1 DEF ClientOK, CutOK, Cutting
  <1> QED
    BY <1>9, <1>10, <1>11, <1>12, <1>13, <1>14, LocalStep DEF ClientOK

-----------------------------------------------------------------------------
(* Flushes.                                                                *)

\* Where hflat_fsync returns to.
ReturnCases(c, err, m) ==
    /\ mdi'[c].cached = m.cached
    /\ \/ /\ pc'[c] = "idle" /\ ret'[c] = ret[c]
          /\ \/ ret[c] \in {"done", "written"} \/ err # "ok"
             \/ ret[c] = "setdirty" /\ ~Appending(c)
       \/ /\ pc'[c] = "fsync" /\ ret'[c] = "written" /\ ret[c] = "setdirty" /\ err = "ok"
          /\ ~detached[c] => mdi'[c].dirty = BlockOf(req[c].off)
       \/ pc'[c] = "again" /\ ret'[c] = ret[c] /\ err = "again"
       \/ pc'[c] = "truncate" /\ ret'[c] = ret[c] /\ err = "ok" /\ ret[c] = "truncate"

LEMMA ReturnFacts ==
  ASSUME Shape, NEW c \in Client, NEW err \in {"ok", "eio", "again"}, NEW m, IsMd(m),
         FsyncReturns(c, err, m)
  PROVE  MdFrame(c) /\ PcFrame(c) /\ ReturnCases(c, err, m)
  <1> DEFINE md1 == [m EXCEPT !.dirty = BlockOf(req[c].off)]
  <1>1. req[c].off \in Offset
    BY DEF Shape, Requests
  <1>2. BlockOf(req[c].off) \in Block
    BY <1>1, Blocks
  <1>3. IsMd(md1) /\ md1.cached = m.cached /\ md1.dirty = BlockOf(req[c].off)
    BY <1>2 DEF IsMd
  <1> HIDE DEF md1
  <1>4. CASE /\ ret[c] = "done" \/ (err # "ok" /\ ret[c] \in {"setdirty", "truncate"})
                              \/ (err = "eio" /\ ret[c] = "written")
             /\ Done(c) /\ mdi' = [mdi EXCEPT ![c] = m] /\ ret' = ret
    <2>1. PcFrame(c) /\ pc'[c] = "idle"
      BY <1>4 DEF Shape, PcFrame, Done, Goto, Labels
    <2>2. MdFrame(c) /\ mdi'[c] = m
      BY <1>4, SetMd
    <2> QED
      BY <1>4, <2>1, <2>2 DEF ReturnCases
  <1>5. CASE /\ ret[c] = "setdirty" /\ err = "ok"
             /\ mdi' = [mdi EXCEPT ![c] = IF detached[c] THEN m ELSE md1]
             /\ Written(c)
    <2>1. MdFrame(c) /\ mdi'[c] = IF detached[c] THEN m ELSE md1
      BY <1>3, <1>5, SetMd
    <2>2. PcFrame(c) /\ \/ pc'[c] = "fsync" /\ ret'[c] = "written"
                        \/ pc'[c] = "idle" /\ ret'[c] = ret[c] /\ ~Appending(c)
      BY <1>5, WrittenFacts DEF Written, WriteReturns, Done, Goto, Shape
    <2> QED
      BY <1>3, <1>5, <2>1, <2>2 DEF ReturnCases
  <1>6. CASE /\ ret[c] = "written" /\ err = "ok"
             /\ WriteReturns(c) /\ mdi' = [mdi EXCEPT ![c] = m] /\ ret' = ret
    <2>1. PcFrame(c) /\ pc'[c] = "idle"
      BY <1>6 DEF Shape, PcFrame, WriteReturns, Done, Goto, Labels
    <2>2. MdFrame(c) /\ mdi'[c] = m
      BY <1>6, SetMd
    <2> QED
      BY <1>6, <2>1, <2>2 DEF ReturnCases
  <1>7. CASE /\ ret[c] = "written" /\ err = "again"
             /\ Goto(c, "again") /\ mdi' = [mdi EXCEPT ![c] = m] /\ ret' = ret
    <2>1. PcFrame(c) /\ pc'[c] = "again"
      BY <1>7 DEF Shape, PcFrame, Goto, Labels
    <2>2. MdFrame(c) /\ mdi'[c] = m
      BY <1>7, SetMd
    <2> QED
      BY <1>7, <2>1, <2>2 DEF ReturnCases
  <1>8. CASE /\ ret[c] = "truncate" /\ err = "ok"
             /\ Goto(c, "truncate") /\ mdi' = [mdi EXCEPT ![c] = m] /\ ret' = ret
    <2>1. PcFrame(c) /\ pc'[c] = "truncate"
      BY <1>8 DEF Shape, PcFrame, Goto, Labels
    <2>2. MdFrame(c) /\ mdi'[c] = m
      BY <1>8, SetMd
    <2> QED
      BY <1>8, <2>1, <2>2 DEF ReturnCases
  <1> QED
    BY <1>4, <1>5, <1>6, <1>7, <1>8 DEF FsyncReturns, md1

\* The client's parts of the invariant after hflat_fsync has returned.
LEMMA ReturnOK ==
  ASSUME FileInv, NEW c \in Client, NEW err \in {"ok", "eio", "again"}, NEW m,
         ReturnCases(c, err, m), req' = req, Kept(c)',
         pc[c] \in {"fsync"} \cup Flushing, ret[c] # "cut",
         Appending(c) =>
            /\ owed'[c] \subseteq owed[c]
            /\ err # "ok" \/ ret[c] = "written" => owed'[c] = {}
            /\ err = "ok" => m.cached /\ detached' = detached
  PROVE  ClientOK(c)'
  <1>1. ClientOK(c)
    BY DEF FileInv
  <1>2. AnswerOK(c)'
    BY DEF AnswerOK, ReturnCases
  <1>3. CutOK(c)'
    BY <1>1 DEF ClientOK, CutOK, Cutting, ReturnCases, Flushing
  <1>4. AppendOK(c)'
    <2>1. SUFFICES ASSUME Appending(c) PROVE AppendOK(c)'
      BY DEF AppendOK, Appending
    <2>2. /\ c \in Appenders /\ owed[c] \subseteq RequestCells(c)
          /\ ret[c] \in {"done", "truncate"} => owed[c] = {}
          /\ mdi[c].cached /\ ~detached[c]
      BY <1>1, <2>1 DEF ClientOK, AppendOK, Flushing
    <2>3. RequestCells(c)' = RequestCells(c)
      BY DEF RequestCells, Size
    <2>4. owed'[c] \subseteq RequestCells(c)'
      BY <2>1, <2>2, <2>3
    <2>5. CASE pc'[c] = "fsync"
      <3>1. ret'[c] = "written" /\ err = "ok" /\ mdi'[c].dirty = BlockOf(req'[c].off) /\ mdi'[c].cached = m.cached
        BY <2>2, <2>5 DEF ReturnCases
      <3> QED
        BY <2>1, <2>2, <2>4, <2>5, <3>1 DEF AppendOK, Flushing
    <2>6. CASE pc'[c] \in {"idle", "again"}
      <3>1. owed'[c] = {}
        BY <2>1, <2>2, <2>6 DEF ReturnCases
      <3> QED
        BY <2>2, <2>4, <2>6, <3>1 DEF AppendOK, Flushing
    <2>7. CASE pc'[c] = "truncate"
      <3>1. owed'[c] = {} /\ err = "ok" /\ mdi'[c].cached = m.cached
        BY <2>1, <2>2, <2>7 DEF ReturnCases
      <3> QED
        BY <2>1, <2>2, <2>4, <2>7, <3>1 DEF AppendOK, Flushing
    <2> QED
      BY <2>5, <2>6, <2>7 DEF ReturnCases
  <1> QED
    BY <1>2, <1>3, <1>4 DEF ClientOK

\* Nothing changes but where the flush is.
LEMMA FlushGoesOn ==
  ASSUME FileInv, NEW c \in Client, pc[c] \in {"putmd", "putdata", "getdata"},
         NEW l \in {"putdata", "getdata"}, Goto(c, l),
         UNCHANGED <<req, ret, current, detached, owed>>, Kept(c)',
         DiFrame(c), MdFrame(c), Appending(c) => mdi'[c].cached = mdi[c].cached
  PROVE  FileInv'
  <1>1. Shape /\ ClientOK(c)
    BY DEF FileInv
  <1>2. PcFrame(c) /\ RestFrame(c) /\ pc'[c] = l
    BY <1>1 DEF Shape, PcFrame, RestFrame, Goto, Labels
  <1>3. AnswerOK(c)'
    BY <1>2 DEF AnswerOK
  <1>4. CutOK(c)'
    BY <1>1, <1>2 DEF ClientOK, CutOK, Cutting, Flushing
  <1>5. AppendOK(c)'
    <2>1. RequestCells(c)' = RequestCells(c)
      BY DEF RequestCells, Size
    <2> QED
      BY <1>1, <1>2, <2>1 DEF ClientOK, AppendOK, Flushing, Appending
  <1> QED
    BY <1>2, <1>3, <1>4, <1>5, LocalStep DEF ClientOK

LEMMA KeptSame ==
  ASSUME FileInv, NEW c \in Client, di' = di, owed'[c] \subseteq owed[c]
  PROVE  DiFrame(c) /\ Kept(c)'
  BY SameBlocks DEF FileInv, ClientOK, Kept

LEMMA StepFsync ==
  ASSUME FileInv, NEW c \in Client, Fsync(c)
  PROVE  FileInv'
  <1>1. Shape /\ ClientOK(c)
    BY DEF FileInv
  <1>2. pc[c] = "fsync" /\ UNCHANGED <<di, req, detached, owed>>
    BY DEF Fsync
  <1>3. DiFrame(c) /\ Kept(c)'
    BY <1>2, KeptSame
  <1>4. CASE ~Dirty(c) /\ FsyncReturns(c, "ok", LookedUp(c)) /\ current' = current
    <2> DEFINE m == LookedUp(c)
    <2>1. IsMd(m) /\ m.cached /\ FsyncReturns(c, "ok", m)
      BY <1>1, <1>4, LookedUpShape
    <2> HIDE DEF m
    <2>2. MdFrame(c) /\ PcFrame(c) /\ ReturnCases(c, "ok", m)
      BY <1>1, <2>1, ReturnFacts
    <2>3. RestFrame(c)
      BY <1>1, <1>2, <1>4 DEF Shape, RestFrame
    <2>4. ASSUME Appending(c), ret[c] = "written" PROVE owed[c] = {}
      <3>1. /\ owed[c] \subseteq RequestCells(c) /\ mdi[c].cached
            /\ mdi[c].dirty = BlockOf(req[c].off)
        BY <1>1, <1>2, <2>4 DEF ClientOK, AppendOK
      <3>2. di[c][BlockOf(req[c].off)].updates = <<>>
        BY <1>4, <3>1 DEF Dirty, HasUpdates
      <3>3. ASSUME NEW o \in owed[c] PROVE FALSE
        <4>1. BlockOf(o) = BlockOf(req[c].off)
          BY <1>1, <3>1, RequestFacts
        <4>2. Covered(di[c][BlockOf(o)].updates, o)
          BY <1>1 DEF ClientOK, Kept
        <4> QED
          BY <3>2, <4>1, <4>2, EmptyCovers
      <3> QED
        BY <3>3
    <2>5. ret[c] # "cut"
      BY <1>1, <1>2 DEF ClientOK, CutOK
    <2>6. ClientOK(c)'
      BY <1>2, <1>3, <2>1, <2>2, <2>4, <2>5, ReturnOK
    <2> QED
      BY <1>3, <2>2, <2>3, <2>6, LocalStep
  <1>5. CASE \E size : /\ mdi' = [mdi EXCEPT ![c].size = size]
                       /\ current' = [current EXCEPT ![c] = mdi[c].dirty]
                       /\ Goto(c, "putmd") \/ Goto(c, "putdata")
                       /\ ret' = ret
    <2>1. PICK size : mdi' = [mdi EXCEPT ![c].size = size]
      BY <1>5
    <2>2. IsMd(mdi[c]) /\ mdi[c].dirty \in Nat
      BY <1>1 DEF Shape, IsMd, Block
    <2>3. IsMd([mdi[c] EXCEPT !.size = size]) /\ [mdi[c] EXCEPT !.size = size].cached = mdi[c].cached
      BY <2>2 DEF IsMd
    <2>4. mdi' = [mdi EXCEPT ![c] = [mdi[c] EXCEPT !.size = size]]
      BY <2>1
    <2>5. MdFrame(c) /\ mdi'[c].cached = mdi[c].cached
      BY <1>1, <2>3, <2>4, SetMd
    <2>6. PcFrame(c) /\ pc'[c] \in {"putmd", "putdata"} /\ ret' = ret
      BY <1>1, <1>5 DEF Shape, PcFrame, Goto, Labels
    <2>7. RestFrame(c) /\ current'[c] = mdi[c].dirty
      BY <1>1, <1>2, <1>5, <2>2 DEF Shape, RestFrame
    <2>8. AnswerOK(c)'
      BY <2>6 DEF AnswerOK
    <2>9. CutOK(c)'
      BY <1>1, <1>2, <2>6 DEF ClientOK, CutOK, Cutting, Flushing
    <2>10. AppendOK(c)'
      <3>1. RequestCells(c)' = RequestCells(c)
        BY <1>2 DEF RequestCells, Size
      <3> QED
        BY <1>1, <1>2, <2>5, <2>6, <2>7, <3>1 DEF ClientOK, AppendOK, Flushing, Appending
    <2> QED
      BY <1>3, <2>5, <2>6, <2>7, <2>8, <2>9, <2>10, LocalStep DEF ClientOK
  <1> QED
    BY <1>4, <1>5 DEF Fsync

LEMMA StepPutMd ==
  ASSUME FileInv, NEW c \in Client, PutMd(c)
  PROVE  FileInv'
  <1>1. Shape
    BY DEF FileInv
  <1>2. /\ pc[c] = "putmd" /\ Goto(c, "putdata") /\ UNCHANGED <<di, req, ret, current, detached, owed>>
        /\ mdi' = [mdi EXCEPT ![c].version = versions + 1]
    BY DEF PutMd, locals, history
  <1>3. /\ IsMd([mdi[c] EXCEPT !.version = versions + 1])
        /\ [mdi[c] EXCEPT !.version = versions + 1].cached = mdi[c].cached
    BY <1>1 DEF Shape, IsMd
  <1>4. mdi' = [mdi EXCEPT ![c] = [mdi[c] EXCEPT !.version = versions + 1]]
    BY <1>2
  <1>5. MdFrame(c) /\ mdi'[c].cached = mdi[c].cached
    BY <1>1, <1>3, <1>4, SetMd
  <1>6. DiFrame(c) /\ Kept(c)'
    BY <1>2, KeptSame
  <1> QED
    BY <1>2, <1>5, <1>6, FlushGoesOn

LEMMA StepPutDataMismatch ==
  ASSUME FileInv, NEW c \in Client, PutDataMismatch(c)
  PROVE  FileInv'
  <1>1. /\ pc[c] = "putdata" /\ Goto(c, "getdata")
        /\ UNCHANGED <<di, mdi, req, ret, current, detached, owed>>
    BY DEF PutDataMismatch, caches, locals, history
  <1>2. DiFrame(c) /\ Kept(c)'
    BY <1>1, KeptSame
  <1>3. MdFrame(c)
    BY <1>1, SameMd DEF FileInv
  <1> QED
    BY <1>1, <1>2, <1>3, FlushGoesOn

\* The merge keeps the updates.
LEMMA StepGetData ==
  ASSUME FileInv, NEW c \in Client, GetData(c)
  PROVE  FileInv'
  <1> DEFINE b == current[c]
             e == [di[c][b] EXCEPT !.d = MergeDataChanges(di[c][b], blocks[b].d),
                                   !.version = blocks[b].version]
  <1>1. Shape /\ ClientOK(c)
    BY DEF FileInv
  <1>2. /\ pc[c] = "getdata" /\ Goto(c, "putdata") /\ UNCHANGED <<mdi, req, ret, current, detached, owed>>
        /\ di' = [di EXCEPT ![c][b].d = MergeDataChanges(di[c][b], blocks[b].d),
                            ![c][b].version = blocks[b].version]
    BY DEF GetData, locals, history
  <1>3. DiFrame(c) /\ \A k \in Block : di'[c][k].updates = di[c][k].updates
    <2>1. CASE b \in Block
      <3>1. IsBlock(e) /\ e.updates = di[c][b].updates
        BY <1>1, <2>1 DEF Shape, IsBlock
      <3>2. di' = [di EXCEPT ![c][b] = e]
        BY <1>1, <1>2, <2>1 DEF Shape
      <3> HIDE DEF e, b
      <3>3. DiFrame(c) /\ di'[c][b] = e /\ \A k \in Block : k # b => di'[c][k] = di[c][k]
        BY <1>1, <2>1, <3>1, <3>2, SetBlock
      <3> QED
        BY <3>1, <3>3
    <2>2. CASE b \notin Block
      BY <1>1, <1>2, <2>2 DEF Shape, DiFrame
    <2> QED
      BY <2>1, <2>2
  <1>4. Kept(c)'
    <2>1. owed'[c] = owed[c] /\ \A o \in owed[c] : BlockOf(o) \in Block
      BY <1>1, <1>2, Blocks DEF Shape
    <2> QED
      BY <1>1, <1>3, <2>1 DEF ClientOK, Kept
  <1>5. MdFrame(c)
    BY <1>1, <1>2, SameMd
  <1> QED
    BY <1>2, <1>3, <1>4, <1>5, FlushGoesOn

\* A block that leaves the cache with everything that is owed of it.
LEMMA DropBlock ==
  ASSUME Shape, NEW c \in Client, Kept(c), NEW b, NEW e, IsBlock(e),
         di' = [di EXCEPT ![c][b] = e], owed'[c] \subseteq owed[c],
         \A o \in owed'[c] : BlockOf(o) # b
  PROVE  DiFrame(c) /\ Kept(c)'
  <1>1. \A o \in owed'[c] : BlockOf(o) \in Block /\ Covered(di[c][BlockOf(o)].updates, o)
    BY Blocks DEF Shape, Kept
  <1>2. CASE b \in Block
    <2>1. DiFrame(c) /\ \A k \in Block : k # b => di'[c][k] = di[c][k]
      BY <1>2, SetBlock
    <2> QED
      BY <1>1, <2>1 DEF Kept
  <1>3. CASE b \notin Block
    <2>1. DiFrame(c) /\ \A k \in Block : di'[c][k] = di[c][k]
      BY <1>3 DEF Shape, DiFrame
    <2> QED
      BY <1>1, <2>1 DEF Kept
  <1> QED
    BY <1>2, <1>3

\* An append that fails owes nothing.
LEMMA AppendWithdrawn ==
  ASSUME FileInv, NEW c \in Client, AppendFails(c)
  PROVE  /\ owed' \in [Client -> SUBSET Offset] /\ owed'[c] \subseteq owed[c]
         /\ Appending(c) => owed'[c] = {}
         /\ \A x \in Client : x # c => owed'[x] = owed[x]
  <1>1. Shape /\ (Appending(c) => owed[c] \subseteq RequestCells(c))
    BY DEF FileInv, ClientOK, AppendOK
  <1> QED
    BY <1>1 DEF AppendFails, Shape

LEMMA StepPutMdMismatch ==
  ASSUME FileInv, NEW c \in Client, PutMdMismatch(c)
  PROVE  FileInv'
  <1>1. Shape /\ ClientOK(c)
    BY DEF FileInv
  <1>2. pc[c] = "putmd" /\ detached' = [detached EXCEPT ![c] = TRUE] /\ UNCHANGED <<req, current>>
    BY DEF PutMdMismatch
  <1>3. CASE /\ Appending(c) /\ di' = [di EXCEPT ![c][current[c]] = NoBlock]
             /\ FsyncReturns(c, "again", NoMd) /\ AppendFails(c)
    <2>1. MdFrame(c) /\ PcFrame(c) /\ ReturnCases(c, "again", NoMd)
      BY <1>1, <1>3, NoBlockShape, ReturnFacts
    <2>2. /\ owed' \in [Client -> SUBSET Offset] /\ owed'[c] = {}
          /\ \A x \in Client : x # c => owed'[x] = owed[x]
      BY <1>3, AppendWithdrawn
    <2>3. RestFrame(c)
      BY <1>1, <1>2, <2>2 DEF Shape, RestFrame
    <2>4. DiFrame(c) /\ Kept(c)'
      BY <1>1, <1>3, <2>2, NoBlockShape, DropBlock DEF ClientOK
    <2>5. ClientOK(c)'
      BY <1>1, <1>2, <2>1, <2>2, <2>4, ReturnOK DEF Flushing, ClientOK, CutOK
    <2> QED
      BY <2>1, <2>3, <2>4, <2>5, LocalStep
  <1>4. CASE /\ ~Appending(c) /\ mdi' = [mdi EXCEPT ![c] = NoMd] /\ Goto(c, "fsync")
             /\ UNCHANGED <<di, ret, owed>>
    <2>1. MdFrame(c)
      BY <1>1, <1>4, NoBlockShape, SetMd
    <2>2. PcFrame(c) /\ RestFrame(c) /\ pc'[c] = "fsync"
      BY <1>1, <1>2, <1>4 DEF Shape, PcFrame, RestFrame, Goto, Labels
    <2>3. DiFrame(c) /\ Kept(c)'
      BY <1>4, KeptSame
    <2>4. AnswerOK(c)' /\ AppendOK(c)'
      BY <1>2, <1>4, <2>2 DEF AnswerOK, AppendOK, Appending
    <2>5. CutOK(c)'
      BY <1>1, <1>2, <1>4, <2>2 DEF ClientOK, CutOK, Cutting, Flushing
    <2> QED
      BY <2>1, <2>2, <2>3, <2>4, <2>5, LocalStep DEF ClientOK
  <1> QED
    BY <1>3, <1>4 DEF PutMdMismatch, history

LEMMA StepAgain ==
  ASSUME FileInv, NEW c \in Client, Again(c)
  PROVE  FileInv'
  <1>1. Shape /\ ClientOK(c)
    BY DEF FileInv
  <1>2. /\ pc[c] = "again" /\ mdi' = [mdi EXCEPT ![c] = LookedUp(c)]
        /\ detached' = [detached EXCEPT ![c] = FALSE] /\ req' = [req EXCEPT ![c].len = Size(c)]
        /\ UNCHANGED <<di, current, owed>>
        /\ \/ Goto(c, "block") /\ ret' = ret
           \/ req[c].op = "truncate" /\ Goto(c, "fsync") /\ ret' = [ret EXCEPT ![c] = "truncate"]
    BY DEF Again, history
  <1>3. MdFrame(c) /\ mdi'[c].cached
    <2> DEFINE m == LookedUp(c)
    <2>1. IsMd(m) /\ m.cached
      BY <1>1, LookedUpShape
    <2>2. mdi' = [mdi EXCEPT ![c] = m]
      BY <1>2
    <2> HIDE DEF m
    <2> QED
      BY <1>1, <2>1, <2>2, SetMd
  <1>4. PcFrame(c)
    BY <1>1, <1>2 DEF Shape, PcFrame, Goto, Labels
  <1>5. RestFrame(c) /\ req'[c].op = req[c].op
    <2>1. req[c] \in Requests /\ req[c].len \in 0 .. BlockSize /\ Size(c) \in Nat
      BY <1>1, RequestFacts DEF Shape, Requests
    <2>2. Size(c) \in 0 .. BlockSize
      <3>1. InBlock(req[c].off) \in Nat /\ InBlock(req[c].off) < BlockSize
        BY <1>1, Blocks, Division DEF Shape, Requests
      <3> QED
        BY <2>1, <3>1 DEF Size, InBlockSize, Smaller
    <2>3. [req[c] EXCEPT !.len = Size(c)] \in Requests /\ [req[c] EXCEPT !.len = Size(c)].op = req[c].op
      BY <2>1, <2>2 DEF Requests
    <2> QED
      BY <1>1, <1>2, <2>3 DEF Shape, RestFrame
  <1>6. DiFrame(c) /\ Kept(c)'
    BY <1>2, KeptSame
  <1>7. /\ ~detached'[c] /\ owed' = owed
        /\ pc'[c] = "block" \/ (pc'[c] = "fsync" /\ ret'[c] = "truncate" /\ req[c].op = "truncate")
    BY <1>1, <1>2 DEF Shape, Goto
  <1>8. AnswerOK(c)' /\ CutOK(c)'
    BY <1>5, <1>7 DEF AnswerOK, CutOK, Cutting, Flushing
  <1>9. AppendOK(c)'
    BY <1>1, <1>2, <1>3, <1>7 DEF ClientOK, AppendOK, Flushing, Appending
  <1> QED
    BY <1>3, <1>4, <1>5, <1>6, <1>8, <1>9, LocalStep DEF ClientOK

LEMMA StepPutData ==
  ASSUME FileInv, NEW c \in Client, PutData(c)
  PROVE  FileInv'
  <1>1. Shape /\ ClientOK(c)
    BY DEF FileInv
  <1>2. /\ pc[c] = "putdata" /\ Goto(c, "stored")
        /\ owed' = [owed EXCEPT ![c] = @ \ CellsOf(current[c])]
        /\ UNCHANGED <<di, mdi, req, ret, current, detached>>
    BY DEF PutData, caches
  <1>3. PcFrame(c) /\ pc'[c] = "stored"
    BY <1>1, <1>2 DEF Shape, PcFrame, Goto, Labels
  <1>4. RestFrame(c) /\ owed'[c] = owed[c] \ CellsOf(current[c])
    BY <1>1, <1>2 DEF Shape, RestFrame
  <1>5. DiFrame(c) /\ Kept(c)'
    BY <1>2, <1>4, KeptSame
  <1>6. MdFrame(c)
    BY <1>1, <1>2, SameMd
  <1>7. AnswerOK(c)'
    BY <1>1, <1>2, <1>4 DEF AnswerOK, CellsOf, Shape
  <1>8. CutOK(c)'
    BY <1>1, <1>2, <1>3, <1>4 DEF ClientOK, CutOK, Cutting, Flushing
  <1>9. AppendOK(c)'
    <2>1. RequestCells(c)' = RequestCells(c)
      BY <1>2 DEF RequestCells, Size
    <2> QED
      BY <1>1, <1>2, <1>3, <1>4, <2>1 DEF ClientOK, AppendOK, Flushing, Appending
  <1> QED
    BY <1>3, <1>4, <1>5, <1>6, <1>7, <1>8, <1>9, LocalStep DEF ClientOK

\* put_data returns.
LEMMA PutDataReturnsOK ==
  ASSUME FileInv, NEW c \in Client, NEW err \in {"ok", "eio"},
         pc[c] \in {"putdata", "getdata", "stored"}, PutDataReturns(c, err),
         UNCHANGED <<req, detached>>, DiFrame(c), Kept(c)',
         owed' \in [Client -> SUBSET Offset], owed'[c] \subseteq owed[c],
         \A x \in Client : x # c => owed'[x] = owed[x],
         Appending(c) /\ (err = "eio" \/ ret[c] = "written") => owed'[c] = {}
  PROVE  FileInv'
  <1>1. Shape /\ ClientOK(c)
    BY DEF FileInv
  <1>2. CASE /\ ret[c] = "cut" /\ Goto(c, "delete") /\ current' = [current EXCEPT ![c] = @ + 1]
             /\ UNCHANGED <<mdi, ret>>
    <2>1. PcFrame(c) /\ pc'[c] = "delete"
      BY <1>1, <1>2 DEF Shape, PcFrame, Goto, Labels
    <2>2. RestFrame(c) /\ current'[c] = current[c] + 1
      BY <1>1, <1>2 DEF Shape, RestFrame
    <2>3. MdFrame(c)
      BY <1>1, <1>2, SameMd
    <2>4. /\ req[c].op = "truncate" /\ \A o \in owed[c] : o < req[c].off
          /\ current[c] >= BlockOf(req[c].off)
      BY <1>1, <1>2 DEF ClientOK, CutOK, Cutting
    <2>5. current[c] \in Nat /\ BlockOf(req[c].off) \in Nat
      BY <1>1, Blocks, Division DEF Shape, Requests
    <2>6. current'[c] > BlockOf(req[c].off)
      BY <2>2, <2>4, <2>5
    <2>7. CutOK(c)'
      BY <2>1, <2>4, <2>5, <2>6, <2>2 DEF CutOK
    <2>8. AnswerOK(c)'
      BY <2>1 DEF AnswerOK
    <2>9. AppendOK(c)'
      BY <1>1, <1>2, <2>1 DEF ClientOK, AppendOK, Flushing, Appending
    <2> QED
      BY <2>1, <2>2, <2>3, <2>7, <2>8, <2>9, LocalStep DEF ClientOK
  <1>3. CASE ret[c] # "cut" /\ FsyncReturns(c, err, mdi[c]) /\ current' = current
    <2> DEFINE m == mdi[c]
    <2>1. IsMd(m) /\ FsyncReturns(c, err, m)
      BY <1>1, <1>3 DEF Shape
    <2>2. Appending(c) => m.cached
      BY <1>1 DEF ClientOK, AppendOK
    <2> HIDE DEF m
    <2>3. MdFrame(c) /\ PcFrame(c) /\ ReturnCases(c, err, m)
      BY <1>1, <2>1, ReturnFacts
    <2>4. RestFrame(c)
      BY <1>1, <1>3 DEF Shape, RestFrame
    <2>5. ClientOK(c)'
      BY <1>3, <2>2, <2>3, ReturnOK DEF Flushing
    <2> QED
      BY <2>3, <2>4, <2>5, LocalStep
  <1> QED
    BY <1>2, <1>3 DEF PutDataReturns

\* The Get or the Put of put_data has failed.
LEMMA StepPutDataFails ==
  ASSUME FileInv, NEW c \in Client, pc[c] \in {"putdata", "getdata"},
         PutDataReturns(c, "eio"), AppendFails(c), UNCHANGED <<di, req, detached>>
  PROVE  FileInv'
  <1>1. /\ owed' \in [Client -> SUBSET Offset] /\ owed'[c] \subseteq owed[c]
        /\ Appending(c) => owed'[c] = {}
        /\ \A x \in Client : x # c => owed'[x] = owed[x]
    BY AppendWithdrawn
  <1>2. DiFrame(c) /\ Kept(c)'
    BY <1>1, KeptSame
  <1> QED
    BY <1>1, <1>2, PutDataReturnsOK

LEMMA StepStored ==
  ASSUME FileInv, NEW c \in Client, Stored(c)
  PROVE  FileInv'
  <1> DEFINE b == current[c]
             e == [di[c][b] EXCEPT !.updates = <<>>, !.version = sent[c]]
  <1>1. Shape /\ ClientOK(c)
    BY DEF FileInv
  <1>2. /\ pc[c] = "stored" /\ PutDataReturns(c, "ok") /\ UNCHANGED <<req, detached, owed>>
        /\ di' = [di EXCEPT ![c][b].updates = <<>>, ![c][b].version = sent[c]]
    BY DEF Stored
  <1>3. \A o \in owed[c] : BlockOf(o) # b
    BY <1>1, <1>2 DEF ClientOK, AnswerOK
  <1>4. DiFrame(c) /\ Kept(c)'
    <2>1. CASE b \in Block
      <3>1. IsBlock(e)
        BY <1>1, <2>1 DEF Shape, IsBlock, Updates
      <3>2. di' = [di EXCEPT ![c][b] = e]
        BY <1>1, <1>2, <2>1 DEF Shape
      <3> HIDE DEF e, b
      <3> QED
        BY <1>1, <1>2, <1>3, <3>1, <3>2, DropBlock DEF ClientOK
    <2>2. CASE b \notin Block
      <3>1. DiFrame(c) /\ \A k \in Block : di'[c][k] = di[c][k]
        BY <1>1, <1>2, <2>2 DEF Shape, DiFrame
      <3>2. \A o \in owed[c] : BlockOf(o) \in Block
        BY <1>1, Blocks DEF Shape
      <3> QED
        BY <1>1, <1>2, <3>1, <3>2 DEF ClientOK, Kept
    <2> QED
      BY <2>1, <2>2
  <1>5. ASSUME Appending(c), ret[c] = "written" PROVE owed[c] = {}
    <2>1. owed[c] \subseteq RequestCells(c) /\ b = BlockOf(req[c].off)
      BY <1>1, <1>2, <1>5 DEF ClientOK, AppendOK, Flushing
    <2> QED
      BY <1>1, <1>3, <2>1, RequestFacts
  <1>6. owed \in [Client -> SUBSET Offset]
    BY <1>1 DEF Shape
  <1> QED
    BY <1>2, <1>4, <1>5, <1>6, PutDataReturnsOK

-----------------------------------------------------------------------------
(* Truncate.                                                               *)

LEMMA StepTruncateMd ==
  ASSUME FileInv, NEW c \in Client, TruncateMd(c)
  PROVE  FileInv'
  <1> DEFINE off == req[c].off
             m == [mdi[c] EXCEPT !.size = off, !.version = versions + 1]
  <1>1. Shape /\ ClientOK(c)
    BY DEF FileInv
  <1>2. /\ pc[c] = "truncate" /\ UNCHANGED <<di, req, ret, detached>>
        /\ mdi' = [mdi EXCEPT ![c].size = off, ![c].version = versions + 1]
        /\ owed' = [owed EXCEPT ![c] = {o \in @ : o < off}]
        /\ \/ current' = [current EXCEPT ![c] = BlockOf(off)] /\ Goto(c, "cut")
           \/ current' = [current EXCEPT ![c] = BlockOf(off) + 1] /\ Goto(c, "delete")
    BY DEF TruncateMd
  <1>3. BlockOf(off) \in Nat
    BY <1>1, Blocks, Division DEF Shape, Requests
  <1>4. IsMd(m) /\ m.cached = mdi[c].cached
    BY <1>1 DEF Shape, IsMd
  <1>5. mdi' = [mdi EXCEPT ![c] = m]
    BY <1>2
  <1> HIDE DEF m
  <1>6. MdFrame(c) /\ mdi'[c].cached = mdi[c].cached
    BY <1>1, <1>4, <1>5, SetMd
  <1>7. PcFrame(c)
    BY <1>1, <1>2 DEF Shape, PcFrame, Goto, Labels
  <1>8. RestFrame(c)
    BY <1>1, <1>2, <1>3 DEF Shape, RestFrame
  <1>9. /\ owed'[c] = {o \in owed[c] : o < off} /\ req'[c] = req[c]
        /\ \/ pc'[c] = "cut" /\ current'[c] = BlockOf(off)
           \/ pc'[c] = "delete" /\ current'[c] = BlockOf(off) + 1
    BY <1>1, <1>2 DEF Shape, Goto
  <1>10. DiFrame(c) /\ Kept(c)'
    BY <1>2, <1>9, KeptSame
  <1>11. AnswerOK(c)'
    BY <1>9 DEF AnswerOK
  <1>12. CutOK(c)'
    <2>1. req[c].op = "truncate"
      BY <1>1, <1>2 DEF ClientOK, CutOK
    <2> QED
      BY <1>3, <1>9, <2>1 DEF CutOK
  <1>13. AppendOK(c)'
    BY <1>1, <1>2, <1>6, <1>9 DEF ClientOK, AppendOK, Flushing, Appending
  <1> QED
    BY <1>6, <1>7, <1>8, <1>10, <1>11, <1>12, <1>13, LocalStep DEF ClientOK

\* A request is over, or begins again, with nothing owed by an append.
LEMMA Ends ==
  ASSUME FileInv, NEW c \in Client, NEW l \in {"idle", "again"}, Goto(c, l),
         ret' = ret, req' = req, RestFrame(c), DiFrame(c), MdFrame(c), Kept(c)',
         Appending(c) => owed'[c] = {}
  PROVE  FileInv'
  <1>1. PcFrame(c) /\ pc'[c] = l
    BY DEF FileInv, Shape, PcFrame, Goto, Labels
  <1>2. AnswerOK(c)' /\ CutOK(c)'
    BY <1>1 DEF AnswerOK, CutOK, Cutting, Flushing
  <1>3. AppendOK(c)'
    BY <1>1 DEF FileInv, ClientOK, AppendOK, Flushing, Appending
  <1> QED
    BY <1>1, <1>2, <1>3, LocalStep DEF ClientOK

LEMMA StepTruncateMdMismatch ==
  ASSUME FileInv, NEW c \in Client, TruncateMdMismatch(c)
  PROVE  FileInv'
  <1>1. Shape /\ ClientOK(c)
    BY DEF FileInv
  <1>2. /\ pc[c] = "truncate" /\ mdi' = [mdi EXCEPT ![c] = NoMd] /\ Goto(c, "again")
        /\ UNCHANGED <<di, req, ret, current, detached, owed>>
    BY DEF TruncateMdMismatch, locals, history
  <1>3. MdFrame(c)
    BY <1>1, <1>2, NoBlockShape, SetMd
  <1>4. RestFrame(c)
    BY <1>1, <1>2 DEF Shape, RestFrame
  <1>5. DiFrame(c) /\ Kept(c)'
    BY <1>2, KeptSame
  <1>6. Appending(c) => owed'[c] = {}
    BY <1>1, <1>2 DEF ClientOK, AppendOK
  <1> QED
    BY <1>2, <1>3, <1>4, <1>5, <1>6, Ends

LEMMA StepCut ==
  ASSUME FileInv, NEW c \in Client, Cut(c)
  PROVE  FileInv'
  <1> DEFINE b == current[c]
             x == IF di[c][b].cached THEN di[c][b] ELSE Fetched(b)
             i == InBlock(req[c].off)
             e == Truncate(x, i)
  <1>1. Shape /\ ClientOK(c)
    BY DEF FileInv
  <1>2. /\ pc[c] = "cut" /\ di' = [di EXCEPT ![c][b] = e] /\ ret' = [ret EXCEPT ![c] = "cut"]
        /\ Goto(c, "putdata") /\ UNCHANGED <<mdi, req, current, detached, owed>>
    BY DEF Cut, history
  <1>3. i \in Nat
    BY <1>1, Blocks, Division DEF Shape, Requests
  <1>4. MdFrame(c)
    BY <1>1, <1>2, SameMd
  <1>5. PcFrame(c) /\ pc'[c] = "putdata" /\ ret'[c] = "cut"
    BY <1>1, <1>2 DEF Shape, PcFrame, Goto, Labels
  <1>6. RestFrame(c)
    BY <1>1, <1>2 DEF Shape, RestFrame
  <1>7. DiFrame(c) /\ Kept(c)'
    <2>1. \A o \in owed[c] : BlockOf(o) \in Block /\ Covered(di[c][BlockOf(o)].updates, o)
      BY <1>1, Blocks DEF Shape, ClientOK, Kept
    <2>2. CASE b \in Block
      <3>1. IsBlock(di[c][b]) /\ di[c][b].updates \in Updates /\ (~di[c][b].cached => di[c][b].updates = <<>>)
        BY <1>1, <2>2 DEF Shape, IsBlock
      <3>2. Fetched(b).cached /\ IsBlock(Fetched(b)) /\ Fetched(b).updates = <<>>
        BY FetchedShape DEF Fetched
      <3>3. IsBlock(x) /\ x.cached /\ x.updates = di[c][b].updates
        BY <3>1, <3>2
      <3> HIDE DEF x, i
      <3>4. IsBlock(e) /\ e.updates = WithUpdate(x.updates, i, 0)
        BY <1>3, <3>3, TruncateShape
      <3> HIDE DEF e
      <3>5. DiFrame(c) /\ di'[c][b] = e /\ \A k \in Block : k # b => di'[c][k] = di[c][k]
        BY <1>1, <1>2, <2>2, <3>4, SetBlock
      <3>6. ASSUME NEW o \in owed[c] PROVE Covered(di'[c][BlockOf(o)].updates, o)
        <4>1. CASE BlockOf(o) = b
          BY <1>3, <2>1, <3>1, <3>3, <3>4, <3>5, <4>1, AppendCovers
        <4>2. CASE BlockOf(o) # b
          BY <2>1, <3>5, <4>2
        <4> QED
          BY <4>1, <4>2
      <3> QED
        BY <1>2, <3>5, <3>6 DEF Kept
    <2>3. CASE b \notin Block
      <3> HIDE DEF e
      <3>1. DiFrame(c) /\ \A k \in Block : di'[c][k] = di[c][k]
        BY <1>1, <1>2, <2>3 DEF Shape, DiFrame
      <3> QED
        BY <1>2, <2>1, <3>1 DEF Kept
    <2> QED
      BY <2>2, <2>3
  <1>8. AnswerOK(c)'
    BY <1>5 DEF AnswerOK
  <1>9. CutOK(c)'
    BY <1>1, <1>2, <1>5 DEF ClientOK, CutOK, Cutting, Flushing
  <1>10. AppendOK(c)'
    BY <1>1, <1>2, <1>5 DEF ClientOK, AppendOK, Flushing, Appending
  <1> QED
    BY <1>4, <1>5, <1>6, <1>7, <1>8, <1>9, <1>10, LocalStep DEF ClientOK

\* A deleted block lies behind everything that is owed.
LEMMA StepDeleteBlock ==
  ASSUME FileInv, NEW c \in Client, DeleteBlock(c)
  PROVE  FileInv'
  <1>1. Shape /\ ClientOK(c)
    BY DEF FileInv
  <1>2. /\ pc[c] = "delete" /\ di' = [di EXCEPT ![c][current[c]] = NoBlock]
        /\ current' = [current EXCEPT ![c] = @ + 1]
        /\ UNCHANGED <<mdi, pc, req, ret, detached, owed>>
    BY DEF DeleteBlock, history
  <1>3. /\ req[c].op = "truncate" /\ (\A o \in owed[c] : o < req[c].off)
        /\ current[c] > BlockOf(req[c].off)
    BY <1>1, <1>2 DEF ClientOK, CutOK, Cutting
  <1>4. current[c] \in Nat /\ req[c].off \in Nat /\ BlockOf(req[c].off) \in Nat
    BY <1>1, Blocks, Division DEF Shape, Requests
  <1>5. \A o \in owed[c] : BlockOf(o) # current[c]
    <2> TAKE o \in owed[c]
    <2>1. o \in Nat /\ BlockOf(o) \in Nat
      BY <1>1, Blocks, Division DEF Shape
    <2>2. BlockOf(o) <= BlockOf(req[c].off)
      BY <1>3, <1>4, <2>1, Before
    <2> QED
      BY <1>3, <1>4, <2>1, <2>2
  <1>6. DiFrame(c) /\ Kept(c)'
    BY <1>1, <1>2, <1>5, NoBlockShape, DropBlock DEF ClientOK
  <1>7. MdFrame(c)
    BY <1>1, <1>2, SameMd
  <1>8. PcFrame(c) /\ RestFrame(c) /\ current'[c] = current[c] + 1
    BY <1>1, <1>2 DEF Shape, PcFrame, RestFrame
  <1>9. AnswerOK(c)'
    BY <1>2 DEF AnswerOK
  <1>10. CutOK(c)'
    BY <1>2, <1>3, <1>4, <1>8 DEF CutOK
  <1>11. AppendOK(c)'
    BY <1>1, <1>2 DEF ClientOK, AppendOK, Flushing, Appending
  <1> QED
    BY <1>6, <1>7, <1>8, <1>9, <1>10, <1>11, LocalStep DEF ClientOK

LEMMA StepTruncateDone ==
  ASSUME FileInv, NEW c \in Client, TruncateDone(c)
  PROVE  FileInv'
  <1>1. Shape /\ ClientOK(c)
    BY DEF FileInv
  <1>2. /\ pc[c] = "delete" /\ Goto(c, "idle")
        /\ UNCHANGED <<di, mdi, req, ret, current, detached, owed>>
    BY DEF TruncateDone, Done, caches, locals, history
  <1>3. MdFrame(c) /\ RestFrame(c)
    BY <1>1, <1>2, SameMd DEF Shape, RestFrame
  <1>4. DiFrame(c) /\ Kept(c)'
    BY <1>2, KeptSame
  <1>5. Appending(c) => owed'[c] = {}
    BY <1>1, <1>2 DEF ClientOK, AppendOK
  <1> QED
    BY <1>2, <1>3, <1>4, <1>5, Ends

-----------------------------------------------------------------------------
(* Expiry, failures and crashes.                                           *)

LEMMA StepExpireBlock ==
  ASSUME FileInv, NEW c \in Client, NEW b \in Block, ExpireBlock(c, b)
  PROVE  FileInv'
  <1>1. Shape /\ ClientOK(c)
    BY DEF FileInv
  <1>2. /\ pc[c] = "idle" /\ di[c][b].updates = <<>> /\ di' = [di EXCEPT ![c][b] = NoBlock]
        /\ UNCHANGED <<mdi, pc, req, ret, current, detached, owed>>
    BY DEF ExpireBlock, HasUpdates, locals, history
  <1>3. \A o \in owed[c] : BlockOf(o) # b
    BY <1>1, <1>2, EmptyCovers DEF ClientOK, Kept
  <1>4. DiFrame(c) /\ Kept(c)'
    BY <1>1, <1>2, <1>3, NoBlockShape, DropBlock DEF ClientOK
  <1>5. MdFrame(c) /\ RestFrame(c) /\ PcFrame(c)
    BY <1>1, <1>2, SameMd DEF Shape, RestFrame, PcFrame
  <1>6. AnswerOK(c)' /\ CutOK(c)'
    BY <1>2 DEF AnswerOK, CutOK, Cutting, Flushing
  <1>7. AppendOK(c)'
    BY <1>1, <1>2 DEF ClientOK, AppendOK, Flushing, Appending
  <1> QED
    BY <1>4, <1>5, <1>6, <1>7, LocalStep DEF ClientOK

LEMMA StepExpireMd ==
  ASSUME FileInv, NEW c \in Client, ExpireMd(c)
  PROVE  FileInv'
  <1>1. Shape /\ ClientOK(c)
    BY DEF FileInv
  <1>2. /\ pc[c] = "idle" /\ mdi' = [mdi EXCEPT ![c] = NoMd]
        /\ UNCHANGED <<di, pc, req, ret, current, detached, owed>>
    BY DEF ExpireMd, locals, history
  <1>3. MdFrame(c)
    BY <1>1, <1>2, NoBlockShape, SetMd
  <1>4. RestFrame(c) /\ PcFrame(c)
    BY <1>1, <1>2 DEF Shape, RestFrame, PcFrame
  <1>5. DiFrame(c) /\ Kept(c)'
    BY <1>2, KeptSame
  <1>6. AnswerOK(c)' /\ CutOK(c)'
    BY <1>2 DEF AnswerOK, CutOK, Cutting, Flushing
  <1>7. AppendOK(c)'
    BY <1>1, <1>2 DEF ClientOK, AppendOK, Flushing, Appending
  <1> QED
    BY <1>3, <1>4, <1>5, <1>6, <1>7, LocalStep DEF ClientOK

LEMMA StepRwFails ==
  ASSUME FileInv, NEW c \in Client, RwFails(c)
  PROVE  FileInv'
  <1>1. Shape /\ ClientOK(c)
    BY DEF FileInv
  <1>2. /\ pc[c] = "block" /\ UNCHANGED <<di, mdi, req, current, detached, owed>>
        /\ \/ Goto(c, "fsync") /\ ret' = [ret EXCEPT ![c] = "done"]
           \/ Goto(c, "idle") /\ ret' = ret
    BY DEF RwFails, Done, caches, history
  <1>3. MdFrame(c) /\ RestFrame(c)
    BY <1>1, <1>2, SameMd DEF Shape, RestFrame
  <1>4. DiFrame(c) /\ Kept(c)'
    BY <1>2, KeptSame
  <1>5. /\ Appending(c) => c \in Appenders /\ owed'[c] = {} /\ mdi'[c].cached /\ ~detached'[c]
        /\ req' = req
    BY <1>1, <1>2 DEF ClientOK, AppendOK
  <1>6. CASE Goto(c, "idle") /\ ret' = ret
    BY <1>2, <1>3, <1>4, <1>5, <1>6, Ends
  <1>7. CASE Goto(c, "fsync") /\ ret' = [ret EXCEPT ![c] = "done"]
    <2>1. PcFrame(c) /\ pc'[c] = "fsync" /\ ret'[c] = "done"
      BY <1>1, <1>7 DEF Shape, PcFrame, Goto, Labels
    <2>2. AnswerOK(c)' /\ CutOK(c)'
      BY <2>1 DEF AnswerOK, CutOK, Cutting, Flushing
    <2>3. AppendOK(c)'
      BY <1>5, <2>1 DEF AppendOK, Flushing, Appending
    <2> QED
      BY <1>3, <1>4, <2>1, <2>2, <2>3, LocalStep DEF ClientOK
  <1> QED
    BY <1>2, <1>6, <1>7

LEMMA StepPutMdFails ==
  ASSUME FileInv, NEW c \in Client, PutMdFails(c)
  PROVE  FileInv'
  <1>1. Shape /\ ClientOK(c)
    BY DEF FileInv
  <1>2. /\ pc[c] \in {"putmd", "truncate"} /\ detached' = [detached EXCEPT ![c] = TRUE]
        /\ UNCHANGED <<req, current>>
    BY DEF PutMdFails
  <1>3. CASE /\ pc[c] = "putmd" /\ Appending(c) /\ di' = [di EXCEPT ![c][current[c]] = NoBlock]
             /\ FsyncReturns(c, "eio", NoMd) /\ AppendFails(c)
    <2>1. MdFrame(c) /\ PcFrame(c) /\ ReturnCases(c, "eio", NoMd)
      BY <1>1, <1>3, NoBlockShape, ReturnFacts
    <2>2. /\ owed' \in [Client -> SUBSET Offset] /\ owed'[c] = {}
          /\ \A x \in Client : x # c => owed'[x] = owed[x]
      BY <1>3, AppendWithdrawn
    <2>3. RestFrame(c)
      BY <1>1, <1>2, <2>2 DEF Shape, RestFrame
    <2>4. DiFrame(c) /\ Kept(c)'
      BY <1>1, <1>3, <2>2, NoBlockShape, DropBlock DEF ClientOK
    <2>5. ClientOK(c)'
      BY <1>1, <1>2, <1>3, <2>1, <2>2, <2>4, ReturnOK DEF Flushing, ClientOK, CutOK
    <2> QED
      BY <2>1, <2>3, <2>4, <2>5, LocalStep
  <1>4. CASE /\ mdi' = [mdi EXCEPT ![c] = NoMd] /\ UNCHANGED <<di, ret, owed>>
             /\ \/ pc[c] = "truncate" /\ Goto(c, "idle")
                \/ pc[c] = "putmd" /\ ~Appending(c) /\ Goto(c, "putdata")
    <2>1. MdFrame(c)
      BY <1>1, <1>4, NoBlockShape, SetMd
    <2>2. RestFrame(c)
      BY <1>1, <1>2, <1>4 DEF Shape, RestFrame
    <2>3. DiFrame(c) /\ Kept(c)'
      BY <1>4, KeptSame
    <2>4. CASE pc[c] = "truncate" /\ Goto(c, "idle")
      <3>1. Appending(c) => owed'[c] = {}
        BY <1>1, <1>4, <2>4 DEF ClientOK, AppendOK
      <3> QED
        BY <1>2, <1>4, <2>1, <2>2, <2>3, <2>4, <3>1, Ends
    <2>5. CASE pc[c] = "putmd" /\ ~Appending(c) /\ Goto(c, "putdata")
      <3>1. PcFrame(c) /\ pc'[c] = "putdata"
        BY <1>1, <1>4, <2>5 DEF Shape, PcFrame, Goto, Labels
      <3>2. AnswerOK(c)' /\ AppendOK(c)'
        BY <1>2, <2>5, <3>1 DEF AnswerOK, AppendOK, Appending
      <3>3. CutOK(c)'
        BY <1>1, <1>2, <1>4, <2>5, <3>1 DEF ClientOK, CutOK, Cutting, Flushing
      <3> QED
        BY <2>1, <2>2, <2>3, <3>1, <3>2, <3>3, LocalStep DEF ClientOK
    <2> QED
      BY <1>4, <2>4, <2>5
  <1> QED
    BY <1>2, <1>3, <1>4 DEF PutMdFails, Done, history

LEMMA StepCrash ==
  ASSUME FileInv, NEW c \in Client, Crash(c)
  PROVE  FileInv'
  <1>1. Shape
    BY DEF FileInv
  <1>2. /\ mdi' = [mdi EXCEPT ![c] = NoMd] /\ di' = [di EXCEPT ![c] = [b \in Block |-> NoBlock]]
        /\ Goto(c, "idle") /\ owed' = [owed EXCEPT ![c] = {}]
        /\ UNCHANGED <<req, ret, current, detached>>
    BY DEF Crash, Done, locals
  <1>3. MdFrame(c)
    BY <1>1, <1>2, NoBlockShape, SetMd
  <1>4. RestFrame(c) /\ owed'[c] = {}
    BY <1>1, <1>2 DEF Shape, RestFrame
  <1>5. DiFrame(c)
    BY <1>1, <1>2, NoBlockShape DEF Shape, DiFrame
  <1>6. Kept(c)'
    BY <1>4 DEF Kept
  <1> QED
    BY <1>2, <1>3, <1>4, <1>5, <1>6, Ends

-----------------------------------------------------------------------------
(* The theorem.                                                            *)

LEMMA FileStep ==
  ASSUME Serial, FileInv, [Next]_vars
  PROVE  FileInv'
  <1>1. CASE UNCHANGED vars
    <2>1. UNCHANGED <<di, mdi, pc, req, ret, current, detached, owed>>
      BY <1>1 DEF vars, caches, locals, history
    <2>2. Shape'
      BY <2>1 DEF FileInv, Shape, IsBlock, IsMd
    <2>3. \A c \in Client : ClientOK(c)'
      BY <2>1 DEF FileInv, ClientOK, Kept, AnswerOK, CutOK, Cutting, AppendOK, RequestCells, Size,
                    Appending
    <2> QED
      BY <2>2, <2>3 DEF FileInv
  <1>2. ASSUME NEW c \in Client, NEW off \in Offset,
               \/ BeginRead(c, off) \/ BeginTruncate(c, off) \/ BufferedWrite(c, off)
               \/ \E n \in 1 .. BlockSize, a \in BOOLEAN : BeginWrite(c, off, n, a)
        PROVE  FileInv'
    <2>1. CASE BeginRead(c, off)
      <3> DEFINE no == FALSE
                 none == 0
      <3>1. Begin(c, "read", off, none, no) /\ Goto(c, "block") /\ ret' = ret
        BY <2>1 DEF BeginRead
      <3>2. none \in 0 .. BlockSize /\ no \in BOOLEAN
        OBVIOUS
      <3> HIDE DEF none, no
      <3> QED
        BY <3>1, <3>2, StepBegin
    <2>2. CASE BeginTruncate(c, off)
      <3>1. Begin(c, "truncate", off, 0, FALSE) /\ Goto(c, "fsync") /\ ret' = [ret EXCEPT ![c] = "truncate"]
        BY <2>2, Zenon DEF BeginTruncate
      <3> QED
        BY <3>1, StepBeginFlush
    <2>3. CASE BufferedWrite(c, off)
      BY <2>3, StepBuffered
    <2>4. ASSUME NEW n \in 1 .. BlockSize, NEW a \in BOOLEAN, BeginWrite(c, off, n, a) PROVE FileInv'
      BY <2>4, StepBegin DEF BeginWrite
    <2> QED
      BY <1>2, <2>1, <2>2, <2>3, <2>4
  <1>3. ASSUME NEW c \in Client, NEW a \in BOOLEAN, BeginFsync(c, a) PROVE FileInv'
    <2>1. 0 \in Offset
      <3>1. BlockSize * NBlocks \in Nat /\ BlockSize * NBlocks >= 1
        OBVIOUS
      <3> QED
        BY <3>1 DEF Offset, FileSize
    <2>2. Begin(c, "fsync", 0, 0, a) /\ Goto(c, "fsync") /\ ret' = [ret EXCEPT ![c] = "done"]
      BY <1>3, Zenon DEF BeginFsync
    <2> QED
      BY <2>1, <2>2, StepBeginFlush
  <1>4. ASSUME NEW c \in Client, GetDataGone(c) \/ PutDataFails(c) PROVE FileInv'
    BY <1>4, StepPutDataFails DEF GetDataGone, PutDataFails
  <1> QED
    BY <1>1, <1>2, <1>3, <1>4, StepRead, StepWrite, StepAgain, StepFsync, StepPutMd,
       StepPutMdMismatch, StepPutData, StepPutDataMismatch, StepGetData, StepStored,
       StepTruncateMd, StepTruncateMdMismatch, StepCut, StepDeleteBlock, StepTruncateDone,
       StepExpireMd, StepExpireBlock, StepRwFails, StepPutMdFails, StepCrash
    DEF Next

\* What hflat_write has put into the cache is not lost before put_data has
\* stored it: whatever expires, fails, is taken back or is begun again, the
\* updates of the cached blocks cover every cell that is owed.  This holds for
\* any block size, any sizes of the requests, any truncates and in both posix
\* modes.  Serial names the two ways in which it does get lost: a second thread
\* writes to a block that is being flushed or a file that is being truncated
\* (forgetUpdates and truncate drop it), and a descriptor with O_APPEND is used
\* while other writes of its client are not stored (hflat_fsync invalidates the
\* block they share).
THEOREM WritesNotDroppedCorrect ==
  ASSUME Serial
  PROVE  Spec => []WritesNotDropped
  <1>1. Init => FileInv
    BY InitHolds
  <1>2. FileInv /\ [Next]_vars => FileInv'
    BY FileStep
  <1>3. FileInv => WritesNotDropped
    BY DEF FileInv, ClientOK, Kept, Covered, WritesNotDropped
  <1> QED
    BY <1>1, <1>2, <1>3, PTL DEF Spec

-----------------------------------------------------------------------------
(* The cells of a block.                                                   *)

LEMMA DataLength ==
  ASSUME NEW s \in Data
  PROVE  Len(s) \in 0 .. BlockSize /\ s \in Seq(Value) /\ DOMAIN s = 1 .. Len(s)
         /\ \A i \in 1 .. Len(s) : s[i] \in Value
  <1>1. PICK n \in 0 .. BlockSize : s \in [1 .. n -> Value]
    BY DEF Data
  <1>2. s \in Seq(Value) /\ Len(s) = n
    BY <1>1
  <1> QED
    BY <1>1, <1>2

LEMMA IsData ==
  ASSUME NEW n \in 0 .. BlockSize, NEW s \in [1 .. n -> Value]
  PROVE  s \in Data /\ Len(s) = n
  BY DEF Data

LEMMA EmptyData == <<>> \in Data /\ Len(<<>>) = 0
  <1>1. <<>> \in [1 .. 0 -> Value] /\ 0 \in 0 .. BlockSize
    OBVIOUS
  <1> QED
    BY <1>1, IsData

LEMMA ResizeCells ==
  ASSUME NEW s \in Data, NEW n \in 0 .. BlockSize
  PROVE  Resize(s, n) \in Data /\ Len(Resize(s, n)) = n
  <1>1. Zero \in Value
    BY DEF Value
  <1>2. \A i \in 1 .. n : i <= Len(s) => s[i] \in Value
    BY DataLength
  <1>3. Resize(s, n) \in [1 .. n -> Value]
    BY <1>1, <1>2 DEF Resize
  <1> QED
    BY <1>3, IsData

LEMMA ReplaceCells ==
  ASSUME NEW s \in Data, NEW d \in Data, NEW off \in Nat, NEW n \in Nat, off + n <= Len(d)
  PROVE  Replace(s, off, n, d) \in Data /\ Len(Replace(s, off, n, d)) = Len(s)
  <1>1. Len(s) \in 0 .. BlockSize /\ Len(d) \in 0 .. BlockSize
    BY DataLength
  <1>2. \A i \in 1 .. Len(s) : s[i] \in Value /\ (off < i /\ i <= off + n => d[i] \in Value)
    BY <1>1, DataLength
  <1>3. Replace(s, off, n, d) \in [1 .. Len(s) -> Value]
    BY <1>2 DEF Replace
  <1> QED
    BY <1>1, <1>3, IsData

\* updateData makes the data as long as the write needs.
LEMMA UpdateCells ==
  ASSUME NEW x, IsBlock(x), x.d \in Data, NEW off \in Nat, NEW n \in Nat, off + n <= BlockSize, NEW v \in Value
  PROVE  LET e == UpdateData(x, off, n, v) IN
         /\ e.d \in Data /\ Len(e.d) = Larger(Len(x.d), off + n)
         /\ e.version = x.version
  <1> DEFINE m == Larger(Len(x.d), off + n)
             f == [i \in 1 .. m |-> IF off < i /\ i <= off + n THEN v
                                    ELSE IF i <= Len(x.d) THEN x.d[i] ELSE Zero]
  <1>1. Len(x.d) \in 0 .. BlockSize /\ \A i \in 1 .. Len(x.d) : x.d[i] \in Value
    BY DataLength
  <1>2. m \in 0 .. BlockSize
    BY <1>1 DEF Larger
  <1>3. Zero \in Value
    BY DEF Value
  <1>4. f \in [1 .. m -> Value]
    <2> HIDE DEF m
    <2> QED
      BY <1>1, <1>2, <1>3
  <1>5. f \in Data /\ Len(f) = m
    <2> HIDE DEF f, m
    <2> QED
      BY <1>2, <1>4, IsData
  <1>6. UpdateData(x, off, n, v).d = f /\ UpdateData(x, off, n, v).version = x.version
    BY DEF UpdateData, IsBlock
  <1> QED
    BY <1>5, <1>6

LEMMA TruncateCells ==
  ASSUME NEW x, IsBlock(x), x.d \in Data, NEW off \in 0 .. BlockSize
  PROVE  LET e == Truncate(x, off) IN
         e.d \in Data /\ Len(e.d) = off /\ e.version = x.version
  <1>1. Truncate(x, off).d = Resize(x.d, off) /\ Truncate(x, off).version = x.version
    BY DEF Truncate, IsBlock
  <1> QED
    BY <1>1, ResizeCells

-----------------------------------------------------------------------------
(* mergeDataChanges.                                                       *)

LEMMA LeastNat ==
  ASSUME NEW S, S # {}, S \subseteq Nat
  PROVE  \E n \in S : \A k \in S : n <= k
  <1>1. PICK n \in S : \A k \in S : ~(<<k, n>> \in OpToRel(<, Nat))
    BY WFMin, NatLessThanWellFounded
  <1>2. \A k \in S : ~(k < n)
    BY <1>1 DEF OpToRel
  <1> QED
    BY <1>2

\* What the recursive function loop of MergeDataChanges is.
LEMMA MergeUnfolds ==
  ASSUME NEW x, NEW fresh
  PROVE  \E f : /\ f[0] = Resize(fresh, Larger(Len(fresh), Len(x.d)))
                /\ \A n \in Nat : f[n + 1] = Redo(f[n], x.updates[n + 1], x.d)
                /\ MergeDataChanges(x, fresh) = f[Len(x.updates)]
  <1> DEFINE st == Resize(fresh, Larger(Len(fresh), Len(x.d)))
             f == CHOOSE g : g = [k \in Nat |-> IF k = 0 THEN st ELSE Redo(g[k - 1], x.updates[k], x.d)]
  <1>0. MergeDataChanges(x, fresh) = f[Len(x.updates)]
    BY Zenon DEF MergeDataChanges
  <1> HIDE DEF st, f
  <1> DEFINE Run(g, n) == g[0] = st /\ \A i \in 0 .. n - 1 : g[i + 1] = Redo(g[i], x.updates[i + 1], x.d)
  <1>1. \A n \in Nat : \E g : Run(g, n)
    <2> DEFINE S == {n \in Nat : \A g : ~Run(g, n)}
    <2> SUFFICES ASSUME S # {} PROVE FALSE
      OBVIOUS
    <2>0. S \subseteq Nat
      OBVIOUS
    <2>1. PICK n \in S : \A k \in S : n <= k
      <3> HIDE DEF S
      <3> QED
        BY <2>0, LeastNat
    <2>2. CASE n = 0
      <3>1. Run([i \in {0} |-> st], 0)
        OBVIOUS
      <3> QED
        BY <2>1, <2>2, <3>1
    <2>3. CASE n # 0
      <3>1. n - 1 \in Nat /\ n - 1 \notin S
        <4> HIDE DEF S
        <4> QED
          BY <2>0, <2>1, <2>3
      <3>2. PICK g : Run(g, n - 1)
        BY <3>1
      <3>3. PICK h : h = [i \in 0 .. n |-> IF i < n THEN g[i] ELSE Redo(g[n - 1], x.updates[n], x.d)]
        OBVIOUS
      <3>4. h[0] = st
        BY <2>3, <3>2, <3>3
      <3>5. ASSUME NEW i \in 0 .. n - 1 PROVE h[i + 1] = Redo(h[i], x.updates[i + 1], x.d)
        <4>1. CASE i = n - 1
          BY <2>1, <3>3, <4>1
        <4>2. CASE i # n - 1
          <5>1. i \in 0 .. (n - 1) - 1 /\ i + 1 < n /\ i + 1 \in 0 .. n /\ i \in 0 .. n
            BY <2>1, <4>2
          <5>2. g[i + 1] = Redo(g[i], x.updates[i + 1], x.d)
            BY <3>2, <5>1
          <5> QED
            BY <3>3, <5>1, <5>2
        <4> QED
          BY <4>1, <4>2
      <3> QED
        BY <2>1, <3>4, <3>5
    <2> QED
      BY <2>2, <2>3
  <1>2. ASSUME NEW n \in Nat, NEW g, NEW h, Run(g, n), Run(h, n)
        PROVE  g[n] = h[n]
    <2> DEFINE S == {i \in 0 .. n : g[i] # h[i]}
    <2> SUFFICES ASSUME S # {} PROVE FALSE
      OBVIOUS
    <2>0. S \subseteq Nat
      OBVIOUS
    <2>1. PICK i \in S : \A k \in S : i <= k
      <3> HIDE DEF S
      <3> QED
        BY <2>0, LeastNat
    <2>2. i # 0
      BY <1>2, <2>1
    <2>3. i - 1 \in 0 .. n - 1 /\ i - 1 \notin S /\ i - 1 \in 0 .. n
      BY <2>1, <2>2
    <2>4. g[i - 1] = h[i - 1]
      BY <2>3
    <2>5. /\ g[(i - 1) + 1] = Redo(g[i - 1], x.updates[(i - 1) + 1], x.d)
          /\ h[(i - 1) + 1] = Redo(h[i - 1], x.updates[(i - 1) + 1], x.d)
      BY <1>2, <2>3
    <2> QED
      BY <2>1, <2>4, <2>5
  <1>3. PICK F : F = [n \in Nat |-> (CHOOSE g : Run(g, n))[n]]
    OBVIOUS
  <1>4. \A n \in Nat : \A g : Run(g, n) => F[n] = g[n]
    <2> SUFFICES ASSUME NEW n \in Nat, NEW g, Run(g, n) PROVE F[n] = g[n]
      OBVIOUS
    <2>1. Run(CHOOSE h : Run(h, n), n)
      OBVIOUS
    <2> QED
      BY <1>2, <1>3, <2>1
  <1>5. F[0] = st /\ \A n \in Nat : F[n + 1] = Redo(F[n], x.updates[n + 1], x.d)
    <2>1. F[0] = st
      <3>1. PICK g : Run(g, 0)
        BY <1>1
      <3> QED
        BY <1>4, <3>1
    <2>2. ASSUME NEW n \in Nat PROVE F[n + 1] = Redo(F[n], x.updates[n + 1], x.d)
      <3>1. PICK g : Run(g, n + 1)
        <4> HIDE DEF Run
        <4> QED
          BY <1>1
      <3>2. Run(g, n) /\ g[n + 1] = Redo(g[n], x.updates[n + 1], x.d)
        BY <3>1
      <3> QED
        BY <1>4, <3>1, <3>2
    <2> QED
      BY <2>1, <2>2
  <1>6. F = [k \in Nat |-> IF k = 0 THEN st ELSE Redo(F[k - 1], x.updates[k], x.d)]
    <2>1. \A k \in Nat : F[k] = IF k = 0 THEN st ELSE Redo(F[k - 1], x.updates[k], x.d)
      <3> SUFFICES ASSUME NEW k \in Nat, k # 0 PROVE F[k] = Redo(F[k - 1], x.updates[k], x.d)
        BY <1>5
      <3>1. k - 1 \in Nat /\ (k - 1) + 1 = k
        OBVIOUS
      <3> QED
        BY <1>5, <3>1
    <2> QED
      BY <1>3, <2>1
  <1> HIDE DEF Run
  <1>7. f = [k \in Nat |-> IF k = 0 THEN st ELSE Redo(f[k - 1], x.updates[k], x.d)]
    BY <1>6, Zenon DEF f
  <1>8. PICK G : G = [k \in Nat |-> IF k = 0 THEN st ELSE Redo(f[k - 1], x.updates[k], x.d)]
    OBVIOUS
  <1>9. G[0] = st /\ \A n \in Nat : G[n + 1] = Redo(f[n], x.updates[n + 1], x.d)
    BY <1>8
  <1>10. G = f
    BY <1>7, <1>8, Zenon
  <1>11. MergeDataChanges(x, fresh) = G[Len(x.updates)]
    BY <1>0, <1>10, Zenon
  <1> QED
    BY <1>9, <1>10, <1>11 DEF st

\* The updates of a block that write cells, and lie inside its data.
InRange(x) ==
    \A k \in 1 .. Len(x.updates) :
        x.updates[k][2] > 0 /\ x.updates[k][1] + x.updates[k][2] <= Len(x.d)

\* What is written is made again on a block that is at least as long.
LEMMA MergeCells ==
  ASSUME NEW x, x.d \in Data, x.updates \in Updates, InRange(x), NEW fresh \in Data
  PROVE  /\ MergeDataChanges(x, fresh) \in Data
         /\ Len(MergeDataChanges(x, fresh)) = Larger(Len(fresh), Len(x.d))
  <1> DEFINE n == Larger(Len(fresh), Len(x.d))
             u == x.updates
             d == x.d
  <1>1. n \in 0 .. BlockSize
    BY DataLength DEF Larger
  <1>2. PICK f : /\ f[0] = Resize(fresh, n)
                 /\ \A k \in Nat : f[k + 1] = Redo(f[k], u[k + 1], d)
                 /\ MergeDataChanges(x, fresh) = f[Len(u)]
    BY MergeUnfolds
  <1>3. /\ Len(u) \in Nat /\ d \in Data
        /\ \A k \in 1 .. Len(u) : u[k] \in Nat \X Nat /\ u[k][2] > 0 /\ u[k][1] + u[k][2] <= Len(d)
    BY DEF InRange, Updates
  <1> HIDE DEF n, u, d
  <1>4. f[0] \in Data /\ Len(f[0]) = n
    BY <1>1, <1>2, ResizeCells
  <1>5. ASSUME NEW k \in Nat, k < Len(u), f[k] \in Data, Len(f[k]) = n
        PROVE  f[k + 1] \in Data /\ Len(f[k + 1]) = n
    <2>1. k + 1 \in 1 .. Len(u)
      BY <1>3, <1>5
    <2>2. /\ u[k + 1][1] \in Nat /\ u[k + 1][2] \in Nat /\ u[k + 1][2] > 0
          /\ u[k + 1][1] + u[k + 1][2] <= Len(d)
      BY <1>3, <2>1
    <2>3. f[k + 1] = Replace(f[k], u[k + 1][1], u[k + 1][2], d)
      BY <1>2, <2>2 DEF Redo
    <2> QED
      BY <1>3, <1>5, <2>2, <2>3, ReplaceCells
  <1> DEFINE S == {k \in 0 .. Len(u) : ~(f[k] \in Data /\ Len(f[k]) = n)}
  <1>6. S = {}
    <2> SUFFICES ASSUME S # {} PROVE FALSE
      OBVIOUS
    <2>1. S \subseteq Nat
      BY <1>3
    <2>2. PICK k \in S : \A j \in S : k <= j
      <3> HIDE DEF S
      <3> QED
        BY <2>1, LeastNat
    <2>3. k # 0 /\ k \in 0 .. Len(u)
      BY <1>4
    <2>4. k - 1 \in Nat /\ k - 1 < Len(u) /\ k - 1 \notin S
      <3> HIDE DEF S
      <3> QED
        BY <1>3, <2>2, <2>3
    <2>5. f[k - 1] \in Data /\ Len(f[k - 1]) = n
      BY <1>3, <2>4
    <2>6. f[(k - 1) + 1] \in Data /\ Len(f[(k - 1) + 1]) = n
      <3> HIDE DEF S
      <3> QED
        BY <1>5, <2>4, <2>5
    <2> QED
      BY <2>2, <2>3, <2>6
  <1>7. Len(u) \in 0 .. Len(u)
    BY <1>3
  <1>8. f[Len(u)] \in Data /\ Len(f[Len(u)]) = n
    BY <1>6, <1>7
  <1> QED
    BY <1>2, <1>8 DEF n

\* A block that was cut is as long after the merge.
LEMMA MergeCut ==
  ASSUME NEW x, x.d \in Data, NEW i \in 0 .. BlockSize, x.updates = <<<<i, 0>>>>, NEW fresh \in Data
  PROVE  MergeDataChanges(x, fresh) \in Data /\ Len(MergeDataChanges(x, fresh)) = i
  <1> DEFINE n == Larger(Len(fresh), Len(x.d))
             u == x.updates
             d == x.d
  <1>1. n \in 0 .. BlockSize
    BY DataLength DEF Larger
  <1>2. PICK f : /\ f[0] = Resize(fresh, n)
                 /\ \A k \in Nat : f[k + 1] = Redo(f[k], u[k + 1], d)
                 /\ MergeDataChanges(x, fresh) = f[Len(u)]
    BY MergeUnfolds
  <1>3. Len(u) = 1 /\ u[0 + 1][1] = i /\ u[0 + 1][2] = 0
    OBVIOUS
  <1> HIDE DEF n, u, d
  <1>4. f[0] \in Data
    BY <1>1, <1>2, ResizeCells
  <1>5. f[0 + 1] = Redo(f[0], u[0 + 1], d)
    BY <1>2
  <1>6. Redo(f[0], u[0 + 1], d) = Resize(f[0], i)
    BY <1>3 DEF Redo
  <1>7. MergeDataChanges(x, fresh) = Resize(f[0], i)
    BY <1>2, <1>3, <1>5, <1>6
  <1> QED
    BY <1>4, <1>7, ResizeCells

-----------------------------------------------------------------------------
(* The cells of the keys and of the cached blocks.                         *)

KeysOK ==
    /\ md \in [size : 0 .. FileSize, version : Nat \ {0}]
    /\ blocks \in [Block -> [version : Nat, d : Data]]
    /\ versions \in Nat \ {0}
    /\ sent \in [Client -> Nat] /\ last \in [Client -> Block]

\* The block that truncate has cut and put_data stores.
CutBlock(c, b) ==
    pc[c] \in {"putdata", "getdata", "stored"} /\ ret[c] = "cut" /\ b = current[c]

GoodBlock(x) == x.version \in Nat /\ x.d \in Data /\ InRange(x)
CutTo(x, i) == x.version \in Nat /\ x.d \in Data /\ x.updates = <<<<i, 0>>>> /\ Len(x.d) = i

\* The updates of the other blocks write inside their data; a client that
\* truncates has no others.
CellsOK(c) ==
    /\ \A b \in Block : /\ CutBlock(c, b) => CutTo(di[c][b], InBlock(req[c].off))
                        /\ ~CutBlock(c, b) => GoodBlock(di[c][b])
    /\ Truncating(c) => \A b \in Block : ~CutBlock(c, b) => di[c][b].updates = <<>>
    /\ di[c][NBlocks].updates = <<>>

NumbersOK(c) ==
    /\ mdi[c].size \in 0 .. FileSize /\ mdi[c].version \in Nat
    /\ current[c] \in 0 .. NBlocks + 1
    /\ pc[c] \in Flushing \cup {"cut"} => current[c] < NBlocks
    /\ req[c].op = "write" => req[c].len > 0

CellsInv == KeysOK /\ \A c \in Client : CellsOK(c) /\ NumbersOK(c)

\* A step of client c leaves the others alone.
Only(c) ==
    \A x \in Client : x # c =>
        /\ di'[x] = di[x] /\ mdi'[x] = mdi[x] /\ pc'[x] = pc[x] /\ ret'[x] = ret[x]
        /\ req'[x] = req[x] /\ current'[x] = current[x] /\ detached'[x] = detached[x]

\* What is shown of each step.
CellsStep(c) == Only(c) /\ KeysOK' /\ CellsOK(c)' /\ NumbersOK(c)'

LEMMA OthersCells ==
  ASSUME CellsInv, NEW c \in Client, CellsStep(c)
  PROVE  CellsInv'
  <1> SUFFICES ASSUME NEW x \in Client, x # c PROVE CellsOK(x)' /\ NumbersOK(x)'
    BY DEF CellsInv, CellsStep
  <1>1. /\ di'[x] = di[x] /\ mdi'[x] = mdi[x] /\ pc'[x] = pc[x] /\ ret'[x] = ret[x]
        /\ req'[x] = req[x] /\ current'[x] = current[x]
    BY DEF CellsStep, Only
  <1>2. CellsOK(x) /\ NumbersOK(x)
    BY DEF CellsInv
  <1>3. (Truncating(x)' <=> Truncating(x)) /\ \A b : CutBlock(x, b)' <=> CutBlock(x, b)
    BY <1>1 DEF Truncating, CutBlock
  <1>4. CellsOK(x)'
    BY <1>1, <1>2, <1>3 DEF CellsOK
  <1>5. NumbersOK(x)'
    BY <1>1, <1>2 DEF NumbersOK
  <1> QED
    BY <1>4, <1>5

LEMMA NoBlockCells == GoodBlock(NoBlock) /\ GoodBlock(EmptyBlock)
  <1>1. /\ NoBlock.version = 0 /\ NoBlock.d = <<>> /\ NoBlock.updates = <<>>
        /\ EmptyBlock.version = 0 /\ EmptyBlock.d = <<>> /\ EmptyBlock.updates = <<>>
    BY DEF NoBlock, EmptyBlock
  <1> QED
    BY <1>1, EmptyData DEF GoodBlock, InRange

LEMMA FetchedCells ==
  ASSUME KeysOK, NEW b \in Block
  PROVE  GoodBlock(Fetched(b))
  <1>1. Fetched(b).version = blocks[b].version /\ Fetched(b).d = blocks[b].d /\ Fetched(b).updates = <<>>
    BY DEF Fetched
  <1>2. blocks[b].version \in Nat /\ blocks[b].d \in Data
    BY DEF KeysOK
  <1> QED
    BY <1>1, <1>2 DEF GoodBlock, InRange

\* A block that is written to.
LEMMA WriteCells ==
  ASSUME NEW x, IsBlock(x), x.cached, GoodBlock(x),
         NEW off \in Nat, NEW n \in Nat \ {0}, off + n <= BlockSize, NEW c \in Client
  PROVE  /\ GoodBlock(UpdateData(x, off, n, c))
         /\ Len(UpdateData(x, off, n, c).d) = Larger(Len(x.d), off + n)
  <1> DEFINE e == UpdateData(x, off, n, c)
  <1>1. c \in Value /\ x.d \in Data /\ x.version \in Nat /\ x.updates \in Updates
    BY DEF Value, GoodBlock, IsBlock
  <1>2. e.d \in Data /\ Len(e.d) = Larger(Len(x.d), off + n) /\ e.version = x.version
    BY <1>1, UpdateCells
  <1>3. e.updates = Append(x.updates, <<off, n>>)
    BY UpdateShape DEF WithUpdate
  <1>4. Len(x.d) \in Nat /\ Len(x.d) <= Len(e.d) /\ off + n <= Len(e.d)
    BY <1>1, <1>2, DataLength DEF Larger
  <1> HIDE DEF e
  <1>5. InRange(e)
    <2> DEFINE w == <<off, n>>
    <2>1. w \in Nat \X Nat /\ w[1] = off /\ w[2] = n
      OBVIOUS
    <2> HIDE DEF w
    <2>2. /\ Len(Append(x.updates, w)) = Len(x.updates) + 1 /\ Len(x.updates) \in Nat
          /\ \A k \in 1 .. Len(x.updates) : Append(x.updates, w)[k] = x.updates[k]
          /\ Append(x.updates, w)[Len(x.updates) + 1] = w
          /\ \A k \in 1 .. Len(x.updates) : x.updates[k] \in Nat \X Nat
      BY <1>1, <2>1 DEF Updates
    <2> SUFFICES ASSUME NEW k \in 1 .. Len(x.updates) + 1
                 PROVE  /\ Append(x.updates, w)[k][2] > 0
                        /\ Append(x.updates, w)[k][1] + Append(x.updates, w)[k][2] <= Len(e.d)
      BY <1>3, <2>2 DEF InRange, w
    <2>3. CASE k = Len(x.updates) + 1
      BY <1>4, <2>1, <2>2, <2>3
    <2>4. CASE k \in 1 .. Len(x.updates)
      <3>1. x.updates[k][2] > 0 /\ x.updates[k][1] + x.updates[k][2] <= Len(x.d)
        BY <2>4 DEF GoodBlock, InRange
      <3>2. x.updates[k][1] \in Nat /\ x.updates[k][2] \in Nat
        BY <2>2, <2>4
      <3> QED
        BY <1>2, <1>4, <2>2, <2>4, <3>1, <3>2, DataLength
    <2> QED
      BY <2>2, <2>3, <2>4
  <1> QED
    BY <1>1, <1>2, <1>5 DEF GoodBlock, e

\* A step that is not part of a cut.
LEMMA CellsAway ==
  ASSUME FileInv, NEW c \in Client, CellsOK(c),
         \A b \in Block : ~CutBlock(c, b) /\ ~CutBlock(c, b)',
         \A b \in Block : \/ di'[c][b] = di[c][b]
                          \/ GoodBlock(di'[c][b]) /\ (b = NBlocks => di'[c][b].updates = <<>>),
         Truncating(c)' => \A b \in Block : di'[c][b].updates = <<>>
  PROVE  CellsOK(c)'
  <1>1. \A b \in Block : GoodBlock(di'[c][b])
    BY DEF CellsOK
  <1>2. NBlocks \in Block
    BY DEF Block
  <1>3. di'[c][NBlocks].updates = <<>>
    BY <1>2 DEF CellsOK
  <1> QED
    BY <1>1, <1>3 DEF CellsOK, GoodBlock, InRange

\* Truncates have the file to themselves, with nothing unflushed, and do not fail
\* once the size is put.
WholeTruncates ==
    Serial /\ {"shared truncate", "unflushed truncate", "truncate fails"} \subseteq Avoid

LEMMA TruncateAlone ==
  ASSUME WholeTruncates, NEW c \in Client, NEW off \in Offset, BeginTruncate(c, off)
  PROVE  /\ \A b \in Block : di[c][b].updates = <<>>
         /\ \A x \in Client \ {c} : Unaffected(x, off)
  BY Zenon DEF WholeTruncates, BeginTruncate, Avoided, HasUpdates

LEMMA NobodyTruncates ==
  ASSUME WholeTruncates, NEW c \in Client, NEW op, NEW off, NEW n, NEW a \in BOOLEAN,
         Begin(c, op, off, n, a)
  PROVE  \A x \in Client : ~Truncating(x)
  BY Zenon DEF WholeTruncates, Begin, Avoided

LEMMA CutsSucceed ==
  ASSUME WholeTruncates, NEW c \in Client
  PROVE  (Fault(c) => ~Cutting(c)) /\ (GetDataGone(c) => ret[c] # "cut")
  BY Zenon DEF WholeTruncates, Fault, GetDataGone, Avoided

\* What no step of the cells changes.
SameKeys == UNCHANGED <<md, blocks, versions, sent, last>>

LEMMA KeysSame == KeysOK /\ SameKeys => KeysOK'
  BY DEF KeysOK, SameKeys

LEMMA LookedUpNumbers ==
  ASSUME KeysOK, NEW c \in Client, NumbersOK(c)
  PROVE  LookedUp(c).size \in 0 .. FileSize /\ LookedUp(c).version \in Nat
  <1> DEFINE m == [size |-> md.size, version |-> md.version, dirty |-> NBlocks, cached |-> TRUE]
  <1>1. m.size \in 0 .. FileSize /\ m.version \in Nat
    BY DEF KeysOK
  <1>2. LookedUp(c) = IF mdi[c].cached THEN mdi[c] ELSE m
    BY DEF LookedUp
  <1> HIDE DEF m
  <1> QED
    BY <1>1, <1>2 DEF NumbersOK

-----------------------------------------------------------------------------
(* Requests begin, read and write.                                         *)

LEMMA CellsBegin ==
  ASSUME FileInv, CellsInv, NEW c \in Client, NEW op \in {"read", "write", "fsync", "truncate"},
         NEW off \in Offset, NEW n \in 0 .. BlockSize, NEW a \in BOOLEAN,
         Begin(c, op, off, n, a),
         op = "write" => n > 0,
         op = "truncate" => \A b \in Block : di[c][b].updates = <<>>,
         NEW l \in {"block", "fsync"}, Goto(c, l),
         NEW r \in {ret[c], "done", "truncate"}, ret' = [ret EXCEPT ![c] = r], l = "fsync" => r # "cut"
  PROVE  CellsStep(c)
  <1>1. Shape /\ ClientOK(c) /\ KeysOK /\ CellsOK(c) /\ NumbersOK(c)
    BY DEF FileInv, CellsInv
  <1> DEFINE m == LookedUp(c)
  <1>2. /\ pc[c] = "idle" /\ mdi' = [mdi EXCEPT ![c] = m]
        /\ req' = [req EXCEPT ![c] = [op |-> op, off |-> off, len |-> n, append |-> a]]
        /\ detached' = [detached EXCEPT ![c] = FALSE]
        /\ UNCHANGED <<di, current>> /\ SameKeys
    BY DEF Begin, store, SameKeys
  <1>3. m.size \in 0 .. FileSize /\ m.version \in Nat
    BY <1>1, LookedUpNumbers
  <1> HIDE DEF m
  <1>4. Only(c) /\ pc'[c] = l /\ req'[c] = [op |-> op, off |-> off, len |-> n, append |-> a] /\ mdi'[c] = m
    BY <1>1, <1>2 DEF Shape, Only, Goto
  <1>5. KeysOK'
    BY <1>1, <1>2, KeysSame
  <1>6. NumbersOK(c)'
    BY <1>1, <1>2, <1>3, <1>4 DEF NumbersOK, Flushing
  <1>7. CellsOK(c)'
    BY <1>1, <1>2, <1>4, CellsAway DEF CutBlock, Truncating
  <1> QED
    BY <1>4, <1>5, <1>6, <1>7 DEF CellsStep

LEMMA RwCells ==
  ASSUME FileInv, KeysOK, NEW c \in Client, pc[c] = "block", CellsOK(c)
  PROVE  LET b == BlockOf(req[c].off) IN
         GoodBlock(RwBlock(c)) /\ b \in Block /\ b # NBlocks
  <1> DEFINE b == BlockOf(req[c].off)
  <1>1. req[c].off \in Offset
    BY DEF FileInv, Shape, Requests
  <1>2. b \in Block /\ b < NBlocks
    BY <1>1, Blocks
  <1>3. GoodBlock(di[c][b])
    BY <1>2 DEF CellsOK, CutBlock
  <1>4. GoodBlock(Fetched(b)) /\ GoodBlock(EmptyBlock)
    BY <1>2, FetchedCells, NoBlockCells
  <1>5. RwBlock(c) = di[c][b] \/ RwBlock(c) = EmptyBlock \/ RwBlock(c) = Fetched(b)
    BY DEF RwBlock
  <1> HIDE DEF b
  <1>6. GoodBlock(RwBlock(c)) /\ b # NBlocks
    BY <1>2, <1>3, <1>4, <1>5 DEF Block
  <1> QED
    BY <1>2, <1>6 DEF b

LEMMA CellsRead ==
  ASSUME FileInv, CellsInv, NEW c \in Client, DoRead(c)
  PROVE  CellsStep(c)
  <1> DEFINE b == BlockOf(req[c].off)
             e == RwBlock(c)
  <1>1. Shape /\ KeysOK /\ CellsOK(c) /\ NumbersOK(c)
    BY DEF FileInv, CellsInv
  <1>2. /\ pc[c] = "block" /\ di' = [di EXCEPT ![c][b] = e] /\ Goto(c, "idle")
        /\ UNCHANGED <<mdi, req, ret, current, detached>> /\ SameKeys
    BY DEF DoRead, Done, locals, store, SameKeys
  <1>3. GoodBlock(e) /\ b \in Block /\ b # NBlocks
    BY <1>1, <1>2, RwCells
  <1> HIDE DEF b, e
  <1>4. /\ Only(c) /\ pc'[c] = "idle" /\ di'[c][b] = e
        /\ \A k \in Block : k # b => di'[c][k] = di[c][k]
    BY <1>1, <1>2, <1>3 DEF Shape, Only, Goto
  <1>5. CellsOK(c)'
    BY <1>1, <1>2, <1>3, <1>4, CellsAway DEF CutBlock, Truncating
  <1>6. NumbersOK(c)'
    BY <1>1, <1>2, <1>4 DEF NumbersOK, Flushing
  <1> QED
    BY <1>1, <1>2, <1>4, <1>5, <1>6, KeysSame DEF CellsStep

\* A write does not leave its block.
LEMMA RequestSize ==
  ASSUME Shape, NEW c \in Client
  PROVE  LET i == InBlock(req[c].off) IN
         /\ i \in Nat /\ i < BlockSize /\ Size(c) \in Nat /\ i + Size(c) <= BlockSize
         /\ req[c].len > 0 => Size(c) > 0
  <1> DEFINE i == InBlock(req[c].off)
  <1>1. req[c].off \in Offset /\ req[c].len \in 0 .. BlockSize
    BY DEF Shape, Requests
  <1>2. i \in Nat /\ i < BlockSize
    BY <1>1, Blocks, Division
  <1>3. Size(c) = IF req[c].len < BlockSize - i THEN req[c].len ELSE BlockSize - i
    BY DEF Size, InBlockSize, Smaller
  <1> HIDE DEF i
  <1>4. Size(c) \in Nat /\ i + Size(c) <= BlockSize /\ (req[c].len > 0 => Size(c) > 0)
    BY <1>1, <1>2, <1>3
  <1> QED
    BY <1>2, <1>4 DEF i

\* The metadata of a step that changes at most which block is dirty.
SameSize(c) == mdi'[c].size = mdi[c].size /\ mdi'[c].version = mdi[c].version

LEMMA CellsWrite ==
  ASSUME FileInv, CellsInv, NEW c \in Client, DoWrite(c)
  PROVE  CellsStep(c) /\ SameSize(c) /\ mdi'[c].cached = mdi[c].cached
  <1> DEFINE b == BlockOf(req[c].off)
             i == InBlock(req[c].off)
             x == RwBlock(c)
             n == Size(c)
             e == UpdateData(x, i, n, c)
  <1>1. Shape /\ KeysOK /\ CellsOK(c) /\ NumbersOK(c)
    BY DEF FileInv, CellsInv
  <1>2. /\ pc[c] = "block" /\ req[c].op = "write" /\ di' = [di EXCEPT ![c][b] = e]
        /\ \/ SetDirty(c, b) /\ Written(c)
           \/ Goto(c, "fsync") /\ ret' = [ret EXCEPT ![c] = "setdirty"] /\ mdi' = mdi
        /\ UNCHANGED <<req, current, detached>> /\ SameKeys
    BY DEF DoWrite, store, SameKeys
  <1>3. GoodBlock(x) /\ b \in Block /\ b # NBlocks /\ IsBlock(x) /\ x.cached
    BY <1>1, <1>2, RwCells, RwShape
  <1>4. i \in Nat /\ n \in Nat \ {0} /\ i + n <= BlockSize
    BY <1>1, <1>2, RequestSize DEF NumbersOK
  <1> HIDE DEF b, i, x, n
  <1>5. GoodBlock(e)
    BY <1>3, <1>4, WriteCells
  <1> HIDE DEF e
  <1>6. /\ di'[c][b] = e /\ \A k \in Block : k # b => di'[c][k] = di[c][k]
        /\ \A k \in Client : k # c => di'[k] = di[k]
    BY <1>1, <1>2, <1>3 DEF Shape
  <1>7. /\ SameSize(c) /\ mdi'[c].cached = mdi[c].cached
        /\ \A k \in Client : k # c => mdi'[k] = mdi[k]
    BY <1>1, <1>2 DEF Shape, IsMd, SetDirty, SameSize
  <1>8. PcFrame(c) /\ pc'[c] \in {"fsync", "idle"} /\ (pc'[c] = "fsync" => ret'[c] # "cut")
    <2>1. CASE Written(c)
      BY <1>1, <2>1, WrittenFacts
    <2>2. CASE Goto(c, "fsync") /\ ret' = [ret EXCEPT ![c] = "setdirty"]
      BY <1>1, <2>2 DEF Shape, PcFrame, Goto, Labels
    <2> QED
      BY <1>2, <2>1, <2>2
  <1>9. Only(c)
    BY <1>2, <1>6, <1>7, <1>8 DEF Only, PcFrame
  <1>10. CellsOK(c)'
    BY <1>1, <1>2, <1>3, <1>5, <1>6, <1>8, CellsAway DEF CutBlock, Truncating
  <1>11. NumbersOK(c)'
    BY <1>1, <1>2, <1>7, <1>8 DEF NumbersOK, SameSize, Flushing
  <1> QED
    BY <1>1, <1>2, <1>7, <1>9, <1>10, <1>11, KeysSame DEF CellsStep

LEMMA CellsBuffered ==
  ASSUME Serial, FileInv, CellsInv, NEW c \in Client, NEW off \in Offset, BufferedWrite(c, off)
  PROVE  /\ CellsStep(c) /\ SameSize(c) /\ mdi'[c].cached = mdi[c].cached
         /\ ~Truncating(c) /\ pc[c] \notin Flushing
  <1> DEFINE b == BlockOf(off)
             i == InBlock(off)
             x == di[c][b]
             e == UpdateData(x, i, 1, c)
  <1>1. Shape /\ ClientOK(c) /\ KeysOK /\ CellsOK(c) /\ NumbersOK(c)
    BY DEF FileInv, CellsInv
  <1>2. /\ x.cached /\ di' = [di EXCEPT ![c][b] = UpdateData(@, i, 1, c)]
        /\ mdi' = [mdi EXCEPT ![c].dirty = b]
        /\ UNCHANGED <<pc, req, ret, current, detached>> /\ SameKeys
    BY DEF BufferedWrite, locals, store, SameKeys
  <1>3. ~Truncating(c) /\ pc[c] \notin Flushing
    BY Zenon DEF BufferedWrite, Serial, Avoided, Flushing
  <1>4. b \in Block /\ b < NBlocks /\ i \in Nat /\ i + 1 <= BlockSize
    BY Blocks, Division
  <1>5. b # NBlocks /\ \A k \in Block : ~CutBlock(c, k) /\ ~CutBlock(c, k)'
    BY <1>2, <1>3, <1>4 DEF CutBlock, Flushing, Block
  <1>6. GoodBlock(x) /\ IsBlock(x)
    BY <1>1, <1>4, <1>5 DEF CellsOK, Shape
  <1>7. di' = [di EXCEPT ![c][b] = e]
    BY <1>2
  <1> HIDE DEF b, i, x
  <1>8. GoodBlock(e)
    BY <1>2, <1>4, <1>6, WriteCells
  <1> HIDE DEF e
  <1>9. di'[c][b] = e /\ \A k \in Block : k # b => di'[c][k] = di[c][k]
    BY <1>1, <1>4, <1>7 DEF Shape
  <1>10. Only(c) /\ SameSize(c) /\ mdi'[c].cached = mdi[c].cached
    BY <1>1, <1>2, <1>7 DEF Shape, IsMd, SameSize, Only
  <1>11. CellsOK(c)'
    BY <1>1, <1>2, <1>3, <1>5, <1>8, <1>9, CellsAway DEF Truncating
  <1>12. NumbersOK(c)'
    BY <1>1, <1>2, <1>10 DEF NumbersOK, SameSize
  <1> QED
    BY <1>1, <1>2, <1>3, <1>10, <1>11, <1>12, KeysSame DEF CellsStep

-----------------------------------------------------------------------------
(* Flushes.                                                                *)

\* hflat_fsync returns with the size and the version of m.
LEMMA ReturnMd ==
  ASSUME Shape, NEW c \in Client, NEW err \in {"ok", "eio", "again"}, NEW m, IsMd(m),
         FsyncReturns(c, err, m)
  PROVE  /\ mdi'[c].size = m.size /\ mdi'[c].version = m.version /\ mdi'[c].cached = m.cached
         /\ pc'[c] \in {"idle", "fsync", "again", "truncate"}
         /\ PcFrame(c) /\ \A x \in Client : x # c => mdi'[x] = mdi[x]
  <1>1. MdFrame(c) /\ PcFrame(c) /\ ReturnCases(c, err, m)
    BY ReturnFacts
  <1>2. \/ mdi' = [mdi EXCEPT ![c] = m]
        \/ mdi' = [mdi EXCEPT ![c] = [m EXCEPT !.dirty = BlockOf(req[c].off)]]
    BY Zenon DEF FsyncReturns
  <1>3. mdi'[c].size = m.size /\ mdi'[c].version = m.version
    BY <1>2 DEF Shape, IsMd
  <1> QED
    BY <1>1, <1>3 DEF MdFrame, ReturnCases

\* hflat_fsync returns, the blocks are the same or without the one it flushed.
LEMMA CellsReturn ==
  ASSUME FileInv, CellsInv, NEW c \in Client, NEW err \in {"ok", "eio", "again"}, NEW m, IsMd(m),
         m.size \in 0 .. FileSize, m.version \in Nat, FsyncReturns(c, err, m),
         pc[c] \in {"fsync"} \cup Flushing, ret[c] # "cut",
         \A b \in Block : \/ di'[c][b] = di[c][b]
                          \/ GoodBlock(di'[c][b]) /\ di'[c][b].updates = <<>>,
         \A x \in Client : x # c => di'[x] = di[x] /\ detached'[x] = detached[x],
         UNCHANGED <<req, current>>, SameKeys
  PROVE  CellsStep(c)
  <1>1. Shape /\ KeysOK /\ CellsOK(c) /\ NumbersOK(c)
    BY DEF FileInv, CellsInv
  <1>2. /\ mdi'[c].size = m.size /\ mdi'[c].version = m.version
        /\ pc'[c] \in {"idle", "fsync", "again", "truncate"}
        /\ PcFrame(c) /\ \A x \in Client : x # c => mdi'[x] = mdi[x]
    BY <1>1, ReturnMd
  <1>3. Only(c)
    BY <1>2 DEF Only, PcFrame
  <1>4. \A b \in Block : ~CutBlock(c, b) /\ ~CutBlock(c, b)'
    BY <1>2 DEF CutBlock
  <1>5. Truncating(c)' => Truncating(c)
    BY DEF Truncating, Flushing
  <1>6. CellsOK(c)'
    BY <1>1, <1>4, <1>5, CellsAway DEF CellsOK
  <1>7. NumbersOK(c)'
    BY <1>1, <1>2 DEF NumbersOK, Flushing
  <1> QED
    BY <1>1, <1>3, <1>6, <1>7, KeysSame DEF CellsStep

\* The end of a block in the file.
LEMMA BlockEnd ==
  ASSUME NEW b \in Block, b < NBlocks, NEW s \in Data
  PROVE  b * BlockSize + Len(s) \in 0 .. FileSize
  <1>1. Len(s) \in Nat /\ Len(s) <= BlockSize /\ b \in Nat /\ b + 1 <= NBlocks
    BY DataLength DEF Block
  <1>2. (b + 1) * BlockSize <= NBlocks * BlockSize
    BY <1>1
  <1>3. b * BlockSize \in Nat /\ b * BlockSize + BlockSize <= NBlocks * BlockSize
    BY <1>1, <1>2
  <1> QED
    BY <1>1, <1>3 DEF FileSize

LEMMA DirtyBlock ==
  ASSUME FileInv, NEW c \in Client, CellsOK(c), Dirty(c)
  PROVE  /\ mdi[c].dirty \in Block /\ mdi[c].dirty < NBlocks /\ mdi[c].cached
         /\ LookedUp(c) = mdi[c]
  <1>1. IsMd(mdi[c])
    BY DEF FileInv, Shape
  <1>2. mdi[c].dirty # NBlocks /\ mdi[c].cached
    BY DEF Dirty, HasUpdates, CellsOK
  <1> QED
    BY <1>1, <1>2 DEF IsMd, Block, LookedUp

LEMMA CellsFsync ==
  ASSUME FileInv, CellsInv, NEW c \in Client, Fsync(c)
  PROVE  CellsStep(c)
  <1>1. Shape /\ ClientOK(c) /\ KeysOK /\ CellsOK(c) /\ NumbersOK(c)
    BY DEF FileInv, CellsInv
  <1>2. pc[c] = "fsync" /\ UNCHANGED <<di, req, detached>> /\ SameKeys
    BY DEF Fsync, store, SameKeys
  <1>3. ret[c] # "cut"
    BY <1>1, <1>2 DEF ClientOK, CutOK
  <1>4. CASE ~Dirty(c) /\ FsyncReturns(c, "ok", LookedUp(c)) /\ current' = current
    <2> DEFINE m == LookedUp(c)
    <2>1. IsMd(m) /\ m.size \in 0 .. FileSize /\ m.version \in Nat /\ FsyncReturns(c, "ok", m)
      BY <1>1, <1>4, LookedUpShape, LookedUpNumbers
    <2> HIDE DEF m
    <2> QED
      BY <1>2, <1>3, <1>4, <2>1, CellsReturn
  <1>5. CASE /\ Dirty(c) /\ mdi' = [mdi EXCEPT ![c].size = NewSize(c, mdi[c].dirty, LookedUp(c).size)]
             /\ current' = [current EXCEPT ![c] = mdi[c].dirty]
             /\ Goto(c, "putmd") \/ Goto(c, "putdata")
             /\ ret' = ret
    <2> DEFINE b == mdi[c].dirty
               size == NewSize(c, b, mdi[c].size)
    <2>1. b \in Block /\ b < NBlocks /\ LookedUp(c) = mdi[c]
      BY <1>1, <1>5, DirtyBlock
    <2>2. \A k \in Block : ~CutBlock(c, k) /\ ~CutBlock(c, k)'
      BY <1>3, <1>5 DEF CutBlock
    <2>3. di[c][b].d \in Data /\ mdi[c].size \in 0 .. FileSize
      BY <1>1, <2>1, <2>2 DEF CellsOK, GoodBlock, NumbersOK
    <2>4. size \in 0 .. FileSize
      BY <2>1, <2>3, BlockEnd DEF NewSize, Larger
    <2>5. mdi' = [mdi EXCEPT ![c].size = size]
      BY <1>5, <2>1
    <2> HIDE DEF size, b
    <2>6. /\ Only(c) /\ mdi'[c].size = size /\ mdi'[c].version = mdi[c].version
          /\ pc'[c] \in {"putmd", "putdata"} /\ current'[c] = b
      BY <1>1, <1>2, <1>5, <2>5 DEF Shape, IsMd, Only, Goto, b
    <2>7. CellsOK(c)'
      BY <1>1, <1>2, <2>2, CellsAway DEF CellsOK, Truncating
    <2>8. NumbersOK(c)'
      BY <1>1, <1>2, <2>1, <2>4, <2>6 DEF NumbersOK, Block
    <2> QED
      BY <1>1, <1>2, <2>6, <2>7, <2>8, KeysSame DEF CellsStep
  <1> QED
    BY <1>4, <1>5 DEF Fsync

LEMMA CellsPutMd ==
  ASSUME FileInv, CellsInv, NEW c \in Client, PutMd(c)
  PROVE  CellsStep(c)
  <1>1. Shape /\ ClientOK(c) /\ KeysOK /\ CellsOK(c) /\ NumbersOK(c)
    BY DEF FileInv, CellsInv
  <1>2. /\ pc[c] = "putmd" /\ Goto(c, "putdata")
        /\ UNCHANGED <<di, req, ret, current, detached, blocks, sent, last>>
        /\ mdi' = [mdi EXCEPT ![c].version = versions + 1]
        /\ versions' = versions + 1 /\ md' = [size |-> mdi[c].size, version |-> versions + 1]
    BY DEF PutMd, PutMetadata, locals
  <1>3. KeysOK'
    BY <1>1, <1>2 DEF KeysOK, NumbersOK
  <1>4. /\ Only(c) /\ mdi'[c].size = mdi[c].size /\ mdi'[c].version = versions + 1
        /\ pc'[c] = "putdata"
    BY <1>1, <1>2 DEF Shape, IsMd, Only, Goto
  <1>5. \A k \in Block : ~CutBlock(c, k) /\ ~CutBlock(c, k)'
    BY <1>1, <1>2 DEF CutBlock, ClientOK, CutOK
  <1>6. CellsOK(c)'
    BY <1>1, <1>2, <1>5, CellsAway DEF CellsOK, Truncating
  <1>7. NumbersOK(c)'
    BY <1>1, <1>2, <1>4 DEF NumbersOK, KeysOK, Flushing
  <1> QED
    BY <1>3, <1>4, <1>6, <1>7 DEF CellsStep

\* The block that an append takes back.
LEMMA DropCells ==
  ASSUME FileInv, NEW c \in Client, NEW b, di' = [di EXCEPT ![c][b] = NoBlock]
  PROVE  /\ \A x \in Client : x # c => di'[x] = di[x]
         /\ \A k \in Block : k # b => di'[c][k] = di[c][k]
         /\ b \in Block => di'[c][b] = NoBlock
         /\ \A k \in Block : \/ di'[c][k] = di[c][k]
                             \/ GoodBlock(di'[c][k]) /\ di'[c][k].updates = <<>>
  <1> DEFINE e == NoBlock
  <1>1. GoodBlock(e) /\ e.updates = <<>> /\ di' = [di EXCEPT ![c][b] = e]
    BY NoBlockCells, NoBlockShape
  <1> HIDE DEF e
  <1>2. /\ \A x \in Client : x # c => di'[x] = di[x]
        /\ \A k \in Block : k # b => di'[c][k] = di[c][k]
        /\ b \in Block => di'[c][b] = e
    BY <1>1 DEF FileInv, Shape
  <1> QED
    BY <1>1, <1>2 DEF e

LEMMA NoMdNumbers == NoMd.size \in 0 .. FileSize /\ NoMd.version \in Nat /\ IsMd(NoMd)
                     /\ ~NoMd.cached /\ NoMd.size = 0 /\ NoMd.version = 0
  <1>1. FileSize \in Nat
    BY DEF FileSize
  <1> QED
    BY <1>1, NoBlockShape DEF NoMd

\* The metadata leaves the cache, the blocks stay.
LEMMA CellsNoMd ==
  ASSUME FileInv, CellsInv, NEW c \in Client, mdi' = [mdi EXCEPT ![c] = NoMd],
         pc[c] \in {"idle", "truncate", "putmd"},
         NEW l \in {"idle", "again", "fsync", "putdata"}, Goto(c, l),
         l = "putdata" => pc[c] = "putmd", pc[c] = "idle" => l = "idle",
         NEW dt, detached' = [detached EXCEPT ![c] = dt],
         UNCHANGED <<di, req, ret, current>>, SameKeys
  PROVE  CellsStep(c)
  <1> DEFINE m == NoMd
  <1>1. Shape /\ ClientOK(c) /\ KeysOK /\ CellsOK(c) /\ NumbersOK(c)
    BY DEF FileInv, CellsInv
  <1>2. m.size \in 0 .. FileSize /\ m.version \in Nat /\ mdi' = [mdi EXCEPT ![c] = m]
    BY NoMdNumbers
  <1> HIDE DEF m
  <1>3. Only(c) /\ mdi'[c] = m /\ pc'[c] = l
    BY <1>1, <1>2 DEF Shape, Only, Goto
  <1>4. \A k \in Block : ~CutBlock(c, k) /\ ~CutBlock(c, k)'
    BY <1>1, <1>3 DEF CutBlock, ClientOK, CutOK
  <1>5. CellsOK(c)'
    BY <1>1, <1>3, <1>4, CellsAway DEF CellsOK, Truncating
  <1>6. NumbersOK(c)'
    BY <1>1, <1>2, <1>3 DEF NumbersOK, Flushing
  <1> QED
    BY <1>1, <1>3, <1>5, <1>6, KeysSame DEF CellsStep

\* An append takes its block back.
LEMMA CellsTakenBack ==
  ASSUME FileInv, CellsInv, NEW c \in Client, pc[c] = "putmd", NEW err \in {"eio", "again"},
         di' = [di EXCEPT ![c][current[c]] = NoBlock], FsyncReturns(c, err, NoMd),
         detached' = [detached EXCEPT ![c] = TRUE], UNCHANGED <<req, current>>, SameKeys
  PROVE  CellsStep(c)
  <1> DEFINE m == NoMd
  <1>1. IsMd(m) /\ m.size \in 0 .. FileSize /\ m.version \in Nat /\ FsyncReturns(c, err, m)
    BY NoMdNumbers
  <1> HIDE DEF m
  <1>2. ret[c] # "cut" /\ \A x \in Client : x # c => detached'[x] = detached[x]
    BY DEF FileInv, ClientOK, CutOK, Shape
  <1> QED
    BY <1>1, <1>2, DropCells, CellsReturn DEF Flushing

LEMMA CellsPutMdMismatch ==
  ASSUME FileInv, CellsInv, NEW c \in Client, PutMdMismatch(c)
  PROVE  CellsStep(c)
  <1>1. /\ pc[c] = "putmd" /\ detached' = [detached EXCEPT ![c] = TRUE]
        /\ UNCHANGED <<req, current>> /\ SameKeys
    BY DEF PutMdMismatch, store, SameKeys
  <1>2. CASE di' = [di EXCEPT ![c][current[c]] = NoBlock] /\ FsyncReturns(c, "again", NoMd)
    BY <1>1, <1>2, CellsTakenBack
  <1>3. CASE mdi' = [mdi EXCEPT ![c] = NoMd] /\ Goto(c, "fsync") /\ UNCHANGED <<di, ret>>
    BY <1>1, <1>3, CellsNoMd
  <1> QED
    BY <1>2, <1>3 DEF PutMdMismatch

LEMMA CellsAgain ==
  ASSUME FileInv, CellsInv, NEW c \in Client, Again(c)
  PROVE  CellsStep(c)
  <1> DEFINE m == LookedUp(c)
             n == Size(c)
  <1>1. Shape /\ ClientOK(c) /\ KeysOK /\ CellsOK(c) /\ NumbersOK(c)
    BY DEF FileInv, CellsInv
  <1>2. /\ pc[c] = "again" /\ mdi' = [mdi EXCEPT ![c] = m]
        /\ detached' = [detached EXCEPT ![c] = FALSE] /\ req' = [req EXCEPT ![c].len = n]
        /\ UNCHANGED <<di, current>> /\ SameKeys
        /\ \/ req[c].op = "write" /\ Goto(c, "block") /\ ret' = ret
           \/ req[c].op = "truncate" /\ Goto(c, "fsync") /\ ret' = [ret EXCEPT ![c] = "truncate"]
    BY DEF Again, store, SameKeys
  <1>3. m.size \in 0 .. FileSize /\ m.version \in Nat
    BY <1>1, LookedUpNumbers
  <1>4. n \in Nat /\ (req[c].len > 0 => n > 0)
    BY <1>1, RequestSize
  <1> HIDE DEF m, n
  <1>5. /\ Only(c) /\ mdi'[c] = m /\ req'[c].op = req[c].op /\ req'[c].off = req[c].off /\ req'[c].len = n
        /\ pc'[c] \in {"block", "fsync"}
    BY <1>1, <1>2 DEF Shape, Requests, Only, Goto
  <1>6. \A k \in Block : ~CutBlock(c, k) /\ ~CutBlock(c, k)'
    BY <1>2, <1>5 DEF CutBlock
  <1>7. CellsOK(c)'
    BY <1>1, <1>2, <1>5, <1>6, CellsAway DEF CellsOK, Truncating
  <1>8. NumbersOK(c)'
    BY <1>1, <1>2, <1>3, <1>4, <1>5 DEF NumbersOK, Flushing
  <1> QED
    BY <1>1, <1>2, <1>5, <1>7, <1>8, KeysSame DEF CellsStep

\* What put_data stores.
LEMMA FlushedBlock ==
  ASSUME FileInv, CellsInv, NEW c \in Client, pc[c] \in {"putdata", "getdata", "stored"}
  PROVE  /\ current[c] \in Block /\ current[c] < NBlocks /\ IsBlock(di[c][current[c]])
         /\ di[c][current[c]].d \in Data
         /\ ret[c] # "cut" => GoodBlock(di[c][current[c]])
         /\ ret[c] = "cut" => CutTo(di[c][current[c]], InBlock(req[c].off))
  <1>1. current[c] \in Block /\ current[c] < NBlocks
    BY DEF CellsInv, NumbersOK, Flushing, Block
  <1>2. IsBlock(di[c][current[c]])
    BY <1>1 DEF FileInv, Shape
  <1>3. CutBlock(c, current[c]) <=> ret[c] = "cut"
    BY DEF CutBlock
  <1>4. /\ ret[c] # "cut" => GoodBlock(di[c][current[c]])
        /\ ret[c] = "cut" => CutTo(di[c][current[c]], InBlock(req[c].off))
    BY <1>1, <1>3 DEF CellsInv, CellsOK
  <1> QED
    BY <1>1, <1>2, <1>4 DEF GoodBlock, CutTo

\* put_data goes on with the same block.
LEMMA CellsGoOn ==
  ASSUME FileInv, CellsInv, NEW c \in Client, NEW l \in {"putdata", "getdata", "stored"},
         pc[c] \in {"putdata", "getdata"}, Goto(c, l),
         UNCHANGED <<mdi, req, ret, current, detached>>, KeysOK',
         \A x \in Client : x # c => di'[x] = di[x],
         \A b \in Block : b # current[c] => di'[c][b] = di[c][b],
         di'[c][current[c]].updates = di[c][current[c]].updates,
         ret[c] # "cut" => GoodBlock(di'[c][current[c]]),
         ret[c] = "cut" => CutTo(di'[c][current[c]], InBlock(req[c].off))
  PROVE  CellsStep(c)
  <1>1. Shape /\ KeysOK /\ CellsOK(c) /\ NumbersOK(c)
    BY DEF FileInv, CellsInv
  <1>2. Only(c) /\ pc'[c] = l
    BY <1>1 DEF Shape, Only, Goto
  <1>3. current[c] \in Block /\ current[c] < NBlocks /\ NBlocks \in Block
    BY FlushedBlock DEF Block
  <1>4. \A b \in Block : CutBlock(c, b)' <=> CutBlock(c, b)
    BY <1>2 DEF CutBlock
  <1>5. \A b \in Block : CutBlock(c, b) <=> (ret[c] = "cut" /\ b = current[c])
    BY DEF CutBlock
  <1>6. Truncating(c)' <=> Truncating(c)
    BY <1>2 DEF Truncating
  <1>7. \A b \in Block : di'[c][b].updates = di[c][b].updates
    OBVIOUS
  <1>8. ASSUME NEW b \in Block
        PROVE  /\ CutBlock(c, b)' => CutTo(di'[c][b], InBlock(req'[c].off))
               /\ ~CutBlock(c, b)' => GoodBlock(di'[c][b])
    <2>1. CASE b = current[c]
      BY <1>4, <1>5, <2>1
    <2>2. CASE b # current[c]
      BY <1>1, <1>4, <1>5, <2>2 DEF CellsOK
    <2> QED
      BY <2>1, <2>2
  <1>9. /\ Truncating(c)' => \A b \in Block : ~CutBlock(c, b)' => di'[c][b].updates = <<>>
        /\ di'[c][NBlocks].updates = <<>>
    BY <1>1, <1>3, <1>4, <1>6, <1>7 DEF CellsOK
  <1>10. CellsOK(c)'
    BY <1>8, <1>9 DEF CellsOK, CutTo, GoodBlock, InRange
  <1>11. NumbersOK(c)'
    BY <1>1, <1>2 DEF NumbersOK, Flushing
  <1> QED
    BY <1>2, <1>10, <1>11 DEF CellsStep

LEMMA CellsPutData ==
  ASSUME FileInv, CellsInv, NEW c \in Client, PutData(c)
  PROVE  CellsStep(c)
  <1>1. KeysOK
    BY DEF CellsInv
  <1>2. /\ pc[c] = "putdata" /\ Goto(c, "stored") /\ versions' = versions + 1
        /\ blocks' = [blocks EXCEPT ![current[c]] = [version |-> versions + 1, d |-> di[c][current[c]].d]]
        /\ sent' = [sent EXCEPT ![c] = versions + 1]
        /\ UNCHANGED <<di, mdi, req, ret, current, detached, md, last>>
    BY DEF PutData, caches
  <1>3. /\ current[c] \in Block /\ di[c][current[c]].d \in Data
        /\ ret[c] # "cut" => GoodBlock(di[c][current[c]])
        /\ ret[c] = "cut" => CutTo(di[c][current[c]], InBlock(req[c].off))
    BY <1>2, FlushedBlock
  <1>4. KeysOK'
    BY <1>1, <1>2, <1>3 DEF KeysOK
  <1> QED
    BY <1>2, <1>3, <1>4, CellsGoOn

LEMMA CellsPutDataMismatch ==
  ASSUME FileInv, CellsInv, NEW c \in Client, PutDataMismatch(c)
  PROVE  CellsStep(c)
  <1>1. /\ pc[c] = "putdata" /\ Goto(c, "getdata")
        /\ UNCHANGED <<di, mdi, req, ret, current, detached>> /\ SameKeys
    BY DEF PutDataMismatch, caches, locals, store, SameKeys
  <1>2. /\ ret[c] # "cut" => GoodBlock(di[c][current[c]])
        /\ ret[c] = "cut" => CutTo(di[c][current[c]], InBlock(req[c].off))
    BY <1>1, FlushedBlock
  <1>3. KeysOK'
    BY <1>1, KeysSame DEF CellsInv
  <1> QED
    BY <1>1, <1>2, <1>3, CellsGoOn

\* The merge.
LEMMA GetDataCells ==
  ASSUME FileInv, CellsInv, NEW c \in Client, GetData(c)
  PROVE  LET b == current[c] IN
         /\ \A x \in Client : x # c => di'[x] = di[x]
         /\ \A k \in Block : k # b => di'[c][k] = di[c][k]
         /\ di'[c][b].updates = di[c][b].updates /\ di'[c][b].version = blocks[b].version
         /\ di'[c][b].d \in Data
         /\ ret[c] # "cut" => Len(di'[c][b].d) = Larger(Len(blocks[b].d), Len(di[c][b].d))
         /\ ret[c] = "cut" => Len(di'[c][b].d) = InBlock(req[c].off)
  <1> DEFINE b == current[c]
             d == MergeDataChanges(di[c][b], blocks[b].d)
             v == blocks[b].version
  <1>1. Shape /\ KeysOK
    BY DEF FileInv, CellsInv
  <1>2. /\ pc[c] = "getdata" /\ di' = [di EXCEPT ![c][b].d = d, ![c][b].version = v]
    BY DEF GetData
  <1>3. /\ b \in Block /\ IsBlock(di[c][b])
        /\ ret[c] # "cut" => GoodBlock(di[c][b])
        /\ ret[c] = "cut" => CutTo(di[c][b], InBlock(req[c].off))
    BY <1>2, FlushedBlock
  <1>4. blocks[b].d \in Data
    BY <1>1, <1>3 DEF KeysOK
  <1>5. InBlock(req[c].off) \in 0 .. BlockSize
    BY <1>1, RequestSize
  <1>6. ret[c] # "cut" => d \in Data /\ Len(d) = Larger(Len(blocks[b].d), Len(di[c][b].d))
    <2> DEFINE x == di[c][b]
               fresh == blocks[b].d
    <2> SUFFICES ASSUME ret[c] # "cut"
                 PROVE  MergeDataChanges(x, fresh) \in Data /\ Len(MergeDataChanges(x, fresh)) = Larger(Len(fresh), Len(x.d))
      OBVIOUS
    <2>1. x.d \in Data /\ x.updates \in Updates /\ InRange(x) /\ fresh \in Data
      BY <1>3, <1>4 DEF GoodBlock, IsBlock
    <2> HIDE DEF x, fresh, b
    <2> QED
      BY <2>1, MergeCells
  <1>7. ret[c] = "cut" => d \in Data /\ Len(d) = InBlock(req[c].off)
    <2> DEFINE x == di[c][b]
               fresh == blocks[b].d
               i == InBlock(req[c].off)
    <2> SUFFICES ASSUME ret[c] = "cut"
                 PROVE  MergeDataChanges(x, fresh) \in Data /\ Len(MergeDataChanges(x, fresh)) = i
      OBVIOUS
    <2>1. x.d \in Data /\ x.updates = <<<<i, 0>>>> /\ i \in 0 .. BlockSize /\ fresh \in Data
      BY <1>3, <1>4, <1>5 DEF CutTo
    <2> HIDE DEF x, fresh, b, i
    <2> QED
      BY <2>1, MergeCut
  <1> HIDE DEF d, v, b
  <1>8. /\ \A x \in Client : x # c => di'[x] = di[x]
        /\ \A k \in Block : k # b => di'[c][k] = di[c][k]
        /\ di'[c][b].updates = di[c][b].updates /\ di'[c][b].version = v /\ di'[c][b].d = d
    BY <1>1, <1>2, <1>3 DEF Shape, IsBlock
  <1> QED
    BY <1>6, <1>7, <1>8 DEF b, v

LEMMA CellsGetData ==
  ASSUME FileInv, CellsInv, NEW c \in Client, GetData(c)
  PROVE  CellsStep(c)
  <1> DEFINE b == current[c]
             e == di'[c][b]
             x == di[c][b]
  <1>1. Shape /\ KeysOK
    BY DEF FileInv, CellsInv
  <1>2. /\ pc[c] = "getdata" /\ Goto(c, "putdata")
        /\ UNCHANGED <<mdi, req, ret, current, detached>> /\ SameKeys
    BY DEF GetData, locals, store, SameKeys
  <1>3. /\ b \in Block /\ IsBlock(x) /\ x.d \in Data
        /\ ret[c] # "cut" => GoodBlock(x)
        /\ ret[c] = "cut" => CutTo(x, InBlock(req[c].off))
    BY <1>2, FlushedBlock
  <1>4. blocks[b].version \in Nat /\ blocks[b].d \in Data
    BY <1>1, <1>3 DEF KeysOK
  <1>5. /\ \A y \in Client : y # c => di'[y] = di[y]
        /\ \A k \in Block : k # b => di'[c][k] = di[c][k]
        /\ e.updates = x.updates /\ e.version = blocks[b].version
        /\ e.d \in Data
        /\ ret[c] # "cut" => Len(e.d) = Larger(Len(blocks[b].d), Len(x.d))
        /\ ret[c] = "cut" => Len(e.d) = InBlock(req[c].off)
    BY GetDataCells
  <1>6. ret[c] = "cut" => CutTo(e, InBlock(req[c].off))
    <2> HIDE DEF e, x, b
    <2> QED
      BY <1>3, <1>4, <1>5 DEF CutTo
  <1>7. ret[c] # "cut" => GoodBlock(e)
    <2> SUFFICES ASSUME ret[c] # "cut" PROVE InRange(e)
      BY <1>4, <1>5 DEF GoodBlock
    <2>1. Len(x.d) \in Nat /\ Len(blocks[b].d) \in Nat
      BY <1>3, <1>4, DataLength
    <2>2. Len(x.d) <= Len(e.d) /\ Len(e.d) \in Nat /\ e.updates = x.updates
      <3> HIDE DEF e, x
      <3> QED
        BY <1>5, <2>1 DEF Larger
    <2>3. InRange(x) /\ x.updates \in Updates
      BY <1>3 DEF GoodBlock, IsBlock
    <2> HIDE DEF e, x
    <2>4. \A k \in 1 .. Len(x.updates) : x.updates[k][1] \in Nat /\ x.updates[k][2] \in Nat
      BY <2>3 DEF Updates
    <2>5. \A k \in 1 .. Len(x.updates) :
             x.updates[k][2] > 0 /\ x.updates[k][1] + x.updates[k][2] <= Len(x.d)
      BY <2>3 DEF InRange
    <2>6. \A k \in 1 .. Len(x.updates) :
             x.updates[k][2] > 0 /\ x.updates[k][1] + x.updates[k][2] <= Len(e.d)
      <3> TAKE k \in 1 .. Len(x.updates)
      <3> DEFINE i == x.updates[k][1]
                 n == x.updates[k][2]
                 short == Len(x.d)
                 long == Len(e.d)
      <3>1. i \in Nat /\ n \in Nat /\ n > 0 /\ i + n <= short /\ short <= long /\ short \in Nat /\ long \in Nat
        BY <2>1, <2>2, <2>4, <2>5
      <3> HIDE DEF i, n, short, long
      <3>2. n > 0 /\ i + n <= long
        BY <3>1
      <3> QED
        BY <3>2 DEF i, n, long
    <2> QED
      BY <2>2, <2>6 DEF InRange
  <1>8. KeysOK'
    BY <1>1, <1>2, KeysSame
  <1> QED
    BY <1>2, <1>5, <1>6, <1>7, <1>8, CellsGoOn

\* put_data returns to hflat_fsync with an error.
LEMMA CellsPutDataFails ==
  ASSUME FileInv, CellsInv, NEW c \in Client, pc[c] \in {"putdata", "getdata"}, ret[c] # "cut",
         PutDataReturns(c, "eio"), UNCHANGED <<di, req, detached>>, SameKeys
  PROVE  CellsStep(c)
  <1> DEFINE m == mdi[c]
  <1>1. FsyncReturns(c, "eio", m) /\ current' = current
    BY DEF PutDataReturns
  <1>2. IsMd(m) /\ m.size \in 0 .. FileSize /\ m.version \in Nat
    BY DEF FileInv, Shape, CellsInv, NumbersOK
  <1> HIDE DEF m
  <1> QED
    BY <1>1, <1>2, CellsReturn DEF Flushing

LEMMA StoredCells ==
  ASSUME FileInv, CellsInv, NEW c \in Client, Stored(c)
  PROVE  LET b == current[c] IN
         /\ \A x \in Client : x # c => di'[x] = di[x]
         /\ \A k \in Block : k # b => di'[c][k] = di[c][k]
         /\ GoodBlock(di'[c][b]) /\ di'[c][b].updates = <<>> /\ di'[c][b].d = di[c][b].d
         /\ di'[c][b].version = sent[c]
  <1> DEFINE b == current[c]
  <1>1. Shape /\ sent[c] \in Nat
    BY DEF FileInv, CellsInv, KeysOK
  <1>2. pc[c] = "stored" /\ di' = [di EXCEPT ![c][b].updates = <<>>, ![c][b].version = sent[c]]
    BY DEF Stored
  <1>3. b \in Block /\ IsBlock(di[c][b]) /\ di[c][b].d \in Data
    BY <1>2, FlushedBlock
  <1> HIDE DEF b
  <1>4. /\ \A x \in Client : x # c => di'[x] = di[x]
        /\ \A k \in Block : k # b => di'[c][k] = di[c][k]
        /\ di'[c][b].updates = <<>> /\ di'[c][b].version = sent[c] /\ di'[c][b].d = di[c][b].d
    BY <1>1, <1>2, <1>3 DEF Shape, IsBlock
  <1>5. GoodBlock(di'[c][b])
    BY <1>1, <1>3, <1>4 DEF GoodBlock, InRange
  <1> QED
    BY <1>4, <1>5 DEF b

LEMMA CellsStored ==
  ASSUME FileInv, CellsInv, NEW c \in Client, Stored(c)
  PROVE  CellsStep(c)
  <1> DEFINE b == current[c]
  <1>1. Shape /\ KeysOK /\ CellsOK(c) /\ NumbersOK(c)
    BY DEF FileInv, CellsInv
  <1>2. pc[c] = "stored" /\ PutDataReturns(c, "ok") /\ UNCHANGED <<req, detached>> /\ SameKeys
    BY DEF Stored, store, SameKeys
  <1>3. b \in Block /\ b < NBlocks
    BY <1>2, FlushedBlock
  <1>4. /\ \A x \in Client : x # c => di'[x] = di[x]
        /\ \A k \in Block : k # b => di'[c][k] = di[c][k]
        /\ GoodBlock(di'[c][b]) /\ di'[c][b].updates = <<>>
    BY StoredCells
  <1>5. CASE ret[c] # "cut"
    <2> DEFINE m == mdi[c]
    <2>1. FsyncReturns(c, "ok", m) /\ current' = current
      BY <1>2, <1>5 DEF PutDataReturns
    <2>2. IsMd(m) /\ m.size \in 0 .. FileSize /\ m.version \in Nat
      BY <1>1 DEF Shape, NumbersOK
    <2> HIDE DEF m
    <2> QED
      BY <1>2, <1>4, <1>5, <2>1, <2>2, CellsReturn DEF Flushing
  <1>6. CASE ret[c] = "cut"
    <2>1. Goto(c, "delete") /\ current' = [current EXCEPT ![c] = @ + 1] /\ UNCHANGED <<mdi, ret>>
      BY <1>2, <1>6 DEF PutDataReturns
    <2>2. Only(c) /\ pc'[c] = "delete" /\ current'[c] = b + 1
      BY <1>1, <1>2, <1>4, <2>1 DEF Shape, Only, Goto
    <2>3. \A k \in Block : ~CutBlock(c, k)' /\ (CutBlock(c, k) <=> k = b)
      BY <1>2, <1>6, <2>2 DEF CutBlock
    <2>4. Truncating(c)
      BY <1>2, <1>6 DEF Truncating, FileInv, ClientOK, CutOK, Cutting
    <2>5. \A k \in Block : GoodBlock(di'[c][k]) /\ di'[c][k].updates = <<>>
      BY <1>1, <1>4, <2>3, <2>4 DEF CellsOK
    <2>6. CellsOK(c)'
      BY <2>3, <2>5 DEF CellsOK, GoodBlock, InRange, Block
    <2>7. NumbersOK(c)'
      BY <1>1, <1>2, <1>3, <2>1, <2>2 DEF NumbersOK, Flushing, Block
    <2> QED
      BY <1>1, <1>2, <2>2, <2>6, <2>7, KeysSame DEF CellsStep
  <1> QED
    BY <1>5, <1>6

-----------------------------------------------------------------------------
(* Truncate.                                                               *)

LEMMA SizeBlock ==
  ASSUME NEW size \in 0 .. FileSize
  PROVE  BlockOf(size) \in Block
  <1>1. size \in Nat /\ size <= BlockSize * NBlocks
    BY DEF FileSize
  <1> DEFINE q == BlockOf(size)
             r == InBlock(size)
  <1>2. q \in Nat /\ r \in Nat /\ r < BlockSize /\ size = BlockSize * q + r
    BY <1>1, Division
  <1> HIDE DEF q, r
  <1>3. BlockSize * q <= BlockSize * NBlocks
    BY <1>1, <1>2
  <1>4. q <= NBlocks
    BY <1>2, <1>3
  <1> QED
    BY <1>2, <1>4 DEF Block, q

LEMMA CellsTruncateMd ==
  ASSUME FileInv, CellsInv, NEW c \in Client, TruncateMd(c)
  PROVE  CellsStep(c)
  <1> DEFINE off == req[c].off
             b == BlockOf(off)
             end == BlockOf(mdi[c].size)
  <1>1. Shape /\ KeysOK /\ CellsOK(c) /\ NumbersOK(c)
    BY DEF FileInv, CellsInv
  <1>2. /\ pc[c] = "truncate" /\ UNCHANGED <<di, req, ret, detached, blocks, sent>>
        /\ versions' = versions + 1 /\ md' = [size |-> off, version |-> versions + 1]
        /\ mdi' = [mdi EXCEPT ![c].size = off, ![c].version = versions + 1]
        /\ last' = [last EXCEPT ![c] = end]
        /\ \/ current' = [current EXCEPT ![c] = b] /\ Goto(c, "cut")
           \/ current' = [current EXCEPT ![c] = b + 1] /\ Goto(c, "delete")
    BY DEF TruncateMd, PutMetadata
  <1>3. off \in Offset /\ end \in Block
    BY <1>1, SizeBlock DEF Shape, Requests, NumbersOK
  <1>4. b \in Nat /\ b < NBlocks
    BY <1>3, Blocks, Division
  <1>5. off \in 0 .. FileSize
    BY <1>3 DEF Offset, FileSize
  <1> HIDE DEF off, b, end
  <1>6. KeysOK'
    BY <1>1, <1>2, <1>3, <1>5 DEF KeysOK
  <1>7. /\ Only(c) /\ mdi'[c].size = off /\ mdi'[c].version = versions + 1
        /\ \/ pc'[c] = "cut" /\ current'[c] = b
           \/ pc'[c] = "delete" /\ current'[c] = b + 1
    BY <1>1, <1>2 DEF Shape, IsMd, Only, Goto
  <1>8. \A k \in Block : ~CutBlock(c, k) /\ ~CutBlock(c, k)'
    BY <1>2, <1>7 DEF CutBlock
  <1>9. CellsOK(c)'
    BY <1>1, <1>2, <1>8, CellsAway DEF CellsOK, Truncating
  <1>10. NumbersOK(c)'
    BY <1>1, <1>2, <1>4, <1>5, <1>7 DEF NumbersOK, Flushing, KeysOK
  <1> QED
    BY <1>6, <1>7, <1>9, <1>10 DEF CellsStep

LEMMA CellsCut ==
  ASSUME FileInv, CellsInv, NEW c \in Client, Cut(c)
  PROVE  CellsStep(c)
  <1> DEFINE b == current[c]
             x == IF di[c][b].cached THEN di[c][b] ELSE Fetched(b)
             i == InBlock(req[c].off)
             e == Truncate(x, i)
  <1>1. Shape /\ KeysOK /\ CellsOK(c) /\ NumbersOK(c)
    BY DEF FileInv, CellsInv
  <1>2. /\ pc[c] = "cut" /\ di' = [di EXCEPT ![c][b] = e] /\ ret' = [ret EXCEPT ![c] = "cut"]
        /\ Goto(c, "putdata") /\ UNCHANGED <<mdi, req, current, detached>> /\ SameKeys
    BY DEF Cut, store, SameKeys
  <1>3. i \in 0 .. BlockSize /\ b \in Block /\ b < NBlocks
    BY <1>1, <1>2, RequestSize DEF NumbersOK, Block
  <1>4. Truncating(c) /\ \A k \in Block : ~CutBlock(c, k)
    BY <1>2 DEF Truncating, FileInv, ClientOK, CutOK, Cutting, CutBlock
  <1>5. \A k \in Block : GoodBlock(di[c][k]) /\ di[c][k].updates = <<>>
    BY <1>1, <1>4 DEF CellsOK
  <1>6. IsBlock(x) /\ x.cached /\ GoodBlock(x) /\ x.updates = <<>>
    <2>1. IsBlock(di[c][b])
      BY <1>1, <1>3 DEF Shape
    <2>2. IsBlock(Fetched(b)) /\ Fetched(b).cached /\ GoodBlock(Fetched(b)) /\ Fetched(b).updates = <<>>
      BY <1>1, <1>3, FetchedShape, FetchedCells DEF Fetched
    <2> QED
      BY <1>3, <1>5, <2>1, <2>2
  <1> HIDE DEF b, x, i
  <1>7. CutTo(e, i)
    <2>1. e.d \in Data /\ Len(e.d) = i /\ e.version = x.version /\ x.version \in Nat
      BY <1>3, <1>6, TruncateCells DEF GoodBlock
    <2>2. e.updates = Append(<<>>, <<i, 0>>)
      <3>1. i \in Nat
        BY <1>3
      <3>2. e.updates = WithUpdate(x.updates, i, 0)
        BY <1>6, <3>1, TruncateShape
      <3> HIDE DEF e
      <3> QED
        BY <1>6, <3>2 DEF WithUpdate
    <2> QED
      BY <2>1, <2>2 DEF CutTo
  <1> HIDE DEF e
  <1>8. /\ Only(c) /\ pc'[c] = "putdata" /\ ret'[c] = "cut" /\ di'[c][b] = e
        /\ \A k \in Block : k # b => di'[c][k] = di[c][k]
    BY <1>1, <1>2, <1>3 DEF Shape, Only, Goto
  <1>9. \A k \in Block : CutBlock(c, k)' <=> k = b
    BY <1>2, <1>8 DEF CutBlock, b
  <1>10. InBlock(req'[c].off) = i /\ NBlocks \in Block /\ NBlocks # b
    BY <1>2, <1>3 DEF i, Block
  <1>11. \A k \in Block : /\ CutBlock(c, k)' => CutTo(di'[c][k], InBlock(req'[c].off))
                          /\ ~CutBlock(c, k)' => GoodBlock(di'[c][k]) /\ di'[c][k].updates = <<>>
    BY <1>5, <1>7, <1>8, <1>9, <1>10
  <1>12. di'[c][NBlocks].updates = <<>>
    BY <1>5, <1>8, <1>10
  <1>13. CellsOK(c)'
    BY <1>11, <1>12 DEF CellsOK, CutTo, GoodBlock, InRange
  <1>14. NumbersOK(c)'
    BY <1>1, <1>2, <1>8 DEF NumbersOK, Flushing
  <1> QED
    BY <1>1, <1>2, <1>8, <1>13, <1>14, KeysSame DEF CellsStep

LEMMA CellsDeleteBlock ==
  ASSUME FileInv, CellsInv, NEW c \in Client, DeleteBlock(c)
  PROVE  CellsStep(c) /\ current[c] \in Block /\ current'[c] = current[c] + 1
  <1> DEFINE b == current[c]
  <1>1. Shape /\ KeysOK /\ CellsOK(c) /\ NumbersOK(c)
    BY DEF FileInv, CellsInv
  <1>2. /\ pc[c] = "delete" /\ b <= last[c] /\ di' = [di EXCEPT ![c][b] = NoBlock]
        /\ blocks' = [blocks EXCEPT ![b] = Absent] /\ current' = [current EXCEPT ![c] = @ + 1]
        /\ UNCHANGED <<md, versions, mdi, pc, req, ret, sent, last, detached>>
    BY DEF DeleteBlock
  <1>3. b \in Block /\ b <= NBlocks
    BY <1>1, <1>2 DEF NumbersOK, KeysOK, Block
  <1>4. Absent \in [version : Nat, d : Data]
    BY EmptyData DEF Absent
  <1>5. KeysOK'
    BY <1>1, <1>2, <1>3, <1>4 DEF KeysOK
  <1>6. /\ \A x \in Client : x # c => di'[x] = di[x]
        /\ \A k \in Block : \/ di'[c][k] = di[c][k]
                            \/ GoodBlock(di'[c][k]) /\ di'[c][k].updates = <<>>
    BY <1>2, DropCells
  <1>7. Only(c) /\ current'[c] = b + 1
    BY <1>1, <1>2, <1>6 DEF Shape, Only
  <1>8. \A k \in Block : ~CutBlock(c, k) /\ ~CutBlock(c, k)'
    BY <1>2 DEF CutBlock
  <1>9. CellsOK(c)'
    BY <1>1, <1>2, <1>6, <1>8, CellsAway DEF CellsOK, Truncating
  <1>10. NumbersOK(c)'
    BY <1>1, <1>2, <1>3, <1>7 DEF NumbersOK, Flushing, Block
  <1> QED
    BY <1>3, <1>5, <1>7, <1>9, <1>10 DEF CellsStep

-----------------------------------------------------------------------------
(* Expiry, failures and crashes.                                           *)

\* A request ends, or flushes what was dirty before.
LEMMA CellsEnd ==
  ASSUME FileInv, CellsInv, NEW c \in Client, pc[c] \in {"delete", "block"},
         UNCHANGED <<di, mdi, req, current, detached>>, SameKeys,
         \/ Goto(c, "idle") /\ ret' = ret
         \/ pc[c] = "block" /\ Goto(c, "fsync") /\ ret' = [ret EXCEPT ![c] = "done"]
  PROVE  CellsStep(c)
  <1>1. Shape /\ KeysOK /\ CellsOK(c) /\ NumbersOK(c)
    BY DEF FileInv, CellsInv
  <1>2. Only(c) /\ pc'[c] \in {"idle", "fsync"}
    BY <1>1 DEF Shape, Only, Goto
  <1>3. \A k \in Block : ~CutBlock(c, k) /\ ~CutBlock(c, k)'
    BY <1>2 DEF CutBlock
  <1>4. CellsOK(c)'
    BY <1>1, <1>3, CellsAway DEF CellsOK, Truncating
  <1>5. NumbersOK(c)'
    BY <1>1, <1>2 DEF NumbersOK, Flushing
  <1> QED
    BY <1>1, <1>2, <1>4, <1>5, KeysSame DEF CellsStep

LEMMA CellsExpireBlock ==
  ASSUME FileInv, CellsInv, NEW c \in Client, NEW b \in Block, ExpireBlock(c, b)
  PROVE  CellsStep(c)
  <1>1. Shape /\ KeysOK /\ CellsOK(c) /\ NumbersOK(c)
    BY DEF FileInv, CellsInv
  <1>2. /\ pc[c] = "idle" /\ di' = [di EXCEPT ![c][b] = NoBlock]
        /\ UNCHANGED <<mdi, pc, req, ret, current, detached>> /\ SameKeys
    BY DEF ExpireBlock, locals, store, SameKeys
  <1>3. /\ \A x \in Client : x # c => di'[x] = di[x]
        /\ \A k \in Block : \/ di'[c][k] = di[c][k]
                            \/ GoodBlock(di'[c][k]) /\ di'[c][k].updates = <<>>
    BY <1>2, DropCells
  <1>4. Only(c)
    BY <1>2, <1>3 DEF Only
  <1>5. CellsOK(c)'
    BY <1>1, <1>2, <1>3, CellsAway DEF CutBlock, Truncating
  <1>6. NumbersOK(c)'
    BY <1>1, <1>2 DEF NumbersOK
  <1> QED
    BY <1>1, <1>2, <1>4, <1>5, <1>6, KeysSame DEF CellsStep

LEMMA CellsExpireMd ==
  ASSUME FileInv, CellsInv, NEW c \in Client, ExpireMd(c)
  PROVE  CellsStep(c)
  <1>1. /\ pc[c] = "idle" /\ mdi' = [mdi EXCEPT ![c] = NoMd]
        /\ UNCHANGED <<di, pc, req, ret, current, detached>> /\ SameKeys
    BY DEF ExpireMd, locals, store, SameKeys
  <1>2. Goto(c, "idle") /\ detached' = [detached EXCEPT ![c] = detached[c]]
    BY <1>1 DEF FileInv, Shape, Goto
  <1> QED
    BY <1>1, <1>2, CellsNoMd

LEMMA CellsPutMdFails ==
  ASSUME FileInv, CellsInv, NEW c \in Client, PutMdFails(c)
  PROVE  CellsStep(c)
  <1>1. /\ pc[c] \in {"putmd", "truncate"} /\ detached' = [detached EXCEPT ![c] = TRUE]
        /\ UNCHANGED <<req, current>> /\ SameKeys
    BY DEF PutMdFails, store, SameKeys
  <1>2. CASE /\ pc[c] = "putmd" /\ di' = [di EXCEPT ![c][current[c]] = NoBlock]
             /\ FsyncReturns(c, "eio", NoMd)
    BY <1>1, <1>2, CellsTakenBack
  <1>3. CASE /\ mdi' = [mdi EXCEPT ![c] = NoMd] /\ UNCHANGED <<di, ret>>
             /\ \/ pc[c] = "truncate" /\ Goto(c, "idle")
                \/ pc[c] = "putmd" /\ Goto(c, "putdata")
    <2>1. CASE pc[c] = "truncate" /\ Goto(c, "idle")
      BY <1>1, <1>3, <2>1, CellsNoMd
    <2>2. CASE pc[c] = "putmd" /\ Goto(c, "putdata")
      BY <1>1, <1>3, <2>2, CellsNoMd
    <2> QED
      BY <1>3, <2>1, <2>2
  <1> QED
    BY <1>1, <1>2, <1>3 DEF PutMdFails, Done

LEMMA CellsCrash ==
  ASSUME WholeTruncates, FileInv, CellsInv, NEW c \in Client, Crash(c)
  PROVE  CellsStep(c)
  <1> DEFINE m == NoMd
             e == NoBlock
  <1>1. Shape /\ KeysOK /\ CellsOK(c) /\ NumbersOK(c) /\ Fault(c)
    BY DEF FileInv, CellsInv, Crash
  <1>2. /\ mdi' = [mdi EXCEPT ![c] = m] /\ di' = [di EXCEPT ![c] = [b \in Block |-> e]]
        /\ Goto(c, "idle") /\ UNCHANGED <<req, ret, current, detached>> /\ SameKeys
    BY DEF Crash, Done, locals, store, SameKeys
  <1>3. m.size \in 0 .. FileSize /\ m.version \in Nat /\ GoodBlock(e) /\ e.updates = <<>>
    BY NoMdNumbers, NoBlockCells, NoBlockShape
  <1> HIDE DEF m, e
  <1>4. Only(c) /\ mdi'[c] = m /\ pc'[c] = "idle" /\ \A b \in Block : di'[c][b] = e
    BY <1>1, <1>2 DEF Shape, Only, Goto
  <1>5. ~Cutting(c)
    BY <1>1, CutsSucceed
  <1>6. \A k \in Block : ~CutBlock(c, k) /\ ~CutBlock(c, k)'
    BY <1>4, <1>5 DEF CutBlock, Cutting
  <1>7. CellsOK(c)'
    BY <1>1, <1>3, <1>4, <1>6, CellsAway DEF Truncating
  <1>8. NumbersOK(c)'
    BY <1>1, <1>2, <1>3, <1>4 DEF NumbersOK, Flushing
  <1> QED
    BY <1>1, <1>2, <1>4, <1>7, <1>8, KeysSame DEF CellsStep

LEMMA CellsTruncateMdMismatch ==
  ASSUME FileInv, CellsInv, NEW c \in Client, TruncateMdMismatch(c)
  PROVE  CellsStep(c)
  <1>1. /\ pc[c] = "truncate" /\ mdi' = [mdi EXCEPT ![c] = NoMd] /\ Goto(c, "again")
        /\ UNCHANGED <<di, req, ret, current, detached>> /\ SameKeys
    BY DEF TruncateMdMismatch, locals, store, SameKeys
  <1>2. detached' = [detached EXCEPT ![c] = detached[c]]
    BY <1>1 DEF FileInv, Shape
  <1> QED
    BY <1>1, <1>2, CellsNoMd

-----------------------------------------------------------------------------
(* The theorems about the cells.                                           *)

LEMMA CellsInit == Init => CellsInv
  <1> SUFFICES ASSUME Init PROVE CellsInv
    OBVIOUS
  <1>1. FileSize \in Nat /\ BlockSize <= FileSize
    <2>1. BlockSize * NBlocks \in Nat /\ BlockSize * NBlocks >= BlockSize
      OBVIOUS
    <2> QED
      BY <2>1 DEF FileSize
  <1>2. md \in [size : 0 .. FileSize, version : Nat \ {0}] /\ versions \in Nat \ {0}
    BY <1>1 DEF Init
  <1>3. sent \in [Client -> Nat] /\ last \in [Client -> Block]
    BY DEF Init, Block
  <1>4. blocks \in [Block -> [version : Nat, d : Data]]
    <2> DEFINE old == [i \in 1 .. InitSize |-> Old]
    <2>1. old \in Data
      <3>1. old \in [1 .. InitSize -> Value] /\ InitSize \in 0 .. BlockSize
        BY DEF Value
      <3> HIDE DEF old
      <3> QED
        BY <3>1, IsData
    <2> HIDE DEF old
    <2>2. Absent \in [version : Nat, d : Data] /\ [version |-> 1, d |-> old] \in [version : Nat, d : Data]
      BY <2>1, EmptyData DEF Absent
    <2>3. blocks = [b \in Block |-> IF b = 0 /\ InitSize > 0 THEN [version |-> 1, d |-> old] ELSE Absent]
      BY DEF Init, old
    <2> QED
      BY <2>2, <2>3
  <1>5. KeysOK
    BY <1>2, <1>3, <1>4 DEF KeysOK
  <1>6. ASSUME NEW c \in Client PROVE CellsOK(c) /\ NumbersOK(c)
    <2>1. /\ mdi[c] = NoMd /\ pc[c] = "idle" /\ req[c].op = "none" /\ current[c] = 0
          /\ \A b \in Block : di[c][b] = NoBlock
      BY DEF Init, NoRequest
    <2>2. CellsOK(c)
      BY <2>1, NoBlockCells, NoBlockShape DEF CellsOK, CutBlock, Truncating, Block
    <2>3. NumbersOK(c)
      BY <2>1, NoMdNumbers DEF NumbersOK, Flushing
    <2> QED
      BY <2>2, <2>3
  <1> QED
    BY <1>5, <1>6 DEF CellsInv

\* Each step of a client.
LEMMA CellsNext ==
  ASSUME WholeTruncates, FileInv, CellsInv, Next
  PROVE  \E c \in Client : CellsStep(c)
  <1>1. ASSUME NEW c \in Client, NEW off \in Offset,
               \/ BeginRead(c, off) \/ BeginTruncate(c, off) \/ BufferedWrite(c, off)
               \/ \E n \in 1 .. BlockSize, a \in BOOLEAN : BeginWrite(c, off, n, a)
        PROVE  CellsStep(c)
    <2> DEFINE r == ret[c]
    <2>1. r \in {ret[c], "done", "truncate"} /\ (ret' = ret => ret' = [ret EXCEPT ![c] = r])
      BY DEF FileInv, Shape
    <2>2. CASE BeginRead(c, off)
      <3> DEFINE no == FALSE
                 zero == 0
      <3>0. no \in BOOLEAN /\ zero \in 0 .. BlockSize
        OBVIOUS
      <3>1. Begin(c, "read", off, zero, no) /\ Goto(c, "block") /\ ret' = ret
        BY <2>2 DEF BeginRead
      <3> HIDE DEF r, zero, no
      <3> QED
        BY <2>1, <3>0, <3>1, CellsBegin
    <2>3. CASE BeginTruncate(c, off)
      <3>1. Begin(c, "truncate", off, 0, FALSE) /\ Goto(c, "fsync") /\ ret' = [ret EXCEPT ![c] = "truncate"]
        BY <2>3, Zenon DEF BeginTruncate
      <3>2. \A b \in Block : di[c][b].updates = <<>>
        BY <2>3, TruncateAlone
      <3> DEFINE n == 0
                 t == "truncate"
      <3>3. n \in 0 .. BlockSize /\ t \in {ret[c], "done", "truncate"} /\ t # "cut"
        OBVIOUS
      <3>4. Begin(c, "truncate", off, n, FALSE) /\ ret' = [ret EXCEPT ![c] = t]
        BY <3>1
      <3> HIDE DEF n, t
      <3> QED
        BY <3>1, <3>2, <3>3, <3>4, CellsBegin
    <2>4. CASE BufferedWrite(c, off)
      BY <2>4, CellsBuffered DEF WholeTruncates
    <2>5. ASSUME NEW n \in 1 .. BlockSize, NEW a \in BOOLEAN, BeginWrite(c, off, n, a) PROVE CellsStep(c)
      <3>1. Begin(c, "write", off, n, a) /\ Goto(c, "block") /\ ret' = ret
        BY <2>5 DEF BeginWrite
      <3>2. n \in 0 .. BlockSize /\ n > 0
        OBVIOUS
      <3> HIDE DEF r
      <3> QED
        BY <2>1, <3>1, <3>2, CellsBegin
    <2> QED
      BY <1>1, <2>2, <2>3, <2>4, <2>5
  <1>2. ASSUME NEW c \in Client, NEW a \in BOOLEAN, BeginFsync(c, a) PROVE CellsStep(c)
    <2>1. 0 \in Offset
      <3>1. BlockSize * NBlocks \in Nat /\ BlockSize * NBlocks >= 1
        OBVIOUS
      <3> QED
        BY <3>1 DEF Offset, FileSize
    <2>2. Begin(c, "fsync", 0, 0, a) /\ Goto(c, "fsync") /\ ret' = [ret EXCEPT ![c] = "done"]
      BY <1>2, Zenon DEF BeginFsync
    <2> DEFINE n == 0
               off == 0
               t == "done"
    <2>3. n \in 0 .. BlockSize /\ off \in Offset /\ t \in {ret[c], "done", "truncate"} /\ t # "cut"
      BY <2>1
    <2>4. Begin(c, "fsync", off, n, a) /\ ret' = [ret EXCEPT ![c] = t]
      BY <2>2
    <2> HIDE DEF n, off, t
    <2> QED
      BY <2>2, <2>3, <2>4, CellsBegin
  <1>3. ASSUME NEW c \in Client, GetDataGone(c) \/ PutDataFails(c) PROVE CellsStep(c)
    <2>1. /\ pc[c] \in {"putdata", "getdata"} /\ PutDataReturns(c, "eio")
          /\ UNCHANGED <<di, req, detached>> /\ SameKeys
      BY <1>3 DEF GetDataGone, PutDataFails, store, SameKeys
    <2>2. ret[c] # "cut"
      BY <1>3, <2>1, CutsSucceed DEF PutDataFails, Cutting
    <2> QED
      BY <2>1, <2>2, CellsPutDataFails
  <1>4. ASSUME NEW c \in Client, TruncateDone(c) \/ RwFails(c) PROVE CellsStep(c)
    <2>1. /\ pc[c] \in {"delete", "block"} /\ UNCHANGED <<di, mdi, req, current, detached>> /\ SameKeys
          /\ \/ Goto(c, "idle") /\ ret' = ret
             \/ pc[c] = "block" /\ Goto(c, "fsync") /\ ret' = [ret EXCEPT ![c] = "done"]
      BY <1>4 DEF TruncateDone, RwFails, Done, caches, locals, store, SameKeys
    <2> QED
      BY <2>1, CellsEnd
  <1> QED
    BY <1>1, <1>2, <1>3, <1>4, CellsRead, CellsWrite, CellsAgain, CellsFsync, CellsPutMd,
       CellsPutMdMismatch, CellsPutData, CellsPutDataMismatch, CellsGetData, CellsStored,
       CellsTruncateMd, CellsTruncateMdMismatch, CellsCut, CellsDeleteBlock,
       CellsExpireMd, CellsExpireBlock, CellsPutMdFails, CellsCrash
    DEF Next

LEMMA CellsInductive ==
  ASSUME WholeTruncates, FileInv, CellsInv, [Next]_vars
  PROVE  CellsInv'
  <1>1. CASE UNCHANGED vars
    BY <1>1 DEF vars, store, caches, locals, CellsInv, KeysOK, CellsOK, NumbersOK, CutBlock,
                Truncating, CutTo, GoodBlock, InRange
  <1> QED
    BY <1>1, CellsNext, OthersCells

\* The keys hold blocks of at most BlockSize cells and sizes of at most the whole
\* file, and so do the caches, whatever is merged, cut, deleted or taken back:
\* no step of a flush or a truncate leaves the data, a size or a block number
\* out of its bounds, as long as truncates do not share the file.
THEOREM Typing ==
  ASSUME WholeTruncates
  PROVE  Spec => []TypeOK
  <1>1. Init => FileInv /\ CellsInv
    BY InitHolds, CellsInit
  <1>2. FileInv /\ CellsInv /\ [Next]_vars => FileInv' /\ CellsInv'
    BY FileStep, CellsInductive DEF WholeTruncates
  <1>3. FileInv /\ CellsInv => TypeOK
    <2> SUFFICES ASSUME FileInv, CellsInv PROVE TypeOK
      OBVIOUS
    <2>1. ASSUME NEW c \in Client
          PROVE  mdi[c] \in [size : 0 .. FileSize, version : Nat, dirty : Block, cached : BOOLEAN]
      BY DEF FileInv, Shape, IsMd, CellsInv, NumbersOK
    <2>2. ASSUME NEW c \in Client, NEW b \in Block
          PROVE  /\ di[c][b].version \in Nat /\ di[c][b].d \in Data
                 /\ di[c][b].updates \in Seq(Update) /\ di[c][b].cached \in BOOLEAN
      <3>1. IsBlock(di[c][b])
        BY DEF FileInv, Shape
      <3>2. di[c][b].version \in Nat /\ di[c][b].d \in Data
        BY DEF CellsInv, CellsOK, CutTo, GoodBlock
      <3> DEFINE u == di[c][b].updates
      <3>3. u \in Updates
        BY <3>1 DEF IsBlock
      <3>4. ASSUME NEW k \in 1 .. Len(u) PROVE u[k] \in Update
        <4>1. CASE CutBlock(c, b)
          <5>1. u = <<<<InBlock(req[c].off), 0>>>>
            BY <4>1 DEF CellsInv, CellsOK, CutTo
          <5>2. InBlock(req[c].off) \in 0 .. BlockSize
            BY RequestSize DEF FileInv
          <5> QED
            BY <5>1, <5>2 DEF Update
        <4>2. CASE ~CutBlock(c, b)
          <5>1. u[k][2] > 0 /\ u[k][1] + u[k][2] <= Len(di[c][b].d)
            BY <4>2 DEF CellsInv, CellsOK, GoodBlock, InRange
          <5>2. Len(di[c][b].d) \in 0 .. BlockSize /\ u[k] \in Nat \X Nat
            <6>1. Len(di[c][b].d) \in 0 .. BlockSize
              BY <3>2, DataLength
            <6> HIDE DEF u
            <6>2. u[k] \in Nat \X Nat
              BY <3>3 DEF Updates
            <6> QED
              BY <6>1, <6>2
          <5> HIDE DEF u
          <5> DEFINE i == u[k][1]
                     n == u[k][2]
                     long == Len(di[c][b].d)
          <5>3. u[k] = <<i, n>> /\ i \in Nat /\ n \in Nat /\ i + n <= long /\ long \in 0 .. BlockSize
            BY <5>1, <5>2
          <5> HIDE DEF i, n, long
          <5>4. i \in 0 .. BlockSize /\ n \in 0 .. BlockSize
            BY <5>3
          <5> QED
            BY <5>3, <5>4 DEF Update
        <4> QED
          BY <4>1, <4>2
      <3>5. u \in Seq(Update)
        <4> HIDE DEF u
        <4>1. Len(u) \in Nat /\ u \in [1 .. Len(u) -> Nat \X Nat]
          BY <3>3 DEF Updates
        <4>2. u \in [1 .. Len(u) -> Update]
          BY <3>4, <4>1
        <4> QED
          BY <4>1, <4>2
      <3>6. di[c][b].cached \in BOOLEAN
        BY <3>1 DEF IsBlock
      <3> QED
        BY <3>2, <3>5, <3>6
    <2>3. ASSUME NEW c \in Client PROVE current[c] \in 0 .. NBlocks + 1 /\ last[c] \in Block
      BY DEF CellsInv, NumbersOK, KeysOK
    <2>4. KeysOK
      BY DEF CellsInv
    <2> QED
      BY <2>1, <2>2, <2>3, <2>4 DEF TypeOK, KeysOK
  <1> QED
    BY <1>1, <1>2, <1>3, PTL DEF Spec

\* mergeDataChanges never replaces cells behind the end of the data: the
\* updates of a cached block that write stay inside it, also when the block is
\* merged again and again, stored, cut or dropped.
THEOREM UpdatesInRangeCorrect ==
  ASSUME WholeTruncates
  PROVE  Spec => []UpdatesInRange
  <1>1. Init => FileInv /\ CellsInv
    BY InitHolds, CellsInit
  <1>2. FileInv /\ CellsInv /\ [Next]_vars => FileInv' /\ CellsInv'
    BY FileStep, CellsInductive DEF WholeTruncates
  <1>3. CellsInv => UpdatesInRange
    <2> SUFFICES ASSUME CellsInv, NEW c \in Client, NEW b \in Block,
                        NEW k \in 1 .. Len(di[c][b].updates), di[c][b].updates[k][2] > 0
                 PROVE  di[c][b].updates[k][1] + di[c][b].updates[k][2] <= Len(di[c][b].d)
      BY DEF UpdatesInRange
    <2>1. CASE ~CutBlock(c, b)
      BY <2>1 DEF CellsInv, CellsOK, GoodBlock, InRange
    <2>2. CASE CutBlock(c, b)
      <3>1. di[c][b].updates = <<<<InBlock(req[c].off), 0>>>>
        BY <2>2 DEF CellsInv, CellsOK, CutTo
      <3> QED
        BY <3>1
    <2> QED
      BY <2>1, <2>2
  <1> QED
    BY <1>1, <1>2, <1>3, PTL DEF Spec

-----------------------------------------------------------------------------
(* The size of the file and the blocks that are stored.                    *)

\* Truncates as above, and the size of a write is stored before its data.
SizeFirst == WholeTruncates /\ "size not stored" \in Avoid

\* The stored block ends inside the file.
Inside(b) == blocks[b].d # <<>> => b * BlockSize + Len(blocks[b].d) <= md.size

\* Cached metadata is not ahead of what is stored: the same version means the
\* same size.
MdGood(m) ==
    /\ m.version <= versions /\ (~m.cached => m.version = 0)
    /\ m.cached => m.size <= md.size
    /\ m.version = md.version => m.size = md.size

\* A flush is about to store a larger size.
MdOK(c) ==
    /\ pc[c] # "putmd" => MdGood(mdi[c])
    /\ pc[c] = "putmd" => /\ mdi[c].cached /\ mdi[c].version <= versions
                          /\ mdi[c].version = md.version => mdi[c].size >= md.size

\* A client that truncates has the file to itself.
AloneOK(c) == Truncating(c) => \A x \in Client \ {c} : pc[x] = "idle" /\ ~mdi[x].cached

\* The end of the block that put_data stores.
EndOf(c) == current[c] * BlockSize + Len(di[c][current[c]].d)

\* When the data is put, the size that is stored covers it.
FlushOK(c) ==
    /\ pc[c] = "putmd" => EndOf(c) <= mdi[c].size
    /\ pc[c] \in {"putdata", "getdata"} /\ ret[c] # "cut" => EndOf(c) <= md.size

\* Truncate has put the size; only the blocks that it has still to cut or to
\* delete lie behind it.
CutSizeOK(c) ==
    Cutting(c) =>
        /\ md.size = req[c].off
        /\ \A b \in Block : Inside(b) \/ (current[c] <= b /\ b <= last[c])
        /\ pc[c] = "stored" => Inside(current[c])
        /\ pc[c] # "delete" => current[c] = BlockOf(req[c].off)

SizeOK == (\A c \in Client : ~Cutting(c)) => \A b \in Block : Inside(b)

SizeInv ==
    /\ md.version <= versions /\ SizeOK
    /\ \A c \in Client : AloneOK(c) /\ FlushOK(c) /\ MdOK(c) /\ CutSizeOK(c)

LEMMA CutsTruncate ==
  ASSUME FileInv, NEW c \in Client, Cutting(c)
  PROVE  Truncating(c)
  BY DEF FileInv, ClientOK, CutOK, Cutting, Truncating

\* Nobody else truncates while a client is at work.
LEMMA Unshared ==
  ASSUME FileInv, SizeInv, NEW c \in Client, pc[c] # "idle"
  PROVE  \A x \in Client : x # c => ~Truncating(x) /\ ~Cutting(x)
  BY CutsTruncate DEF SizeInv, AloneOK

\* What is stored ends inside the file, unless a truncate is cutting it.
LEMMA AllInside ==
  ASSUME FileInv, SizeInv, NEW c \in Client, pc[c] # "idle", ~Cutting(c)
  PROVE  \A b \in Block : Inside(b)
  BY Unshared DEF SizeInv, SizeOK

\* The parts of the other clients do not depend on a step that stores nothing.
LEMMA QuietStep ==
  ASSUME FileInv, SizeInv, NEW c \in Client, Only(c), UNCHANGED <<md, blocks, versions, last>>,
         pc[c] = "idle" => \/ \A x \in Client : ~Truncating(x)
                           \/ pc'[c] = "idle" /\ (mdi'[c].cached => mdi[c].cached),
         Truncating(c)' => Truncating(c) \/ \A x \in Client \ {c} : pc[x] = "idle" /\ ~mdi[x].cached,
         Cutting(c) => Cutting(c)' \/ \A b \in Block : Inside(b),
         MdOK(c)', FlushOK(c)', CutSizeOK(c)'
  PROVE  SizeInv'
  <1>1. \A b \in Block : Inside(b)' <=> Inside(b)
    BY DEF Inside
  <1>2. ASSUME NEW x \in Client, x # c
        PROVE  /\ di'[x] = di[x] /\ mdi'[x] = mdi[x] /\ pc'[x] = pc[x] /\ ret'[x] = ret[x]
               /\ req'[x] = req[x] /\ current'[x] = current[x]
               /\ (Truncating(x)' <=> Truncating(x)) /\ (Cutting(x)' <=> Cutting(x))
    BY <1>2 DEF Only, Truncating, Cutting
  <1>3. SizeOK'
    <2> SUFFICES ASSUME \A x \in Client : ~Cutting(x)' PROVE \A b \in Block : Inside(b)'
      BY DEF SizeOK
    <2>1. (\A x \in Client : ~Cutting(x)) \/ \A b \in Block : Inside(b)
      BY <1>2
    <2> QED
      BY <1>1, <2>1 DEF SizeInv, SizeOK
  <1>4. AloneOK(c)'
    BY <1>2 DEF SizeInv, AloneOK
  <1>5. ASSUME NEW x \in Client, x # c PROVE AloneOK(x)' /\ FlushOK(x)' /\ MdOK(x)' /\ CutSizeOK(x)'
    <2>1. AloneOK(x) /\ FlushOK(x) /\ MdOK(x) /\ CutSizeOK(x)
      BY DEF SizeInv
    <2>2. AloneOK(x)'
      <3> SUFFICES ASSUME Truncating(x)', NEW y \in Client \ {x} PROVE pc'[y] = "idle" /\ ~mdi'[y].cached
        BY DEF AloneOK
      <3>1. Truncating(x) /\ pc[y] = "idle" /\ ~mdi[y].cached
        BY <1>2, <1>5, <2>1 DEF AloneOK
      <3>2. CASE y # c
        BY <1>2, <3>1, <3>2
      <3>3. CASE y = c
        BY <3>1, <3>3
      <3> QED
        BY <3>2, <3>3
    <2>3. FlushOK(x)'
      BY <1>2, <1>5, <2>1 DEF FlushOK, EndOf
    <2>4. MdOK(x)'
      BY <1>2, <1>5, <2>1 DEF MdOK, MdGood
    <2>5. CutSizeOK(x)'
      <3>1. Inside(current[x])' <=> Inside(current[x])
        BY <1>2, <1>5 DEF Inside
      <3> QED
        BY <1>1, <1>2, <1>5, <2>1, <3>1 DEF CutSizeOK
    <2> QED
      BY <2>2, <2>3, <2>4, <2>5
  <1> QED
    BY <1>3, <1>4, <1>5 DEF SizeInv

\* The client is neither about to put something nor cutting.
LEMMA QuietAway ==
  ASSUME FileInv, SizeInv, NEW c \in Client, CellsStep(c), SameKeys,
         pc'[c] \in {"idle", "block", "fsync", "again", "truncate"}, MdGood(mdi'[c]),
         pc[c] = "idle" => \/ \A x \in Client : ~Truncating(x)
                           \/ pc'[c] = "idle" /\ (mdi'[c].cached => mdi[c].cached),
         Truncating(c)' => Truncating(c) \/ \A x \in Client \ {c} : pc[x] = "idle" /\ ~mdi[x].cached,
         ~Cutting(c) \/ \A b \in Block : Inside(b)
  PROVE  SizeInv'
  <1>1. MdOK(c)'
    BY DEF MdOK, MdGood, SameKeys
  <1>2. FlushOK(c)' /\ CutSizeOK(c)'
    BY DEF FlushOK, CutSizeOK, Cutting
  <1>3. Only(c) /\ UNCHANGED <<md, blocks, versions, last>>
    BY DEF CellsStep, SameKeys
  <1> QED
    BY <1>1, <1>2, <1>3, QuietStep

LEMMA MdGoodSame ==
  ASSUME NEW m, NEW n, MdGood(m), n.size = m.size, n.version = m.version, n.cached = m.cached
  PROVE  MdGood(n)
  BY DEF MdGood

LEMMA MdGoodNone ==
  ASSUME KeysOK
  PROVE  MdGood(NoMd)
  <1>1. NoMd.version = 0 /\ ~NoMd.cached
    BY NoMdNumbers
  <1>2. md.version # 0 /\ 0 <= versions
    BY DEF KeysOK
  <1> QED
    BY <1>1, <1>2 DEF MdGood

LEMMA MdGoodLookedUp ==
  ASSUME CellsInv, SizeInv, NEW c \in Client, pc[c] # "putmd"
  PROVE  MdGood(LookedUp(c))
  <1> DEFINE m == [size |-> md.size, version |-> md.version, dirty |-> NBlocks, cached |-> TRUE]
  <1>1. MdGood(mdi[c])
    BY DEF SizeInv, MdOK
  <1>2. MdGood(m)
    <2>1. m.size = md.size /\ m.version = md.version /\ m.cached
      OBVIOUS
    <2>2. md.size <= md.size /\ md.version <= versions
      BY DEF CellsInv, KeysOK, SizeInv
    <2> HIDE DEF m
    <2> QED
      BY <2>1, <2>2 DEF MdGood
  <1>3. LookedUp(c) = mdi[c] \/ LookedUp(c) = m
    BY DEF LookedUp
  <1> HIDE DEF m
  <1> QED
    BY <1>1, <1>2, <1>3

\* The steps that store nothing and leave the client neither flushing nor
\* cutting.
LEMMA SizeBegin ==
  ASSUME WholeTruncates, FileInv, CellsInv, SizeInv, NEW c \in Client, NEW op, NEW off, NEW n,
         NEW a \in BOOLEAN, Begin(c, op, off, n, a), CellsStep(c), NEW l \in {"block", "fsync"}, Goto(c, l),
         op = "truncate" => \A x \in Client \ {c} : pc[x] = "idle" /\ ~mdi[x].cached
  PROVE  SizeInv'
  <1> DEFINE m == LookedUp(c)
  <1>1. Shape
    BY DEF FileInv
  <1>2. /\ pc[c] = "idle" /\ mdi' = [mdi EXCEPT ![c] = m] /\ SameKeys
        /\ req' = [req EXCEPT ![c] = [op |-> op, off |-> off, len |-> n, append |-> a]]
    BY DEF Begin, store, SameKeys
  <1>3. MdGood(m)
    BY <1>2, MdGoodLookedUp
  <1> HIDE DEF m
  <1>4. pc'[c] = l /\ mdi'[c] = m /\ req'[c].op = op
    BY <1>1, <1>2 DEF Shape, Goto
  <1>5. \A x \in Client : ~Truncating(x)
    BY NobodyTruncates
  <1>6. ~Cutting(c)
    BY <1>2 DEF Cutting
  <1> QED
    BY <1>2, <1>3, <1>4, <1>5, <1>6, QuietAway DEF Truncating

\* The request goes on with the same metadata.
LEMMA SizeSame ==
  ASSUME FileInv, SizeInv, NEW c \in Client, CellsStep(c), SameKeys,
         pc[c] # "putmd", ~Cutting(c), SameSize(c), mdi'[c].cached = mdi[c].cached, req' = req,
         pc'[c] \in {"idle", "block", "fsync", "again", "truncate"}, pc[c] = "idle" => pc'[c] = "idle"
  PROVE  SizeInv'
  <1>1. MdGood(mdi[c])
    BY DEF SizeInv, MdOK
  <1>2. MdGood(mdi'[c])
    BY <1>1, MdGoodSame DEF SameSize
  <1>3. Truncating(c)' => Truncating(c)
    BY DEF Truncating
  <1> QED
    BY <1>2, <1>3, QuietAway

\* hflat_fsync returns.
LEMMA SizeReturn ==
  ASSUME FileInv, SizeInv, NEW c \in Client, NEW err \in {"ok", "eio", "again"}, NEW m, IsMd(m),
         MdGood(m), FsyncReturns(c, err, m), pc[c] \in {"fsync"} \cup Flushing, ret[c] # "cut",
         req' = req, SameKeys, CellsStep(c)
  PROVE  SizeInv'
  <1>1. /\ mdi'[c].size = m.size /\ mdi'[c].version = m.version /\ mdi'[c].cached = m.cached
        /\ pc'[c] \in {"idle", "fsync", "again", "truncate"}
    BY ReturnMd DEF FileInv
  <1>2. MdGood(mdi'[c])
    BY <1>1, MdGoodSame
  <1>3. ~Cutting(c) /\ (Truncating(c)' => Truncating(c)) /\ pc[c] # "idle"
    BY DEF Cutting, Truncating, Flushing
  <1> QED
    BY <1>1, <1>2, <1>3, QuietAway

\* The metadata leaves the cache.
LEMMA SizeNoMd ==
  ASSUME FileInv, CellsInv, SizeInv, NEW c \in Client, CellsStep(c), SameKeys,
         mdi' = [mdi EXCEPT ![c] = NoMd], req' = req, ~Cutting(c),
         NEW l \in {"idle", "fsync", "again"}, Goto(c, l), pc[c] = "idle" => l = "idle"
  PROVE  SizeInv'
  <1> DEFINE m == NoMd
  <1>1. MdGood(m) /\ ~m.cached
    BY MdGoodNone, NoMdNumbers DEF CellsInv
  <1> HIDE DEF m
  <1>2. mdi'[c] = m /\ pc'[c] = l
    BY DEF FileInv, Shape, Goto, m
  <1>3. Truncating(c)' => Truncating(c)
    BY <1>2 DEF Truncating
  <1> QED
    BY <1>1, <1>2, <1>3, QuietAway

LEMMA SizeTakenBack ==
  ASSUME FileInv, CellsInv, SizeInv, NEW c \in Client, pc[c] = "putmd", NEW err \in {"eio", "again"},
         FsyncReturns(c, err, NoMd), req' = req, SameKeys, CellsStep(c)
  PROVE  SizeInv'
  <1> DEFINE m == NoMd
  <1>1. MdGood(m) /\ IsMd(m) /\ FsyncReturns(c, err, m)
    BY MdGoodNone, NoMdNumbers DEF CellsInv
  <1> HIDE DEF m
  <1>2. ret[c] # "cut" /\ pc[c] \in Flushing
    BY DEF FileInv, ClientOK, CutOK, Flushing
  <1> QED
    BY <1>1, <1>2, SizeReturn

LEMMA SizeAgain ==
  ASSUME FileInv, CellsInv, SizeInv, NEW c \in Client, Again(c)
  PROVE  SizeInv'
  <1> DEFINE m == LookedUp(c)
  <1>1. Shape
    BY DEF FileInv
  <1>2. /\ pc[c] = "again" /\ mdi' = [mdi EXCEPT ![c] = m] /\ SameKeys
        /\ req' = [req EXCEPT ![c].len = Size(c)] /\ (Goto(c, "block") \/ Goto(c, "fsync"))
    BY DEF Again, store, SameKeys
  <1>3. MdGood(m)
    BY <1>2, MdGoodLookedUp
  <1> HIDE DEF m
  <1>4. pc'[c] \in {"block", "fsync"} /\ mdi'[c] = m /\ req'[c].op = req[c].op
    BY <1>1, <1>2 DEF Shape, Requests, Goto
  <1>5. ~Cutting(c) /\ (Truncating(c)' => Truncating(c))
    BY <1>2, <1>4 DEF Cutting, Truncating
  <1> QED
    BY <1>2, <1>3, <1>4, <1>5, CellsAgain, QuietAway

\* put_data returns with an error.
LEMMA SizePutDataFails ==
  ASSUME FileInv, CellsInv, SizeInv, NEW c \in Client, pc[c] \in {"putdata", "getdata"}, ret[c] # "cut",
         PutDataReturns(c, "eio"), UNCHANGED <<di, req, detached>>, SameKeys
  PROVE  SizeInv'
  <1> DEFINE m == mdi[c]
  <1>1. FsyncReturns(c, "eio", m) /\ IsMd(m) /\ MdGood(m)
    BY DEF PutDataReturns, FileInv, Shape, SizeInv, MdOK
  <1>2. CellsStep(c)
    BY CellsPutDataFails
  <1> HIDE DEF m
  <1> QED
    BY <1>1, <1>2, SizeReturn DEF Flushing

LEMMA SizePutMdMismatch ==
  ASSUME FileInv, CellsInv, SizeInv, NEW c \in Client, PutMdMismatch(c)
  PROVE  SizeInv'
  <1>1. CellsStep(c) /\ pc[c] = "putmd" /\ req' = req /\ SameKeys
    BY CellsPutMdMismatch DEF PutMdMismatch, store, SameKeys
  <1>2. ~Cutting(c)
    BY <1>1 DEF Cutting
  <1>3. CASE FsyncReturns(c, "again", NoMd)
    BY <1>1, <1>3, SizeTakenBack
  <1>4. CASE mdi' = [mdi EXCEPT ![c] = NoMd] /\ Goto(c, "fsync")
    BY <1>1, <1>2, <1>4, SizeNoMd
  <1> QED
    BY <1>3, <1>4 DEF PutMdMismatch

LEMMA SizePutMdFails ==
  ASSUME SizeFirst, FileInv, CellsInv, SizeInv, NEW c \in Client, PutMdFails(c)
  PROVE  SizeInv'
  <1>1. CellsStep(c) /\ pc[c] \in {"putmd", "truncate"} /\ req' = req /\ SameKeys
    BY CellsPutMdFails DEF PutMdFails, store, SameKeys
  <1>2. ~Cutting(c)
    BY <1>1 DEF Cutting
  <1>3. ~(pc[c] = "putmd" /\ ~Appending(c))
    BY Zenon DEF PutMdFails, SizeFirst, Avoided
  <1>4. CASE pc[c] = "putmd" /\ FsyncReturns(c, "eio", NoMd)
    BY <1>1, <1>4, SizeTakenBack
  <1>5. CASE mdi' = [mdi EXCEPT ![c] = NoMd] /\ Goto(c, "idle")
    BY <1>1, <1>2, <1>5, SizeNoMd
  <1> QED
    BY <1>1, <1>3, <1>4, <1>5 DEF PutMdFails, Done

LEMMA SizeCrash ==
  ASSUME WholeTruncates, FileInv, CellsInv, SizeInv, NEW c \in Client, Crash(c)
  PROVE  SizeInv'
  <1>1. CellsStep(c) /\ mdi' = [mdi EXCEPT ![c] = NoMd] /\ Goto(c, "idle") /\ req' = req /\ SameKeys
    BY CellsCrash DEF Crash, Done, locals, store, SameKeys
  <1>2. ~Cutting(c)
    BY CutsSucceed DEF Crash
  <1> QED
    BY <1>1, <1>2, SizeNoMd

\* Truncate is over: no block is left behind the size.
LEMMA SizeTruncateDone ==
  ASSUME FileInv, CellsInv, SizeInv, NEW c \in Client, TruncateDone(c)
  PROVE  SizeInv'
  <1>1. /\ pc[c] = "delete" /\ current[c] > last[c] /\ UNCHANGED <<di, mdi, req, current, detached, ret>>
        /\ SameKeys /\ Goto(c, "idle")
    BY DEF TruncateDone, Done, caches, locals, store, SameKeys
  <1>2. CellsStep(c)
    BY <1>1, CellsEnd
  <1>3. pc'[c] = "idle"
    BY <1>1 DEF FileInv, Shape, Goto
  <1>4. \A b \in Block : Inside(b)
    <2>1. Cutting(c) /\ CutSizeOK(c)
      BY <1>1 DEF Cutting, SizeInv
    <2>2. current[c] \in Nat /\ last[c] \in Nat
      BY DEF CellsInv, NumbersOK, KeysOK, Block
    <2> QED
      BY <1>1, <2>1, <2>2 DEF CutSizeOK, Block
  <1>5. MdGood(mdi'[c])
    BY <1>1 DEF SizeInv, MdOK
  <1>6. ~Truncating(c)'
    BY <1>3 DEF Truncating
  <1> QED
    BY <1>1, <1>2, <1>3, <1>4, <1>5, <1>6, QuietAway

-----------------------------------------------------------------------------
(* The steps of a flush.                                                   *)

\* The numbers of a client's flush.
LEMMA FlushNumbers ==
  ASSUME CellsInv, NEW c \in Client, NEW b \in Block, di[c][b].d \in Data
  PROVE  /\ b * BlockSize \in Nat /\ Len(di[c][b].d) \in Nat
         /\ md.size \in Nat /\ mdi[c].size \in Nat /\ md.version \in Nat /\ versions \in Nat
         /\ mdi[c].version \in Nat
  <1>1. b \in Nat /\ Len(di[c][b].d) \in Nat
    BY DataLength DEF Block
  <1>2. b * BlockSize \in Nat
    BY <1>1
  <1>3. /\ md.size \in Nat /\ mdi[c].size \in Nat /\ md.version \in Nat /\ versions \in Nat
        /\ mdi[c].version \in Nat
    BY DEF CellsInv, KeysOK, NumbersOK
  <1> QED
    BY <1>1, <1>2, <1>3

LEMMA StoredEnd ==
  ASSUME KeysOK, NEW b \in Block
  PROVE  b * BlockSize + Len(blocks[b].d) \in Nat
  <1>1. blocks[b].d \in Data
    BY DEF KeysOK
  <1>2. b \in Nat /\ Len(blocks[b].d) \in Nat
    BY <1>1, DataLength DEF Block
  <1> DEFINE p == b * BlockSize
             len == Len(blocks[b].d)
  <1>3. p \in Nat /\ len \in Nat
    BY <1>2
  <1> HIDE DEF p, len
  <1>4. p + len \in Nat
    BY <1>3
  <1> QED
    BY <1>4 DEF p, len

LEMMA SizeFsync ==
  ASSUME FileInv, CellsInv, SizeInv, NEW c \in Client, Fsync(c)
  PROVE  SizeInv'
  <1>1. Shape /\ ClientOK(c) /\ CellsOK(c) /\ CellsStep(c)
    BY CellsFsync DEF FileInv, CellsInv
  <1>2. pc[c] = "fsync" /\ UNCHANGED <<di, req, detached>> /\ SameKeys
    BY DEF Fsync, store, SameKeys
  <1>3. ret[c] # "cut"
    BY <1>1, <1>2 DEF ClientOK, CutOK
  <1>4. CASE FsyncReturns(c, "ok", LookedUp(c))
    <2> DEFINE m == LookedUp(c)
    <2>1. IsMd(m) /\ MdGood(m) /\ FsyncReturns(c, "ok", m)
      BY <1>1, <1>2, <1>4, LookedUpShape, MdGoodLookedUp
    <2> HIDE DEF m
    <2> QED
      BY <1>1, <1>2, <1>3, <2>1, SizeReturn
  <1>5. CASE /\ Dirty(c) /\ mdi' = [mdi EXCEPT ![c].size = NewSize(c, mdi[c].dirty, LookedUp(c).size)]
             /\ current' = [current EXCEPT ![c] = mdi[c].dirty]
             /\ \/ Goto(c, "putmd")
                \/ Goto(c, "putdata") /\ ~(LookedUp(c).size < NewSize(c, mdi[c].dirty, LookedUp(c).size))
             /\ ret' = ret
    <2> DEFINE b == mdi[c].dirty
               len == Len(di[c][b].d)
               end == b * BlockSize + len
               size == NewSize(c, b, mdi[c].size)
    <2>1. b \in Block /\ LookedUp(c) = mdi[c] /\ mdi[c].cached
      BY <1>1, <1>5, DirtyBlock
    <2>2. di[c][b].d \in Data
      BY <1>1, <1>3, <2>1 DEF CellsOK, GoodBlock, CutBlock
    <2>3. /\ end \in Nat /\ md.size \in Nat /\ mdi[c].size \in Nat
          /\ size = IF end > mdi[c].size THEN end ELSE mdi[c].size
      BY <2>1, <2>2, FlushNumbers DEF NewSize, Larger
    <2>4. MdGood(mdi[c])
      BY <1>2 DEF SizeInv, MdOK
    <2>5. /\ mdi' = [mdi EXCEPT ![c].size = size] /\ current' = [current EXCEPT ![c] = b]
          /\ Goto(c, "putmd") \/ (Goto(c, "putdata") /\ ~(mdi[c].size < size))
      BY <1>5, <2>1
    <2> HIDE DEF size
    <2>6. /\ mdi'[c].size = size /\ mdi'[c].version = mdi[c].version /\ mdi'[c].cached = mdi[c].cached
          /\ current'[c] = b
          /\ pc'[c] = "putmd" \/ (pc'[c] = "putdata" /\ ~(mdi[c].size < size))
      BY <1>1, <2>5 DEF Shape, IsMd, Goto
    <2>7. EndOf(c)' = end
      BY <1>2, <2>6 DEF EndOf
    <2> HIDE DEF end, len
    <2>8. FlushOK(c)'
      BY <1>2, <2>1, <2>3, <2>4, <2>6, <2>7 DEF FlushOK, MdGood, SameKeys
    <2>9. MdOK(c)'
      <3>1. CASE pc'[c] = "putmd"
        BY <1>2, <2>1, <2>3, <2>4, <2>6, <3>1 DEF MdOK, MdGood, SameKeys
      <3>2. CASE pc'[c] = "putdata" /\ ~(mdi[c].size < size)
        <4>1. mdi'[c].size = mdi[c].size
          BY <2>3, <2>6, <3>2
        <4> QED
          BY <1>2, <2>4, <2>6, <3>2, <4>1 DEF MdOK, MdGood, SameKeys
      <3> QED
        BY <2>6, <3>1, <3>2
    <2>10. ~Cutting(c) /\ ~Cutting(c)' /\ (Truncating(c)' => Truncating(c))
      BY <1>2, <1>3, <1>5, <2>6 DEF Cutting, Truncating
    <2>11. CutSizeOK(c)' /\ Only(c) /\ UNCHANGED <<md, blocks, versions, last>>
      BY <1>1, <1>2, <2>10 DEF CutSizeOK, CellsStep, SameKeys
    <2> QED
      BY <1>2, <2>8, <2>9, <2>10, <2>11, QuietStep
  <1> QED
    BY <1>4, <1>5 DEF Fsync

\* The other clients after a larger size has been stored with a new version.
LEMMA SizePutMd ==
  ASSUME FileInv, CellsInv, SizeInv, NEW c \in Client, PutMd(c)
  PROVE  SizeInv'
  <1>1. Shape /\ ClientOK(c) /\ CellsStep(c) /\ MdOK(c) /\ FlushOK(c)
    BY CellsPutMd DEF FileInv, SizeInv
  <1>2. /\ pc[c] = "putmd" /\ Goto(c, "putdata") /\ md.version = mdi[c].version
        /\ UNCHANGED <<di, req, ret, current, detached, blocks, sent, last>>
        /\ mdi' = [mdi EXCEPT ![c].version = versions + 1]
        /\ versions' = versions + 1 /\ md' = [size |-> mdi[c].size, version |-> versions + 1]
    BY DEF PutMd, PutMetadata, locals
  <1>3. /\ md.size \in Nat /\ versions \in Nat /\ mdi[c].size \in Nat
        /\ md'.size = mdi[c].size /\ md'.version = versions + 1
        /\ \A x \in Client : mdi[x].size \in Nat /\ mdi[x].version \in Nat
        /\ \A x \in Client : mdi[x].version <= versions
    BY <1>2 DEF CellsInv, KeysOK, NumbersOK, SizeInv, MdOK, MdGood
  <1>4. md.size <= md'.size
    BY <1>1, <1>2, <1>3 DEF MdOK
  <1>5. /\ mdi'[c].size = mdi[c].size /\ mdi'[c].version = versions + 1 /\ mdi'[c].cached = mdi[c].cached
        /\ pc'[c] = "putdata"
    BY <1>1, <1>2 DEF Shape, IsMd, Goto
  <1>6. ASSUME NEW x \in Client, x # c
        PROVE  /\ di'[x] = di[x] /\ mdi'[x] = mdi[x] /\ pc'[x] = pc[x] /\ ret'[x] = ret[x]
               /\ req'[x] = req[x] /\ current'[x] = current[x] /\ ~Truncating(x)' /\ ~Cutting(x)'
    <2>1. /\ di'[x] = di[x] /\ mdi'[x] = mdi[x] /\ pc'[x] = pc[x] /\ ret'[x] = ret[x]
          /\ req'[x] = req[x] /\ current'[x] = current[x]
      BY <1>1, <1>6 DEF CellsStep, Only
    <2>2. ~Truncating(x) /\ ~Cutting(x)
      BY <1>2, <1>6, Unshared
    <2> QED
      BY <2>1, <2>2 DEF Truncating, Cutting
  <1>7. ret[c] # "cut" /\ ~Cutting(c) /\ ~Cutting(c)'
    BY <1>1, <1>2, <1>5 DEF ClientOK, CutOK, Cutting
  <1>8. \A b \in Block : Inside(b)'
    <2> TAKE b \in Block
    <2> DEFINE end == b * BlockSize + Len(blocks[b].d)
    <2>1. Inside(b)
      BY <1>2, <1>7, AllInside
    <2>2. end \in Nat
      BY StoredEnd DEF CellsInv
    <2>3. blocks[b].d # <<>> => end <= md.size
      BY <2>1 DEF Inside
    <2>4. blocks[b].d # <<>> => end <= md'.size
      <3> HIDE DEF end
      <3> QED
        BY <1>3, <1>4, <2>2, <2>3
    <2> QED
      BY <1>2, <2>4 DEF Inside
  <1>9. FlushOK(c)' /\ MdOK(c)' /\ CutSizeOK(c)'
    <2>1. EndOf(c)' = EndOf(c) /\ EndOf(c) <= mdi[c].size
      BY <1>1, <1>2 DEF EndOf, FlushOK
    <2>2. FlushOK(c)'
      BY <1>3, <1>5, <2>1 DEF FlushOK
    <2>3. MdOK(c)'
      BY <1>1, <1>2, <1>3, <1>5 DEF MdOK, MdGood
    <2> QED
      BY <1>7, <2>2, <2>3 DEF CutSizeOK
  <1>10. AloneOK(c)'
    BY <1>2, <1>5, <1>6 DEF AloneOK, Truncating, SizeInv
  <1>11. ASSUME NEW x \in Client, x # c PROVE AloneOK(x)' /\ FlushOK(x)' /\ MdOK(x)' /\ CutSizeOK(x)'
    <2>1. AloneOK(x) /\ FlushOK(x) /\ MdOK(x)
      BY DEF SizeInv
    <2>2. AloneOK(x)' /\ CutSizeOK(x)'
      BY <1>6, <1>11 DEF AloneOK, CutSizeOK
    <2>3. FlushOK(x)'
      <3>1. EndOf(x)' = EndOf(x)
        BY <1>6, <1>11 DEF EndOf
      <3>2. CASE pc[x] \in {"putdata", "getdata"} /\ ret[x] # "cut"
        <4>1. current[x] \in Block /\ di[x][current[x]].d \in Data
          BY <3>2, FlushedBlock
        <4>2. EndOf(x) \in Nat /\ EndOf(x) <= md.size
          BY <2>1, <3>2, <4>1, FlushNumbers DEF EndOf, FlushOK
        <4> QED
          BY <1>3, <1>4, <1>6, <1>11, <3>1, <3>2, <4>2 DEF FlushOK
      <3>3. CASE ~(pc[x] \in {"putdata", "getdata"} /\ ret[x] # "cut")
        BY <1>6, <1>11, <2>1, <3>1, <3>3 DEF FlushOK
      <3> QED
        BY <3>2, <3>3
    <2>4. MdOK(x)'
      <3>1. mdi[x].size \in Nat /\ mdi[x].version \in Nat /\ mdi[x].version <= versions /\ mdi'[x] = mdi[x]
        BY <1>3, <1>6, <1>11
      <3>2. mdi'[x].version # md'.version /\ mdi'[x].version <= versions'
        <4> DEFINE v == mdi[x].version
        <4>1. v \in Nat /\ versions \in Nat /\ v <= versions
          BY <1>3, <3>1
        <4>2. mdi'[x].version = v /\ md'.version = versions + 1 /\ versions' = versions + 1
          BY <1>2, <1>3, <3>1
        <4> HIDE DEF v
        <4> QED
          BY <4>1, <4>2
      <3>3. mdi[x].size <= md.size => mdi'[x].size <= md'.size
        BY <1>3, <1>4, <3>1
      <3> QED
        BY <1>6, <1>11, <2>1, <3>1, <3>2, <3>3 DEF MdOK, MdGood
    <2> QED
      BY <2>2, <2>3, <2>4
  <1>12. md'.version <= versions'
    BY <1>2, <1>3
  <1> QED
    BY <1>8, <1>9, <1>10, <1>11, <1>12 DEF SizeInv, SizeOK

\* The block is stored inside the file.
LEMMA SizePutData ==
  ASSUME FileInv, CellsInv, SizeInv, NEW c \in Client, PutData(c)
  PROVE  SizeInv'
  <1> DEFINE b == current[c]
  <1>1. Shape /\ ClientOK(c) /\ CellsStep(c) /\ MdOK(c) /\ FlushOK(c) /\ CutSizeOK(c) /\ AloneOK(c) /\ KeysOK
    BY CellsPutData DEF FileInv, SizeInv, CellsInv
  <1>2. /\ pc[c] = "putdata" /\ Goto(c, "stored") /\ versions' = versions + 1
        /\ blocks' = [blocks EXCEPT ![b] = [version |-> versions + 1, d |-> di[c][b].d]]
        /\ UNCHANGED <<di, mdi, req, ret, current, detached, md, last>>
    BY DEF PutData, caches
  <1>3. /\ b \in Block /\ di[c][b].d \in Data
        /\ ret[c] = "cut" => CutTo(di[c][b], InBlock(req[c].off))
    BY <1>2, FlushedBlock
  <1>4. pc'[c] = "stored" /\ (Cutting(c)' <=> Cutting(c)) /\ (Truncating(c)' <=> Truncating(c))
        /\ (Cutting(c) <=> ret[c] = "cut")
    <2>1. pc'[c] = "stored"
      BY <1>1, <1>2 DEF Shape, Goto
    <2> QED
      BY <1>2, <2>1 DEF Cutting, Truncating
  <1>5. \A x \in Client : x # c => /\ ~Truncating(x)' /\ ~Cutting(x)' /\ ~Cutting(x)
                                   /\ pc'[x] = pc[x]
    BY <1>1, <1>2, Unshared DEF CellsStep, Only, Truncating, Cutting
  <1>6. EndOf(c) <= md.size
    <2>1. CASE ret[c] # "cut"
      BY <1>1, <1>2, <2>1 DEF FlushOK
    <2>2. CASE ret[c] = "cut"
      <3> DEFINE off == req[c].off
      <3>1. md.size = off /\ b = BlockOf(off) /\ Len(di[c][b].d) = InBlock(off)
        BY <1>1, <1>2, <1>3, <1>4, <2>2 DEF CutSizeOK, CutTo
      <3>2. off \in Nat
        BY <1>1, Blocks DEF Shape, Requests
      <3>3. /\ BlockOf(off) \in Nat /\ InBlock(off) \in Nat
            /\ off = BlockSize * BlockOf(off) + InBlock(off)
        BY <3>2, Division
      <3>4. off = BlockOf(off) * BlockSize + InBlock(off)
        BY <3>3
      <3>5. EndOf(c) = off
        BY <3>1, <3>4 DEF EndOf
      <3> QED
        BY <3>1, <3>2, <3>5
    <2> QED
      BY <2>1, <2>2
  <1>7. \A k \in Block : k # b => (Inside(k)' <=> Inside(k))
    BY <1>1, <1>2 DEF Inside, KeysOK
  <1>8. \A k \in Block : k = b => Inside(k)'
    <2>1. blocks'[b].d = di[c][b].d /\ md' = md
      BY <1>1, <1>2, <1>3 DEF KeysOK
    <2> QED
      BY <1>6, <2>1 DEF Inside, EndOf
  <1> HIDE DEF b
  <1>9. SizeOK'
    <2> SUFFICES ASSUME ~Cutting(c)', NEW k \in Block PROVE Inside(k)'
      BY DEF SizeOK
    <2>1. Inside(k)
      BY <1>2, <1>4, AllInside
    <2> QED
      BY <1>7, <1>8, <2>1
  <1>10. /\ MdOK(c)' /\ FlushOK(c)' /\ AloneOK(c)'
    <2>1. MdOK(c)'
      <3>1. versions \in Nat /\ mdi[c].version \in Nat
        BY <1>1 DEF KeysOK, CellsInv, NumbersOK
      <3> QED
        BY <1>1, <1>2, <1>4, <3>1 DEF MdOK, MdGood
    <2>2. FlushOK(c)'
      BY <1>4 DEF FlushOK
    <2>3. AloneOK(c)'
      BY <1>1, <1>2, <1>4, <1>5 DEF AloneOK
    <2> QED
      BY <2>1, <2>2, <2>3
  <1>11. CutSizeOK(c)'
    <2> SUFFICES ASSUME Cutting(c) PROVE CutSizeOK(c)'
      BY <1>4 DEF CutSizeOK
    <2>1. /\ md'.size = req'[c].off /\ current'[c] = BlockOf(req'[c].off)
          /\ \A k \in Block : Inside(k)' \/ (current'[c] <= k /\ k <= last'[c])
      BY <1>1, <1>2, <1>7, <1>8 DEF CutSizeOK
    <2>2. Inside(current[c])'
      BY <1>2, <1>3, <1>8 DEF Inside, b
    <2> QED
      BY <2>1, <2>2 DEF CutSizeOK
  <1>12. ASSUME NEW x \in Client, x # c PROVE AloneOK(x)' /\ FlushOK(x)' /\ MdOK(x)' /\ CutSizeOK(x)'
    <2>1. FlushOK(x) /\ MdOK(x) /\ versions \in Nat /\ mdi[x].version \in Nat
      BY <1>1 DEF SizeInv, KeysOK, CellsInv, NumbersOK
    <2>2. FlushOK(x)'
      BY <1>2, <1>5, <1>12, <2>1 DEF FlushOK, EndOf
    <2>3. MdOK(x)'
      BY <1>2, <1>5, <1>12, <2>1 DEF MdOK, MdGood
    <2> QED
      BY <1>5, <1>12, <2>2, <2>3 DEF AloneOK, CutSizeOK
  <1>13. md'.version <= versions'
    BY <1>1, <1>2 DEF SizeInv, KeysOK
  <1> QED
    BY <1>9, <1>10, <1>11, <1>12, <1>13 DEF SizeInv

LEMMA SizePutDataMismatch ==
  ASSUME FileInv, CellsInv, SizeInv, NEW c \in Client, PutDataMismatch(c)
  PROVE  SizeInv'
  <1>1. Shape /\ CellsStep(c) /\ MdOK(c) /\ FlushOK(c) /\ CutSizeOK(c)
    BY CellsPutDataMismatch DEF FileInv, SizeInv
  <1>2. /\ pc[c] = "putdata" /\ Goto(c, "getdata")
        /\ UNCHANGED <<di, mdi, req, ret, current, detached>> /\ UNCHANGED <<md, blocks, versions, last>>
    BY DEF PutDataMismatch, caches, locals, store
  <1>3. pc'[c] = "getdata" /\ (Cutting(c)' <=> Cutting(c)) /\ (Truncating(c)' <=> Truncating(c))
    <2>1. pc'[c] = "getdata"
      BY <1>1, <1>2 DEF Shape, Goto
    <2> QED
      BY <1>2, <2>1 DEF Cutting, Truncating
  <1>4. MdOK(c)' /\ FlushOK(c)' /\ CutSizeOK(c)'
    <2>1. MdOK(c)' /\ FlushOK(c)'
      BY <1>1, <1>2, <1>3 DEF MdOK, MdGood, FlushOK, EndOf
    <2>2. CutSizeOK(c)'
      BY <1>1, <1>2, <1>3 DEF CutSizeOK, Inside
    <2> QED
      BY <2>1, <2>2
  <1> QED
    BY <1>1, <1>2, <1>3, <1>4, QuietStep DEF CellsStep

\* What the block is merged with ends inside the file, too.
LEMMA SizeGetData ==
  ASSUME FileInv, CellsInv, SizeInv, NEW c \in Client, GetData(c)
  PROVE  SizeInv'
  <1> DEFINE b == current[c]
  <1>1. Shape /\ CellsStep(c) /\ MdOK(c) /\ FlushOK(c) /\ CutSizeOK(c) /\ KeysOK
    BY CellsGetData DEF FileInv, SizeInv, CellsInv
  <1>2. /\ pc[c] = "getdata" /\ Goto(c, "putdata")
        /\ UNCHANGED <<mdi, req, ret, current, detached>> /\ UNCHANGED <<md, blocks, versions, last>>
    BY DEF GetData, locals, store
  <1>3. pc'[c] = "putdata" /\ (Cutting(c)' <=> Cutting(c)) /\ (Truncating(c)' <=> Truncating(c))
        /\ (Cutting(c) <=> ret[c] = "cut")
    <2>1. pc'[c] = "putdata"
      BY <1>1, <1>2 DEF Shape, Goto
    <2> QED
      BY <1>2, <2>1 DEF Cutting, Truncating
  <1>4. MdOK(c)'
    BY <1>1, <1>2, <1>3 DEF MdOK, MdGood
  <1>5. CutSizeOK(c)'
    BY <1>1, <1>2, <1>3 DEF CutSizeOK, Inside
  <1>6. FlushOK(c)'
    <2> SUFFICES ASSUME ret[c] # "cut" PROVE EndOf(c)' <= md.size
      BY <1>2, <1>3 DEF FlushOK
    <2> DEFINE p == b * BlockSize
               new == Len(di'[c][b].d)
               old == Len(di[c][b].d)
               fresh == Len(blocks[b].d)
    <2>1. b \in Block /\ di[c][b].d \in Data
      BY <1>2, FlushedBlock
    <2>2. p \in Nat /\ old \in Nat /\ md.size \in Nat /\ fresh \in Nat
      BY <1>1, <2>1, FlushNumbers, DataLength DEF KeysOK
    <2>3. new = IF fresh > old THEN fresh ELSE old
      BY GetDataCells DEF Larger
    <2>4. p + old <= md.size
      BY <1>1, <1>2 DEF FlushOK, EndOf
    <2>5. blocks[b].d # <<>> => p + fresh <= md.size
      <3>1. Inside(b)
        BY <1>2, <1>3, <2>1, AllInside
      <3> QED
        BY <3>1 DEF Inside
    <2>6. blocks[b].d = <<>> => fresh = 0
      OBVIOUS
    <2>7. EndOf(c)' = p + new
      BY <1>2 DEF EndOf
    <2> HIDE DEF p, new, old, fresh
    <2> QED
      BY <2>2, <2>3, <2>4, <2>5, <2>6, <2>7
  <1> QED
    BY <1>1, <1>2, <1>3, <1>4, <1>5, <1>6, QuietStep DEF CellsStep

LEMMA SizeStored ==
  ASSUME FileInv, CellsInv, SizeInv, NEW c \in Client, Stored(c)
  PROVE  SizeInv'
  <1> DEFINE b == current[c]
  <1>1. Shape /\ CellsStep(c) /\ MdOK(c) /\ CutSizeOK(c)
    BY CellsStored DEF FileInv, SizeInv
  <1>2. pc[c] = "stored" /\ PutDataReturns(c, "ok") /\ UNCHANGED <<req, detached>> /\ SameKeys
    BY DEF Stored, store, SameKeys
  <1>3. CASE ret[c] # "cut"
    <2> DEFINE m == mdi[c]
    <2>1. FsyncReturns(c, "ok", m) /\ IsMd(m) /\ MdGood(m)
      BY <1>1, <1>2, <1>3 DEF PutDataReturns, Shape, MdOK
    <2> HIDE DEF m
    <2> QED
      BY <1>1, <1>2, <1>3, <2>1, SizeReturn DEF Flushing
  <1>4. CASE ret[c] = "cut"
    <2>1. Goto(c, "delete") /\ current' = [current EXCEPT ![c] = @ + 1] /\ UNCHANGED <<mdi, ret>>
      BY <1>2, <1>4 DEF PutDataReturns
    <2>2. pc'[c] = "delete" /\ current'[c] = b + 1
      BY <1>1, <2>1 DEF Shape, Goto
    <2>3. b \in Nat /\ last[c] \in Nat
      BY <1>2, FlushedBlock DEF Block, CellsInv, KeysOK
    <2>4. Cutting(c) /\ Cutting(c)' /\ (Truncating(c)' => Truncating(c))
      BY <1>2, <1>4, <2>2 DEF Cutting, Truncating
    <2>5. CutSizeOK(c)'
      <3>1. /\ md.size = req[c].off /\ Inside(b)
            /\ \A k \in Block : Inside(k) \/ (b <= k /\ k <= last[c])
        BY <1>1, <1>2, <2>4 DEF CutSizeOK
      <3>2. \A k \in Block : Inside(k) \/ (b + 1 <= k /\ k <= last[c])
        BY <2>3, <3>1 DEF Block
      <3>3. \A k \in Block : Inside(k)' \/ (current'[c] <= k /\ k <= last'[c])
        BY <1>2, <2>2, <3>2 DEF Inside, SameKeys
      <3> QED
        BY <1>2, <2>2, <3>1, <3>3 DEF CutSizeOK, SameKeys
    <2>6. MdOK(c)' /\ FlushOK(c)'
      BY <1>1, <1>2, <2>1, <2>2 DEF MdOK, MdGood, FlushOK, SameKeys
    <2> QED
      BY <1>1, <1>2, <2>4, <2>5, <2>6, QuietStep DEF CellsStep, SameKeys
  <1> QED
    BY <1>3, <1>4

-----------------------------------------------------------------------------
(* The steps of a truncate.                                                *)

\* Of the blocks inside a file only those between the new and the old size
\* lie behind the new size.
LEMMA Behind ==
  ASSUME NEW b \in Nat, NEW len \in 1 .. BlockSize, NEW old \in Nat, NEW off \in Nat,
         b * BlockSize + len <= old, ~(b * BlockSize + len <= off)
  PROVE  BlockOf(off) <= b /\ b <= BlockOf(old) /\ off < old
  <1> DEFINE p == BlockSize * b
  <1>1. p \in Nat /\ p = b * BlockSize
    OBVIOUS
  <1>2. p + len <= old /\ ~(p + len <= off) /\ off < old
    <2> HIDE DEF p
    <2>1. p + len <= old /\ ~(p + len <= off)
      BY <1>1
    <2> QED
      BY <1>1, <2>1
  <1>3. BlockOf(off) \in Nat /\ BlockOf(old) \in Nat
    BY Division
  <1>4. BlockOf(off) <= b
    <2>1. CASE off < p
      <3>1. p = BlockSize * b + 0
        OBVIOUS
      <3>2. BlockOf(p) = b
        BY <1>1, <3>1, Place
      <3> QED
        BY <1>1, <2>1, <3>2, Before
    <2>2. CASE off >= p
      <3>1. off - p \in Nat /\ off - p < BlockSize
        <4> HIDE DEF p
        <4> QED
          BY <1>1, <1>2, <2>2
      <3>2. off = BlockSize * b + (off - p)
        OBVIOUS
      <3>3. BlockOf(off) = b
        BY <3>1, <3>2, Place
      <3> QED
        BY <3>3
    <2> QED
      BY <1>1, <2>1, <2>2
  <1>5. b <= BlockOf(old)
    <2>1. p < old
      <3> HIDE DEF p
      <3> QED
        BY <1>1, <1>2
    <2>2. p = BlockSize * b + 0
      OBVIOUS
    <2>3. BlockOf(p) = b
      BY <1>1, <2>2, Place
    <2> QED
      BY <1>1, <2>1, <2>3, Before
  <1> QED
    BY <1>2, <1>4, <1>5

LEMMA SizeTruncateMd ==
  ASSUME FileInv, CellsInv, SizeInv, NEW c \in Client, TruncateMd(c)
  PROVE  SizeInv'
  <1> DEFINE off == req[c].off
             old == mdi[c].size
  <1>1. Shape /\ ClientOK(c) /\ CellsStep(c) /\ MdOK(c) /\ AloneOK(c) /\ KeysOK
    BY CellsTruncateMd DEF FileInv, SizeInv, CellsInv
  <1>2. /\ pc[c] = "truncate" /\ md.version = mdi[c].version /\ UNCHANGED <<di, req, ret, detached, blocks>>
        /\ versions' = versions + 1 /\ md' = [size |-> off, version |-> versions + 1]
        /\ mdi' = [mdi EXCEPT ![c].size = off, ![c].version = versions + 1]
        /\ last' = [last EXCEPT ![c] = BlockOf(old)]
        /\ \/ off < old /\ current' = [current EXCEPT ![c] = BlockOf(off)] /\ Goto(c, "cut")
           \/ ~(off < old) /\ current' = [current EXCEPT ![c] = BlockOf(off) + 1] /\ Goto(c, "delete")
    BY DEF TruncateMd, PutMetadata
  <1>3. Truncating(c) /\ ~Cutting(c)
    BY <1>1, <1>2 DEF ClientOK, CutOK, Truncating, Cutting
  <1>4. /\ md'.size = off /\ md'.version = versions + 1 /\ last'[c] = BlockOf(old)
        /\ mdi'[c].size = off /\ mdi'[c].version = versions + 1 /\ mdi'[c].cached = mdi[c].cached
        /\ \/ off < old /\ current'[c] = BlockOf(off) /\ pc'[c] = "cut"
           \/ ~(off < old) /\ current'[c] = BlockOf(off) + 1 /\ pc'[c] = "delete"
    BY <1>1, <1>2 DEF Shape, IsMd, Goto, KeysOK
  <1>5. md.size = old /\ mdi[c].cached
    <2>1. MdGood(mdi[c])
      BY <1>1, <1>2 DEF MdOK
    <2>2. md.version # 0
      BY <1>1 DEF KeysOK
    <2> QED
      BY <1>2, <2>1, <2>2 DEF MdGood
  <1>6. old \in Nat /\ off \in Nat /\ versions \in Nat
    BY <1>1, Blocks DEF Shape, Requests, CellsInv, NumbersOK, KeysOK
  <1>7. ASSUME NEW x \in Client, x # c
        PROVE  /\ pc'[x] = "idle" /\ ~mdi'[x].cached /\ mdi'[x] = mdi[x]
    BY <1>1, <1>3, <1>7 DEF AloneOK, CellsStep, Only
  <1>8. ASSUME NEW b \in Block PROVE Inside(b)' \/ (current'[c] <= b /\ b <= last'[c])
    <2> DEFINE len == Len(blocks[b].d)
    <2> SUFFICES ASSUME ~Inside(b)' PROVE current'[c] <= b /\ b <= last'[c]
      OBVIOUS
    <2>1. blocks[b].d # <<>> /\ ~(b * BlockSize + len <= off)
      BY <1>2, <1>4 DEF Inside
    <2>2. b * BlockSize + len <= old
      <3>1. Inside(b)
        BY <1>2, <1>3, AllInside
      <3> QED
        BY <1>5, <2>1, <3>1 DEF Inside
    <2>3. len \in 1 .. BlockSize /\ b \in Nat
      <3>1. blocks[b].d \in Data
        BY <1>1 DEF KeysOK
      <3>2. len \in 0 .. BlockSize /\ blocks[b].d \in Seq(Value)
        BY <3>1, DataLength
      <3>3. len # 0
        BY <2>1, <3>2
      <3> QED
        BY <3>2, <3>3 DEF Block
    <2> HIDE DEF len, off, old
    <2>4. BlockOf(off) <= b /\ b <= BlockOf(old) /\ off < old
      BY <1>6, <2>1, <2>2, <2>3, Behind
    <2> QED
      BY <1>4, <2>4
  <1>9. Cutting(c)' /\ pc'[c] # "stored" /\ (pc'[c] # "delete" => current'[c] = BlockOf(off)) /\ req' = req
    BY <1>2, <1>4 DEF Cutting
  <1>10. CutSizeOK(c)'
    BY <1>4, <1>8, <1>9 DEF CutSizeOK
  <1>11. MdOK(c)' /\ FlushOK(c)' /\ AloneOK(c)'
    <2>1. MdOK(c)'
      <3> HIDE DEF off, old
      <3>1. pc'[c] # "putmd"
        BY <1>4
      <3>2. mdi'[c].version <= versions'
        BY <1>2, <1>4, <1>6
      <3>5. mdi'[c].cached
        BY <1>4, <1>5
      <3>3. mdi'[c].version # 0
        BY <1>4, <1>6
      <3>4. mdi'[c].version = md'.version /\ md'.size <= mdi'[c].size /\ mdi'[c].size = md'.size
        BY <1>4, <1>6
      <3> QED
        BY <3>1, <3>2, <3>3, <3>4, <3>5 DEF MdOK, MdGood
    <2>2. FlushOK(c)'
      BY <1>4 DEF FlushOK
    <2>3. AloneOK(c)'
      BY <1>7 DEF AloneOK
    <2> QED
      BY <2>1, <2>2, <2>3
  <1>12. ASSUME NEW x \in Client, x # c PROVE AloneOK(x)' /\ FlushOK(x)' /\ MdOK(x)' /\ CutSizeOK(x)'
    <2>1. pc'[x] = "idle" /\ ~mdi'[x].cached /\ mdi'[x] = mdi[x] /\ mdi[x].version = 0
      <3>1. pc[x] = "idle" /\ ~mdi[x].cached /\ MdOK(x)
        BY <1>1, <1>3, <1>12 DEF AloneOK, SizeInv
      <3>2. mdi[x].version = 0
        BY <3>1 DEF MdOK, MdGood
      <3> QED
        BY <1>7, <1>12, <3>2
    <2>2. AloneOK(x)' /\ FlushOK(x)' /\ CutSizeOK(x)'
      BY <2>1 DEF AloneOK, FlushOK, CutSizeOK, Truncating, Cutting
    <2>3. MdOK(x)'
      BY <1>2, <1>4, <1>6, <2>1 DEF MdOK, MdGood
    <2> QED
      BY <2>2, <2>3
  <1>13. md'.version <= versions' /\ SizeOK'
    BY <1>2, <1>4, <1>6, <1>9 DEF SizeOK
  <1> QED
    BY <1>10, <1>11, <1>12, <1>13 DEF SizeInv

LEMMA SizeCut ==
  ASSUME FileInv, CellsInv, SizeInv, NEW c \in Client, Cut(c)
  PROVE  SizeInv'
  <1>1. Shape /\ CellsStep(c) /\ MdOK(c) /\ CutSizeOK(c)
    BY CellsCut DEF FileInv, SizeInv
  <1>2. /\ pc[c] = "cut" /\ Goto(c, "putdata") /\ ret' = [ret EXCEPT ![c] = "cut"]
        /\ UNCHANGED <<mdi, req, current, detached>> /\ UNCHANGED <<md, blocks, versions, last>>
    BY DEF Cut, store
  <1>3. pc'[c] = "putdata" /\ ret'[c] = "cut"
    BY <1>1, <1>2 DEF Shape, Goto
  <1>4. Cutting(c) /\ Cutting(c)' /\ (Truncating(c)' => Truncating(c))
    BY <1>2, <1>3 DEF Cutting, Truncating
  <1>5. MdOK(c)' /\ FlushOK(c)'
    BY <1>1, <1>2, <1>3 DEF MdOK, MdGood, FlushOK
  <1>6. CutSizeOK(c)'
    BY <1>1, <1>2, <1>3, <1>4 DEF CutSizeOK, Inside
  <1> QED
    BY <1>1, <1>2, <1>4, <1>5, <1>6, QuietStep DEF CellsStep

LEMMA SizeDeleteBlock ==
  ASSUME FileInv, CellsInv, SizeInv, NEW c \in Client, DeleteBlock(c)
  PROVE  SizeInv'
  <1>1. /\ Shape /\ CellsStep(c) /\ MdOK(c) /\ CutSizeOK(c) /\ KeysOK /\ AloneOK(c)
        /\ current[c] \in Block /\ current'[c] = current[c] + 1
    BY CellsDeleteBlock DEF FileInv, SizeInv, CellsInv
  <1>2. /\ pc[c] = "delete" /\ blocks' = [blocks EXCEPT ![current[c]] = Absent]
        /\ UNCHANGED <<md, versions, mdi, pc, req, ret, last>>
    BY DEF DeleteBlock
  <1>3. Cutting(c) /\ Cutting(c)'
    BY <1>2 DEF Cutting
  <1>4. \A k \in Block : k # current[c] => (Inside(k)' <=> Inside(k))
    BY <1>1, <1>2 DEF Inside, KeysOK
  <1>5. \A k \in Block : k = current[c] => Inside(k)'
    <2>1. blocks'[current[c]].d = <<>>
      BY <1>1, <1>2 DEF KeysOK, Absent
    <2> QED
      BY <2>1 DEF Inside
  <1>6. CutSizeOK(c)'
    <2>1. current[c] \in Nat /\ last[c] \in Nat
      BY <1>1 DEF KeysOK, Block
    <2>2. \A k \in Block : Inside(k) \/ (current[c] <= k /\ k <= last[c])
      BY <1>1, <1>3 DEF CutSizeOK
    <2>3. \A k \in Block : Inside(k)' \/ (current[c] + 1 <= k /\ k <= last[c])
      <3> TAKE k \in Block
      <3>1. CASE k = current[c]
        BY <1>5, <3>1
      <3>2. CASE k # current[c]
        BY <1>4, <2>1, <2>2, <3>2 DEF Block
      <3> QED
        BY <3>1, <3>2
    <2> QED
      BY <1>1, <1>2, <1>3, <2>3 DEF CutSizeOK
  <1>7. MdOK(c)' /\ FlushOK(c)' /\ AloneOK(c)'
    BY <1>1, <1>2 DEF MdOK, MdGood, FlushOK, AloneOK, Truncating
  <1>8. ASSUME NEW x \in Client, x # c PROVE AloneOK(x)' /\ FlushOK(x)' /\ MdOK(x)' /\ CutSizeOK(x)'
    <2>1. pc[x] = "idle" /\ MdOK(x)
      BY <1>1, <1>3, <1>8, CutsTruncate DEF AloneOK, SizeInv
    <2>2. AloneOK(x)' /\ FlushOK(x)' /\ CutSizeOK(x)'
      BY <1>2, <2>1 DEF AloneOK, FlushOK, CutSizeOK, Truncating, Cutting
    <2>3. MdOK(x)'
      BY <1>2, <2>1 DEF MdOK, MdGood
    <2> QED
      BY <2>2, <2>3
  <1>9. md'.version <= versions' /\ SizeOK'
    BY <1>2, <1>3 DEF SizeOK, SizeInv
  <1> QED
    BY <1>6, <1>7, <1>8, <1>9 DEF SizeInv

-----------------------------------------------------------------------------
(* The theorem about the size.                                             *)

LEMMA SizeInit == Init => SizeInv
  <1> SUFFICES ASSUME Init PROVE SizeInv
    OBVIOUS
  <1>1. md.version = 1 /\ versions = 1 /\ md.size = InitSize
    BY DEF Init
  <1>2. \A b \in Block : Inside(b)
    <2> TAKE b \in Block
    <2>1. CASE b = 0 /\ InitSize > 0
      <3> DEFINE old == [i \in 1 .. InitSize |-> Old]
      <3>1. old \in [1 .. InitSize -> Value] /\ InitSize \in 0 .. BlockSize
        BY DEF Value
      <3>2. blocks[b].d = old
        BY <2>1 DEF Init
      <3> HIDE DEF old
      <3>3. Len(blocks[b].d) = InitSize
        BY <3>1, <3>2, IsData
      <3> QED
        BY <1>1, <2>1, <3>3 DEF Inside
    <2>2. CASE ~(b = 0 /\ InitSize > 0)
      <3>1. blocks[b].d = <<>>
        BY <2>2 DEF Init, Absent
      <3> QED
        BY <3>1 DEF Inside
    <2> QED
      BY <2>1, <2>2
  <1>3. ASSUME NEW c \in Client PROVE AloneOK(c) /\ FlushOK(c) /\ MdOK(c) /\ CutSizeOK(c)
    <2>1. pc[c] = "idle" /\ mdi[c] = NoMd
      BY DEF Init
    <2>2. MdOK(c)
      BY <1>1, <2>1, NoMdNumbers DEF MdOK, MdGood
    <2> QED
      BY <2>1, <2>2 DEF AloneOK, FlushOK, CutSizeOK, Truncating, Cutting
  <1> QED
    BY <1>1, <1>2, <1>3 DEF SizeInv, SizeOK

LEMMA SizeNext ==
  ASSUME SizeFirst, FileInv, CellsInv, SizeInv, Next
  PROVE  SizeInv'
  <1>0. WholeTruncates /\ Serial
    BY DEF SizeFirst, WholeTruncates
  <1>1. ASSUME NEW c \in Client, NEW off \in Offset,
               \/ BeginRead(c, off) \/ BeginTruncate(c, off) \/ BufferedWrite(c, off)
               \/ \E n \in 1 .. BlockSize, a \in BOOLEAN : BeginWrite(c, off, n, a)
        PROVE  SizeInv'
    <2> DEFINE r == ret[c]
    <2>1. r \in {ret[c], "done", "truncate"} /\ (ret' = ret => ret' = [ret EXCEPT ![c] = r])
      BY DEF FileInv, Shape
    <2>2. CASE BeginRead(c, off)
      <3> DEFINE no == FALSE
                 zero == 0
      <3>0. no \in BOOLEAN /\ zero \in 0 .. BlockSize
        OBVIOUS
      <3>1. Begin(c, "read", off, zero, no) /\ Goto(c, "block") /\ ret' = ret
        BY <2>2 DEF BeginRead
      <3> HIDE DEF r, zero, no
      <3>2. CellsStep(c)
        BY <2>1, <3>0, <3>1, CellsBegin
      <3> QED
        BY <1>0, <3>0, <3>1, <3>2, SizeBegin
    <2>3. CASE BeginTruncate(c, off)
      <3>1. Begin(c, "truncate", off, 0, FALSE) /\ Goto(c, "fsync") /\ ret' = [ret EXCEPT ![c] = "truncate"]
        BY <2>3, Zenon DEF BeginTruncate
      <3>2. (\A b \in Block : di[c][b].updates = <<>>) /\ \A x \in Client \ {c} : Unaffected(x, off)
        BY <1>0, <2>3, TruncateAlone
      <3>3. CellsStep(c)
        <4> DEFINE n == 0
                   t == "truncate"
        <4>1. n \in 0 .. BlockSize /\ t \in {ret[c], "done", "truncate"} /\ t # "cut"
          OBVIOUS
        <4>2. Begin(c, "truncate", off, n, FALSE) /\ ret' = [ret EXCEPT ![c] = t]
          BY <3>1
        <4> HIDE DEF n, t
        <4> QED
          BY <3>1, <3>2, <4>1, <4>2, CellsBegin
      <3>4. \A x \in Client \ {c} : pc[x] = "idle" /\ ~mdi[x].cached
        BY <3>2 DEF Unaffected
      <3> QED
        BY <1>0, <3>1, <3>3, <3>4, SizeBegin
    <2>4. CASE BufferedWrite(c, off)
      <3>1. /\ CellsStep(c) /\ SameSize(c) /\ mdi'[c].cached = mdi[c].cached
            /\ ~Truncating(c) /\ pc[c] \notin Flushing
        BY <1>0, <2>4, CellsBuffered
      <3>2. SameKeys /\ req' = req /\ pc' = pc /\ pc[c] \notin {"idle", "block"}
        BY <2>4 DEF BufferedWrite, store, locals, SameKeys
      <3>3. ~Cutting(c) /\ pc[c] # "truncate" /\ pc[c] \in Labels
        BY <3>1, <3>2, CutsTruncate DEF FileInv, ClientOK, CutOK, Truncating, Shape
      <3>4. pc[c] \in {"fsync", "again"}
        BY <3>1, <3>2, <3>3 DEF Labels, Flushing, Cutting
      <3> QED
        BY <3>1, <3>2, <3>3, <3>4, SizeSame
    <2>5. ASSUME NEW n \in 1 .. BlockSize, NEW a \in BOOLEAN, BeginWrite(c, off, n, a) PROVE SizeInv'
      <3>1. Begin(c, "write", off, n, a) /\ Goto(c, "block") /\ ret' = ret
        BY <2>5 DEF BeginWrite
      <3>2. n \in 0 .. BlockSize /\ n > 0
        OBVIOUS
      <3> HIDE DEF r
      <3>3. CellsStep(c)
        BY <2>1, <3>1, <3>2, CellsBegin
      <3> QED
        BY <1>0, <3>1, <3>3, SizeBegin
    <2> QED
      BY <1>1, <2>2, <2>3, <2>4, <2>5
  <1>2. ASSUME NEW c \in Client, NEW a \in BOOLEAN, BeginFsync(c, a) PROVE SizeInv'
    <2>1. 0 \in Offset
      <3>1. BlockSize * NBlocks \in Nat /\ BlockSize * NBlocks >= 1
        OBVIOUS
      <3> QED
        BY <3>1 DEF Offset, FileSize
    <2>2. Begin(c, "fsync", 0, 0, a) /\ Goto(c, "fsync") /\ ret' = [ret EXCEPT ![c] = "done"]
      BY <1>2, Zenon DEF BeginFsync
    <2> DEFINE n == 0
               off == 0
               t == "done"
    <2>3. n \in 0 .. BlockSize /\ off \in Offset /\ t \in {ret[c], "done", "truncate"} /\ t # "cut"
      BY <2>1
    <2>4. Begin(c, "fsync", off, n, a) /\ ret' = [ret EXCEPT ![c] = t]
      BY <2>2
    <2> HIDE DEF n, off, t
    <2>5. CellsStep(c)
      BY <2>2, <2>3, <2>4, CellsBegin
    <2> QED
      BY <1>0, <2>2, <2>4, <2>5, SizeBegin
  <1>3. ASSUME NEW c \in Client, GetDataGone(c) \/ PutDataFails(c) PROVE SizeInv'
    <2>1. /\ pc[c] \in {"putdata", "getdata"} /\ PutDataReturns(c, "eio")
          /\ UNCHANGED <<di, req, detached>> /\ SameKeys
      BY <1>3 DEF GetDataGone, PutDataFails, store, SameKeys
    <2>2. ret[c] # "cut"
      BY <1>0, <1>3, <2>1, CutsSucceed DEF PutDataFails, Cutting
    <2> QED
      BY <2>1, <2>2, SizePutDataFails
  <1>4. ASSUME NEW c \in Client, RwFails(c) PROVE SizeInv'
    <2>1. /\ pc[c] = "block" /\ UNCHANGED <<di, mdi, req, current, detached>> /\ SameKeys
          /\ \/ Goto(c, "idle") /\ ret' = ret
             \/ Goto(c, "fsync") /\ ret' = [ret EXCEPT ![c] = "done"]
      BY <1>4 DEF RwFails, Done, caches, store, SameKeys
    <2>2. CellsStep(c)
      BY <2>1, CellsEnd
    <2>3. pc'[c] \in {"idle", "fsync"} /\ ~Cutting(c) /\ SameSize(c)
      BY <2>1 DEF FileInv, Shape, Goto, Cutting, SameSize
    <2> QED
      BY <2>1, <2>2, <2>3, SizeSame
  <1>5. ASSUME NEW c \in Client, DoRead(c) PROVE SizeInv'
    <2>1. pc[c] = "block" /\ UNCHANGED <<mdi, req>> /\ SameKeys /\ Goto(c, "idle")
      BY <1>5 DEF DoRead, Done, locals, store, SameKeys
    <2>2. pc'[c] = "idle" /\ ~Cutting(c) /\ SameSize(c)
      BY <2>1 DEF FileInv, Shape, Goto, Cutting, SameSize
    <2> QED
      BY <1>5, <2>1, <2>2, CellsRead, SizeSame
  <1>6. ASSUME NEW c \in Client, DoWrite(c) PROVE SizeInv'
    <2>1. /\ pc[c] = "block" /\ req' = req /\ SameKeys
          /\ Written(c) \/ Goto(c, "fsync")
      BY <1>6 DEF DoWrite, store, SameKeys
    <2>2. pc'[c] \in {"idle", "fsync"} /\ ~Cutting(c)
      BY <2>1, WrittenFacts DEF FileInv, Shape, Goto, Cutting
    <2> QED
      BY <1>6, <2>1, <2>2, CellsWrite, SizeSame
  <1>7. ASSUME NEW c \in Client, NEW b \in Block, ExpireBlock(c, b) PROVE SizeInv'
    <2>1. pc[c] = "idle" /\ UNCHANGED <<mdi, req, pc>> /\ SameKeys
      BY <1>7 DEF ExpireBlock, locals, store, SameKeys
    <2>2. ~Cutting(c) /\ SameSize(c)
      BY <2>1 DEF Cutting, SameSize
    <2> QED
      BY <1>7, <2>1, <2>2, CellsExpireBlock, SizeSame
  <1>8. ASSUME NEW c \in Client, ExpireMd(c) PROVE SizeInv'
    <2>1. pc[c] = "idle" /\ mdi' = [mdi EXCEPT ![c] = NoMd] /\ UNCHANGED <<req, pc>> /\ SameKeys
      BY <1>8 DEF ExpireMd, locals, store, SameKeys
    <2>2. ~Cutting(c) /\ Goto(c, "idle")
      BY <2>1 DEF Cutting, FileInv, Shape, Goto
    <2> QED
      BY <1>8, <2>1, <2>2, CellsExpireMd, SizeNoMd
  <1>9. ASSUME NEW c \in Client, TruncateMdMismatch(c) PROVE SizeInv'
    <2>1. pc[c] = "truncate" /\ mdi' = [mdi EXCEPT ![c] = NoMd] /\ req' = req /\ Goto(c, "again") /\ SameKeys
      BY <1>9 DEF TruncateMdMismatch, locals, store, SameKeys
    <2>2. ~Cutting(c)
      BY <2>1 DEF Cutting
    <2> QED
      BY <1>9, <2>1, <2>2, CellsTruncateMdMismatch, SizeNoMd
  <1> QED
    BY <1>0, <1>1, <1>2, <1>3, <1>4, <1>5, <1>6, <1>7, <1>8, <1>9, SizeAgain, SizeFsync, SizePutMd,
       SizePutMdMismatch, SizePutData, SizePutDataMismatch, SizeGetData, SizeStored,
       SizeTruncateMd, SizeCut, SizeDeleteBlock, SizeTruncateDone, SizePutMdFails, SizeCrash
    DEF Next

\* The stored size covers the stored blocks whenever no truncate is at work:
\* hflat_fsync puts the metadata before the data, and neither a merge with what
\* another client has stored, nor a metadata mismatch, a failure, a crash or the
\* deletions of a truncate leaves cells that no reader would find.  The Put of
\* the size must not fail on its own, and truncates must neither share the file
\* nor fail halfway.
THEOREM SizeCoversDataCorrect ==
  ASSUME SizeFirst
  PROVE  Spec => []SizeCoversData
  <1>1. Init => FileInv /\ CellsInv /\ SizeInv
    BY InitHolds, CellsInit, SizeInit
  <1>2. FileInv /\ CellsInv /\ SizeInv /\ [Next]_vars => FileInv' /\ CellsInv' /\ SizeInv'
    <2> SUFFICES ASSUME FileInv, CellsInv, SizeInv, [Next]_vars PROVE FileInv' /\ CellsInv' /\ SizeInv'
      OBVIOUS
    <2>1. FileInv' /\ CellsInv'
      BY FileStep, CellsInductive DEF SizeFirst, WholeTruncates
    <2>2. CASE UNCHANGED vars
      <3>1. UNCHANGED <<md, blocks, versions, mdi, di, pc, req, ret, current, last, detached>>
        BY <2>2 DEF vars, store, caches, locals
      <3>2. /\ \A x \in Client : (Truncating(x)' <=> Truncating(x)) /\ (Cutting(x)' <=> Cutting(x))
            /\ \A k : Inside(k)' <=> Inside(k)
        BY <3>1 DEF Truncating, Cutting, Inside
      <3>3. ASSUME NEW x \in Client PROVE AloneOK(x)' /\ FlushOK(x)' /\ MdOK(x)' /\ CutSizeOK(x)'
        <4>1. AloneOK(x) /\ FlushOK(x) /\ MdOK(x) /\ CutSizeOK(x)
          BY DEF SizeInv
        <4>2. AloneOK(x)'
          BY <3>1, <3>2, <4>1 DEF AloneOK
        <4>3. FlushOK(x)'
          BY <3>1, <4>1 DEF FlushOK, EndOf
        <4>4. MdOK(x)'
          BY <3>1, <4>1 DEF MdOK, MdGood
        <4>5. CutSizeOK(x)'
          <5>1. /\ md' = md /\ req'[x] = req[x] /\ current'[x] = current[x] /\ last'[x] = last[x] /\ pc'[x] = pc[x]
                /\ Inside(current[x])' <=> Inside(current[x])
            BY <3>1 DEF Inside
          <5> QED
            BY <3>2, <4>1, <5>1 DEF CutSizeOK
        <4> QED
          BY <4>2, <4>3, <4>4, <4>5
      <3>4. SizeOK' /\ md'.version <= versions'
        BY <3>1, <3>2 DEF SizeInv, SizeOK
      <3>5. SizeInv'
        BY <3>3, <3>4 DEF SizeInv
      <3> QED
        BY <2>1, <3>5
    <2> QED
      BY <2>1, <2>2, SizeNext
  <1>3. FileInv /\ SizeInv => SizeCoversData
    <2> SUFFICES ASSUME FileInv, SizeInv, \A c \in Client : ~Truncating(c)
                 PROVE  \A b \in Block : Inside(b)
      BY DEF SizeCoversData, Inside
    <2> QED
      BY CutsTruncate DEF SizeInv, SizeOK
  <1> QED
    BY <1>1, <1>2, <1>3, PTL DEF Spec

-----------------------------------------------------------------------------
(* Changes that are applied to a block, as SharedFile does it.             *)

Applied(s, u, c) == Abstract!ApplyAll(s, u, c)
Changed(s, e, c) == Abstract!Apply(s, e, c)

\* What the recursive function of ApplyAll is.
Applying(f, s, u, c) ==
    /\ f[0] = s
    /\ \A n \in Nat : f[n + 1] = Changed(f[n], u[n + 1], c)
    /\ Applied(s, u, c) = f[Len(u)]

LEMMA ApplyUnfolds ==
  ASSUME NEW s, NEW u, NEW c
  PROVE  \E f : Applying(f, s, u, c)
  <1> DEFINE f == CHOOSE g : g = [k \in Nat |-> IF k = 0 THEN s ELSE Changed(g[k - 1], u[k], c)]
  <1>0. Applied(s, u, c) = f[Len(u)]
    BY Zenon DEF Applied, Changed, Abstract!ApplyAll
  <1> HIDE DEF f
  <1> DEFINE Run(g, n) == g[0] = s /\ \A i \in 0 .. n - 1 : g[i + 1] = Changed(g[i], u[i + 1], c)
  <1>1. \A n \in Nat : \E g : Run(g, n)
    <2> DEFINE S == {n \in Nat : \A g : ~Run(g, n)}
    <2> SUFFICES ASSUME S # {} PROVE FALSE
      OBVIOUS
    <2>0. S \subseteq Nat
      OBVIOUS
    <2>1. PICK n \in S : \A k \in S : n <= k
      <3> HIDE DEF S
      <3> QED
        BY <2>0, LeastNat
    <2>2. CASE n = 0
      <3>1. Run([i \in {0} |-> s], 0)
        OBVIOUS
      <3> QED
        BY <2>1, <2>2, <3>1
    <2>3. CASE n # 0
      <3>1. n - 1 \in Nat /\ n - 1 \notin S
        <4> HIDE DEF S
        <4> QED
          BY <2>0, <2>1, <2>3
      <3>2. PICK g : Run(g, n - 1)
        BY <3>1
      <3>3. PICK h : h = [i \in 0 .. n |-> IF i < n THEN g[i] ELSE Changed(g[n - 1], u[n], c)]
        OBVIOUS
      <3>4. h[0] = s
        BY <2>3, <3>2, <3>3
      <3>5. ASSUME NEW i \in 0 .. n - 1 PROVE h[i + 1] = Changed(h[i], u[i + 1], c)
        <4>1. CASE i = n - 1
          BY <2>1, <3>3, <4>1
        <4>2. CASE i # n - 1
          <5>1. i \in 0 .. (n - 1) - 1 /\ i + 1 < n /\ i + 1 \in 0 .. n /\ i \in 0 .. n
            BY <2>1, <4>2
          <5>2. g[i + 1] = Changed(g[i], u[i + 1], c)
            BY <3>2, <5>1
          <5> QED
            BY <3>3, <5>1, <5>2
        <4> QED
          BY <4>1, <4>2
      <3> QED
        BY <2>1, <3>4, <3>5
    <2> QED
      BY <2>2, <2>3
  <1>2. ASSUME NEW n \in Nat, NEW g, NEW h, Run(g, n), Run(h, n)
        PROVE  g[n] = h[n]
    <2> DEFINE S == {i \in 0 .. n : g[i] # h[i]}
    <2> SUFFICES ASSUME S # {} PROVE FALSE
      OBVIOUS
    <2>0. S \subseteq Nat
      OBVIOUS
    <2>1. PICK i \in S : \A k \in S : i <= k
      <3> HIDE DEF S
      <3> QED
        BY <2>0, LeastNat
    <2>2. i # 0
      BY <1>2, <2>1
    <2>3. i - 1 \in 0 .. n - 1 /\ i - 1 \notin S /\ i - 1 \in 0 .. n
      BY <2>1, <2>2
    <2>4. g[i - 1] = h[i - 1]
      BY <2>3
    <2>5. /\ g[(i - 1) + 1] = Changed(g[i - 1], u[(i - 1) + 1], c)
          /\ h[(i - 1) + 1] = Changed(h[i - 1], u[(i - 1) + 1], c)
      BY <1>2, <2>3
    <2> QED
      BY <2>1, <2>4, <2>5
  <1>3. PICK F : F = [n \in Nat |-> (CHOOSE g : Run(g, n))[n]]
    OBVIOUS
  <1>4. \A n \in Nat : \A g : Run(g, n) => F[n] = g[n]
    <2> SUFFICES ASSUME NEW n \in Nat, NEW g, Run(g, n) PROVE F[n] = g[n]
      OBVIOUS
    <2>1. Run(CHOOSE h : Run(h, n), n)
      OBVIOUS
    <2> QED
      BY <1>2, <1>3, <2>1
  <1>5. F[0] = s /\ \A n \in Nat : F[n + 1] = Changed(F[n], u[n + 1], c)
    <2>1. F[0] = s
      <3>1. PICK g : Run(g, 0)
        BY <1>1
      <3> QED
        BY <1>4, <3>1
    <2>2. ASSUME NEW n \in Nat PROVE F[n + 1] = Changed(F[n], u[n + 1], c)
      <3>1. PICK g : Run(g, n + 1)
        <4> HIDE DEF Run
        <4> QED
          BY <1>1
      <3>2. Run(g, n) /\ g[n + 1] = Changed(g[n], u[n + 1], c)
        BY <3>1
      <3> QED
        BY <1>4, <3>1, <3>2
    <2> QED
      BY <2>1, <2>2
  <1>6. F = [k \in Nat |-> IF k = 0 THEN s ELSE Changed(F[k - 1], u[k], c)]
    <2>1. \A k \in Nat : F[k] = IF k = 0 THEN s ELSE Changed(F[k - 1], u[k], c)
      <3> SUFFICES ASSUME NEW k \in Nat, k # 0 PROVE F[k] = Changed(F[k - 1], u[k], c)
        BY <1>5
      <3>1. k - 1 \in Nat /\ (k - 1) + 1 = k
        OBVIOUS
      <3> QED
        BY <1>5, <3>1
    <2> QED
      BY <1>3, <2>1
  <1> HIDE DEF Run
  <1>7. f = [k \in Nat |-> IF k = 0 THEN s ELSE Changed(f[k - 1], u[k], c)]
    BY <1>6, Zenon DEF f
  <1>8. PICK G : G = [k \in Nat |-> IF k = 0 THEN s ELSE Changed(f[k - 1], u[k], c)]
    OBVIOUS
  <1>9. G[0] = s /\ \A n \in Nat : G[n + 1] = Changed(f[n], u[n + 1], c)
    BY <1>8
  <1>10. G = f
    BY <1>7, <1>8, Zenon
  <1>11. Applied(s, u, c) = G[Len(u)]
    BY <1>0, <1>10, Zenon
  <1> QED
    BY <1>9, <1>10, <1>11 DEF Applying

LEMMA UpTo ==
  ASSUME NEW n \in Nat, NEW T, 0 \in T, \A k \in Nat : k < n /\ k \in T => k + 1 \in T
  PROVE  \A k \in 0 .. n : k \in T
  <1> DEFINE S == {k \in 0 .. n : k \notin T}
  <1> SUFFICES ASSUME S # {} PROVE FALSE
    OBVIOUS
  <1>0. S \subseteq Nat
    OBVIOUS
  <1>1. PICK k \in S : \A j \in S : k <= j
    <2> HIDE DEF S
    <2> QED
      BY <1>0, LeastNat
  <1>2. k # 0 /\ k - 1 \in 0 .. n /\ k - 1 \notin S
    BY <1>1
  <1>3. k - 1 \in T /\ k - 1 < n /\ k - 1 \in Nat
    BY <1>1, <1>2
  <1>4. (k - 1) + 1 \in T
    BY <1>3
  <1> QED
    BY <1>1, <1>4

LEMMA NothingApplied ==
  ASSUME NEW s, NEW c
  PROVE  Applied(s, <<>>, c) = s
  BY ApplyUnfolds DEF Applying

\* One more change is applied to what the others have made.
LEMMA OneMoreApplied ==
  ASSUME NEW s, NEW u \in Updates, NEW e \in Nat \X Nat, NEW c
  PROVE  Applied(s, Append(u, e), c) = Changed(Applied(s, u, c), e, c)
  <1> DEFINE w == Append(u, e)
             n == Len(u)
  <1>1. PICK f : Applying(f, s, u, c)
    BY ApplyUnfolds
  <1>2. PICK g : Applying(g, s, w, c)
    BY ApplyUnfolds
  <1>3. n \in Nat /\ Len(w) = n + 1 /\ w[n + 1] = e /\ \A k \in 1 .. n : w[k] = u[k]
    BY DEF Updates
  <1> HIDE DEF w, n
  <1> DEFINE T == {k \in 0 .. n : f[k] = g[k]}
  <1>4. 0 \in T
    <2>1. f[0] = g[0]
      BY <1>1, <1>2, Zenon DEF Applying
    <2> QED
      BY <1>3, <2>1
  <1>5. ASSUME NEW k \in Nat, k < n, k \in T PROVE k + 1 \in T
    <2>1. w[k + 1] = u[k + 1] /\ k + 1 \in 0 .. n /\ f[k] = g[k]
      BY <1>3, <1>5
    <2>2. f[k + 1] = g[k + 1]
      BY <1>1, <1>2, <2>1, Zenon DEF Applying
    <2> QED
      BY <2>1, <2>2
  <1>6. n \in T
    <2>1. n \in Nat /\ n \in 0 .. n
      BY <1>3
    <2> HIDE DEF T
    <2>2. \A k \in 0 .. n : k \in T
      BY <1>4, <1>5, <2>1, UpTo
    <2> QED
      BY <2>1, <2>2
  <1>7. g[n + 1] = Changed(g[n], w[n + 1], c)
    BY <1>2, <1>3 DEF Applying
  <1>8. Applied(s, u, c) = f[n] /\ Applied(s, w, c) = g[n + 1]
    BY <1>1, <1>2, <1>3 DEF Applying, n
  <1> QED
    BY <1>3, <1>6, <1>7, <1>8 DEF w

\* A write.
LEMMA ApplyWrite ==
  ASSUME NEW s \in Data, NEW e \in Nat \X Nat, e[2] > 0, e[1] + e[2] <= BlockSize, NEW c \in Client
  PROVE  /\ Changed(s, e, c) \in Data
         /\ Len(Changed(s, e, c)) = Larger(Len(s), e[1] + e[2])
         /\ \A i \in 1 .. Larger(Len(s), e[1] + e[2]) :
               Changed(s, e, c)[i] = IF e[1] < i /\ i <= e[1] + e[2] THEN c
                                            ELSE IF i <= Len(s) THEN s[i] ELSE Zero
  <1> DEFINE off == e[1]
             end == e[1] + e[2]
             m == Larger(Len(s), end)
             f == [i \in 1 .. m |-> IF off < i /\ i <= end THEN c
                                    ELSE IF i <= Len(s) THEN s[i] ELSE Zero]
  <1>1. Changed(s, e, c) = f
    BY DEF Changed, Abstract!Apply, Abstract!Larger, Larger
  <1>2. Len(s) \in 0 .. BlockSize /\ \A i \in 1 .. Len(s) : s[i] \in Value
    BY DataLength
  <1>3. off \in Nat /\ end \in Nat /\ end <= BlockSize /\ m \in 0 .. BlockSize
    BY <1>2 DEF Larger
  <1>4. Zero \in Value /\ c \in Value
    BY DEF Value
  <1>5. f \in [1 .. m -> Value]
    <2> HIDE DEF m, off, end
    <2> QED
      BY <1>2, <1>3, <1>4
  <1>6. f \in Data /\ Len(f) = m
    <2> HIDE DEF f, m
    <2> QED
      BY <1>3, <1>5, IsData
  <1>7. \A i \in 1 .. m : f[i] = IF off < i /\ i <= end THEN c ELSE IF i <= Len(s) THEN s[i] ELSE Zero
    OBVIOUS
  <1> HIDE DEF f
  <1> QED
    BY <1>1, <1>6, <1>7

\* A cut.
LEMMA ApplyCut ==
  ASSUME NEW s, NEW i, NEW c
  PROVE  Changed(s, <<i, 0>>, c) = Resize(s, i)
  BY DEF Changed, Abstract!Apply, Abstract!Resize, Resize

\* The updates u write cells, in a block.
WritesOnly(u) ==
    u \in Updates /\ \A k \in 1 .. Len(u) : u[k][2] > 0 /\ u[k][1] + u[k][2] <= BlockSize

\* Writes make a block longer, as far as they reach.
LEMMA AppliedLength ==
  ASSUME NEW s \in Data, NEW u, WritesOnly(u), NEW c \in Client
  PROVE  LET r == Applied(s, u, c) IN
         /\ r \in Data /\ Len(s) <= Len(r)
         /\ \A k \in 1 .. Len(u) : u[k][1] + u[k][2] <= Len(r)
         /\ Len(r) = Len(s) \/ \E k \in 1 .. Len(u) : u[k][1] + u[k][2] = Len(r)
  <1> DEFINE n == Len(u)
             end(k) == u[k][1] + u[k][2]
  <1>1. PICK f : Applying(f, s, u, c)
    BY ApplyUnfolds
  <1>2. n \in Nat /\ \A k \in 1 .. n : /\ u[k] \in Nat \X Nat /\ u[k][2] > 0
                                       /\ end(k) \in Nat /\ end(k) <= BlockSize
    BY DEF WritesOnly, Updates
  <1> HIDE DEF n
  <1> DEFINE Long(k) == /\ f[k] \in Data /\ Len(s) <= Len(f[k])
                        /\ \A j \in 1 .. k : end(j) <= Len(f[k])
                        /\ Len(f[k]) = Len(s) \/ \E j \in 1 .. k : end(j) = Len(f[k])
             T == {k \in 0 .. n : Long(k)}
  <1>3. 0 \in T
    <2>1. Len(s) \in Nat /\ n \in Nat
      BY <1>2, DataLength
    <2>2. f[0] = s
      BY <1>1, Zenon DEF Applying
    <2> QED
      BY <2>1, <2>2
  <1>4. ASSUME NEW k \in Nat, k < n, k \in T PROVE k + 1 \in T
    <2> DEFINE e == u[k + 1]
               a == Len(f[k])
               z == Len(f[k + 1])
    <2>1. k + 1 \in 1 .. n /\ k + 1 \in 0 .. n
      BY <1>2, <1>4
    <2>2. e \in Nat \X Nat /\ e[2] > 0 /\ e[1] + e[2] <= BlockSize /\ end(k + 1) \in Nat
      BY <1>2, <2>1
    <2>3. f[k + 1] \in Data /\ z = Larger(a, end(k + 1))
      <3>1. f[k] \in Data /\ f[k + 1] = Changed(f[k], e, c)
        BY <1>1, <1>4 DEF Applying
      <3> HIDE DEF e
      <3>2. f[k + 1] \in Data /\ Len(f[k + 1]) = Larger(Len(f[k]), e[1] + e[2])
        BY <2>2, <3>1, ApplyWrite
      <3> QED
        BY <3>2 DEF e
    <2>4. a \in Nat /\ Len(s) \in Nat /\ Long(k)
      BY <1>4, DataLength
    <2> HIDE DEF e, a
    <2>5. z \in Nat /\ a <= z /\ end(k + 1) <= z /\ (z = a \/ z = end(k + 1))
      <3> HIDE DEF z, end
      <3> QED
        BY <2>2, <2>3, <2>4 DEF Larger
    <2>6. Len(s) <= z
      BY <2>4, <2>5 DEF a
    <2>7. \A j \in 1 .. k + 1 : end(j) <= z
      <3> TAKE j \in 1 .. k + 1
      <3>1. CASE j = k + 1
        BY <2>5, <3>1
      <3>2. CASE j # k + 1
        <4>1. j \in 1 .. k /\ end(j) \in Nat
          BY <1>2, <1>4, <3>2
        <4>2. end(j) <= a
          BY <2>4, <4>1 DEF a
        <4> HIDE DEF end, z
        <4> QED
          BY <2>4, <2>5, <4>1, <4>2
      <3> QED
        BY <3>1, <3>2
    <2>8. z = Len(s) \/ \E j \in 1 .. k + 1 : end(j) = z
      <3>1. CASE z = a
        <4>1. a = Len(s) \/ \E j \in 1 .. k : end(j) = a
          BY <2>4 DEF a
        <4> HIDE DEF end, z
        <4> QED
          BY <3>1, <4>1
      <3>2. CASE z = end(k + 1)
        BY <2>1, <3>2
      <3> QED
        BY <2>5, <3>1, <3>2
    <2>9. Long(k + 1)
      BY <2>3, <2>6, <2>7, <2>8
    <2> QED
      BY <2>1, <2>9
  <1>5. n \in T
    <2>1. n \in Nat
      BY <1>2
    <2> HIDE DEF T
    <2> QED
      BY <2>1, <1>3, <1>4, UpTo
  <1>6. Long(n)
    BY <1>5
  <1>7. Applied(s, u, c) = f[n]
    BY <1>1 DEF Applying, n
  <1> QED
    BY <1>6, <1>7 DEF n

\* A changed block has the client's value wherever the client wrote.
LEMMA AppliedCells ==
  ASSUME NEW s \in Data, NEW u, WritesOnly(u), NEW c \in Client
  PROVE  \A k \in 1 .. Len(u) : \A i \in u[k][1] + 1 .. u[k][1] + u[k][2] : Applied(s, u, c)[i] = c
  <1> DEFINE n == Len(u)
             cells(k) == u[k][1] + 1 .. u[k][1] + u[k][2]
  <1>1. PICK f : Applying(f, s, u, c)
    BY ApplyUnfolds
  <1>2. n \in Nat /\ \A k \in 1 .. n : /\ u[k] \in Nat \X Nat /\ u[k][2] > 0
                                       /\ u[k][1] + u[k][2] <= BlockSize
    BY DEF WritesOnly, Updates
  <1> HIDE DEF n
  <1> DEFINE Own(k) == /\ f[k] \in Data
                       /\ \A j \in 1 .. k : u[j][1] + u[j][2] <= Len(f[k]) /\ \A i \in cells(j) : f[k][i] = c
             T == {k \in 0 .. n : Own(k)}
  <1>3. 0 \in T
    <2>1. f[0] = s
      BY <1>1, Zenon DEF Applying
    <2> QED
      BY <1>2, <2>1
  <1>4. ASSUME NEW k \in Nat, k < n, k \in T PROVE k + 1 \in T
    <2> DEFINE e == u[k + 1]
               z == f[k + 1]
               end == e[1] + e[2]
    <2>1. k + 1 \in 1 .. n /\ k + 1 \in 0 .. n
      BY <1>2, <1>4
    <2>2. e \in Nat \X Nat /\ e[2] > 0 /\ e[1] + e[2] <= BlockSize
      BY <1>2, <2>1
    <2>3. f[k] \in Data /\ z = Changed(f[k], e, c) /\ Own(k)
      BY <1>1, <1>4 DEF Applying
    <2> HIDE DEF e, z
    <2>4. /\ z \in Data /\ Len(z) = Larger(Len(f[k]), end)
          /\ \A i \in 1 .. Larger(Len(f[k]), end) :
                z[i] = IF e[1] < i /\ i <= end THEN c ELSE IF i <= Len(f[k]) THEN f[k][i] ELSE Zero
      BY <2>2, <2>3, ApplyWrite
    <2>5. Len(f[k]) \in Nat /\ e[1] \in Nat /\ end \in Nat /\ e[1] < end
      BY <2>2, <2>3, DataLength
    <2> DEFINE a == Len(f[k])
               l == Larger(a, end)
    <2> HIDE DEF end, a
    <2>6. l \in Nat /\ a <= l /\ end <= l
      BY <2>5 DEF Larger, a
    <2>7. \A i \in 1 .. l : z[i] = IF e[1] < i /\ i <= end THEN c ELSE IF i <= a THEN f[k][i] ELSE Zero
      BY <2>4 DEF a
    <2> HIDE DEF l
    <2>8. ASSUME NEW j \in 1 .. k + 1
          PROVE  u[j][1] + u[j][2] <= l /\ \A i \in cells(j) : z[i] = c
      <3>1. u[j][1] \in Nat /\ u[j][2] \in Nat
        BY <1>2, <2>1
      <3>2. CASE j = k + 1
        <4>1. u[j][1] = e[1] /\ u[j][1] + u[j][2] = end
          BY <3>2 DEF e, end
        <4>2. \A i \in cells(j) : i \in 1 .. l /\ e[1] < i /\ i <= end
          BY <2>5, <2>6, <3>1, <4>1
        <4> HIDE DEF cells
        <4> QED
          BY <2>6, <2>7, <4>1, <4>2
      <3>3. CASE j # k + 1
        <4>1. j \in 1 .. k
          BY <1>4, <3>3
        <4>2. u[j][1] + u[j][2] <= a /\ \A i \in cells(j) : f[k][i] = c
          BY <2>3, <4>1 DEF a
        <4>3. ASSUME NEW i \in cells(j) PROVE i \in 1 .. l /\ i <= a
          <5>1. i \in u[j][1] + 1 .. u[j][1] + u[j][2] /\ u[j][1] + u[j][2] <= a /\ a \in Nat
            BY <2>5, <4>2 DEF a
          <5>2. i \in Nat /\ 1 <= i /\ i <= a
            BY <3>1, <5>1
          <5> QED
            BY <2>6, <5>1, <5>2
        <4>4. u[j][1] + u[j][2] <= l
          BY <2>5, <2>6, <3>1, <4>2 DEF a
        <4> HIDE DEF cells
        <4> QED
          BY <2>7, <4>2, <4>3, <4>4
      <3> QED
        BY <3>2, <3>3
    <2>9. Own(k + 1)
      BY <2>4, <2>8 DEF z, l, a
    <2> QED
      BY <2>1, <2>9
  <1>5. n \in T
    <2>1. n \in Nat
      BY <1>2
    <2> HIDE DEF T
    <2> QED
      BY <2>1, <1>3, <1>4, UpTo
  <1>6. Own(n)
    BY <1>5
  <1>7. Applied(s, u, c) = f[n]
    BY <1>1 DEF Applying, n
  <1> QED
    BY <1>6, <1>7 DEF n

-----------------------------------------------------------------------------
(* Cached blocks and what their updates make of the stored ones.           *)

\* The data ends where one of the updates ends.
Reached(x) == \E k \in 1 .. Len(x.updates) : x.updates[k][1] + x.updates[k][2] = Len(x.d)

\* Where the updates write, the data has the client's value.
Mine(x, c) ==
    \A k \in 1 .. Len(x.updates) : \A i \in x.updates[k][1] + 1 .. x.updates[k][1] + x.updates[k][2] :
        x.d[i] = c

LEMMA InRangeWrites ==
  ASSUME NEW x, x.d \in Data, x.updates \in Updates, InRange(x)
  PROVE  WritesOnly(x.updates)
  <1>1. Len(x.d) \in 0 .. BlockSize
    BY DataLength
  <1>2. \A k \in 1 .. Len(x.updates) : x.updates[k] \in Nat \X Nat
    BY DEF Updates
  <1> QED
    BY <1>1, <1>2 DEF InRange, WritesOnly

\* mergeDataChanges makes of a stored block what the updates make of it, if the
\* data that it takes the cells from does not end behind both.
LEMMA MergeApplied ==
  ASSUME NEW x, x.d \in Data, x.updates \in Updates, InRange(x), NEW c \in Client, Mine(x, c),
         NEW fresh \in Data, Len(x.d) <= Len(fresh) \/ Reached(x)
  PROVE  MergeDataChanges(x, fresh) = Applied(fresh, x.updates, c)
  <1> DEFINE l == Larger(Len(fresh), Len(x.d))
             u == x.updates
             d == x.d
             n == Len(u)
             end(k) == u[k][1] + u[k][2]
  <1>1. PICK f : /\ f[0] = Resize(fresh, l)
                 /\ \A k \in Nat : f[k + 1] = Redo(f[k], u[k + 1], d)
                 /\ MergeDataChanges(x, fresh) = f[n]
    BY MergeUnfolds
  <1>2. PICK g : Applying(g, fresh, u, c)
    BY ApplyUnfolds
  <1>3. /\ n \in Nat /\ Len(d) \in 0 .. BlockSize /\ Len(fresh) \in 0 .. BlockSize
        /\ l \in 0 .. BlockSize /\ Len(d) <= l /\ Len(fresh) <= l /\ (l = Len(d) \/ l = Len(fresh))
        /\ WritesOnly(u)
    <2>1. Len(d) \in 0 .. BlockSize /\ Len(fresh) \in 0 .. BlockSize
      BY DataLength
    <2>2. WritesOnly(u) /\ n \in Nat
      BY InRangeWrites DEF Updates
    <2> QED
      BY <2>1, <2>2 DEF Larger
  <1>4. \A k \in 1 .. n : /\ u[k] \in Nat \X Nat /\ u[k][2] > 0 /\ end(k) <= Len(d) /\ end(k) <= BlockSize
                          /\ \A i \in u[k][1] + 1 .. end(k) : d[i] = c
    BY <1>3 DEF WritesOnly, Updates, InRange, Mine
  <1>5. Len(d) <= Len(fresh) \/ \E k \in 1 .. n : end(k) = Len(d)
    BY DEF Reached
  <1> HIDE DEF l, u, d, n
  <1> DEFINE Same(k) == /\ g[k] \in Data /\ Len(g[k]) <= l
                        /\ f[k] = Resize(g[k], l)
             T == {k \in 0 .. n : Same(k)}
  <1>6. 0 \in T
    <2>1. g[0] = fresh
      BY <1>2, Zenon DEF Applying
    <2>2. f[0] = Resize(fresh, l)
      BY <1>1, Zenon
    <2> QED
      BY <1>3, <2>1, <2>2
  <1>7. ASSUME NEW k \in Nat, k < n, k \in T PROVE k + 1 \in T
    <2> DEFINE e == u[k + 1]
               off == e[1]
               z == e[1] + e[2]
               a == Len(g[k])
               y == g[k + 1]
    <2>1. k + 1 \in 1 .. n /\ k + 1 \in 0 .. n /\ Same(k)
      BY <1>3, <1>7
    <2>2. /\ e \in Nat \X Nat /\ e[2] > 0 /\ z <= Len(d) /\ z <= BlockSize
          /\ \A i \in off + 1 .. z : d[i] = c
      BY <1>4, <2>1
    <2>3. y = Changed(g[k], e, c)
      BY <1>2, <1>7 DEF Applying
    <2>4. f[k + 1] = Redo(f[k], e, d)
      BY <1>1, <1>7
    <2> HIDE DEF e, y
    <2>5. /\ y \in Data /\ Len(y) = Larger(a, z)
          /\ \A i \in 1 .. Larger(a, z) :
                y[i] = IF off < i /\ i <= z THEN c ELSE IF i <= a THEN g[k][i] ELSE Zero
      <3>1. g[k] \in Data
        BY <2>1
      <3> HIDE DEF Same, T
      <3> QED
        BY <2>2, <2>3, <3>1, ApplyWrite
    <2>6. a \in Nat /\ off \in Nat /\ z \in Nat /\ off < z
      BY <2>1, <2>2, DataLength
    <2>7. f[k + 1] = Replace(Resize(g[k], l), off, e[2], d)
      BY <2>1, <2>2, <2>4 DEF Redo
    <2> DEFINE r == Resize(g[k], l)
    <2>8. Len(r) = l /\ \A i \in 1 .. l : r[i] = IF i <= a THEN g[k][i] ELSE Zero
      <3>1. Len(r) = l
        BY <1>3, <2>1, ResizeCells
      <3> QED
        BY <1>3, <3>1 DEF Resize
    <2>9. f[k + 1] = [i \in 1 .. l |-> IF off < i /\ i <= z THEN d[i] ELSE r[i]]
      BY <2>7, <2>8 DEF Replace
    <2>10. Resize(y, l) = [i \in 1 .. l |-> IF i <= Len(y) THEN y[i] ELSE Zero]
      BY DEF Resize
    <2> HIDE DEF r, a, z, off
    <2>11. Len(y) \in Nat /\ a <= Len(y) /\ z <= Len(y) /\ Len(y) <= l
      BY <1>3, <2>1, <2>2, <2>5, <2>6 DEF Larger, a
    <2>12. \A i \in 1 .. Len(y) : y[i] = IF off < i /\ i <= z THEN c ELSE IF i <= a THEN g[k][i] ELSE Zero
      BY <2>5
    <2>13. ASSUME NEW i \in 1 .. l
           PROVE  (IF off < i /\ i <= z THEN d[i] ELSE r[i]) = IF i <= Len(y) THEN y[i] ELSE Zero
      <3>1. CASE off < i /\ i <= z
        <4>1. i \in off + 1 .. z /\ i \in 1 .. Len(y)
          BY <1>3, <2>6, <2>11, <3>1
        <4> QED
          BY <2>2, <2>12, <3>1, <4>1
      <3>2. CASE ~(off < i /\ i <= z)
        <4>1. r[i] = IF i <= a THEN g[k][i] ELSE Zero
          BY <2>8
        <4>2. CASE i <= Len(y)
          <5>1. i \in 1 .. Len(y)
            BY <1>3, <2>11, <4>2
          <5> QED
            BY <2>12, <3>2, <4>1, <4>2, <5>1
        <4>3. CASE ~(i <= Len(y))
          <5>1. ~(i <= a)
            BY <1>3, <2>6, <2>11, <4>3
          <5> QED
            BY <3>2, <4>1, <4>3, <5>1
        <4> QED
          BY <4>2, <4>3
      <3> QED
        BY <3>1, <3>2
    <2>14. f[k + 1] = Resize(y, l)
      BY <2>9, <2>10, <2>13
    <2>15. Same(k + 1)
      BY <2>5, <2>11, <2>14 DEF y
    <2> QED
      BY <2>1, <2>15
  <1>8. n \in T
    <2>1. n \in Nat
      BY <1>3
    <2> HIDE DEF T
    <2>2. \A k \in Nat : k < n /\ k \in T => k + 1 \in T
      BY <1>7
    <2>3. \A k \in 0 .. n : k \in T
      BY <1>6, <2>1, <2>2, UpTo
    <2> QED
      BY <2>1, <2>3
  <1>9. Applied(fresh, u, c) = g[n] /\ Same(n)
    BY <1>2, <1>8 DEF Applying, n
  <1>10. Len(g[n]) = l
    <2>1. /\ Len(fresh) <= Len(g[n])
          /\ \A k \in 1 .. n : end(k) <= Len(g[n])
      BY <1>3, <1>9, AppliedLength DEF n
    <2>2. Len(g[n]) \in Nat
      BY <1>9, DataLength
    <2>3. Len(d) <= Len(g[n])
      <3>1. CASE Len(d) <= Len(fresh)
        BY <1>3, <2>1, <2>2, <3>1
      <3>2. CASE \E k \in 1 .. n : end(k) = Len(d)
        BY <2>1, <3>2
      <3> QED
        BY <1>5, <3>1, <3>2
    <2> QED
      BY <1>3, <1>9, <2>1, <2>2, <2>3
  <1>11. Resize(g[n], l) = g[n]
    <2>1. DOMAIN g[n] = 1 .. l /\ \A i \in 1 .. l : i <= Len(g[n])
      BY <1>3, <1>9, <1>10, DataLength
    <2>2. g[n] = [i \in 1 .. l |-> g[n][i]]
      BY <1>9, <2>1, DataLength DEF Data
    <2> QED
      BY <2>1, <2>2 DEF Resize
  <1> QED
    BY <1>1, <1>9, <1>11 DEF u

LEMMA CutApplied ==
  ASSUME NEW s, NEW i, NEW c
  PROVE  Applied(s, <<<<i, 0>>>>, c) = Resize(s, i)
  <1> DEFINE u == <<<<i, 0>>>>
  <1>1. PICK f : Applying(f, s, u, c)
    BY ApplyUnfolds
  <1>2. Len(u) = 1 /\ u[0 + 1] = <<i, 0>>
    OBVIOUS
  <1> HIDE DEF u
  <1>3. f[0] = s /\ f[0 + 1] = Changed(f[0], u[0 + 1], c) /\ Applied(s, u, c) = f[Len(u)]
    BY <1>1 DEF Applying
  <1>4. Applied(s, u, c) = Changed(s, <<i, 0>>, c)
    BY <1>2, <1>3
  <1> QED
    BY <1>4, ApplyCut DEF u

\* A block that was cut is cut again by the merge.
LEMMA CutMerged ==
  ASSUME NEW x, x.d \in Data, NEW i \in 0 .. BlockSize, x.updates = <<<<i, 0>>>>, Len(x.d) = i,
         NEW fresh \in Data, NEW c
  PROVE  MergeDataChanges(x, fresh) = Applied(fresh, x.updates, c)
  <1> DEFINE n == Larger(Len(fresh), Len(x.d))
             u == x.updates
             d == x.d
  <1>1. n \in 0 .. BlockSize /\ i <= n
    BY DataLength DEF Larger
  <1>2. PICK f : /\ f[0] = Resize(fresh, n)
                 /\ \A k \in Nat : f[k + 1] = Redo(f[k], u[k + 1], d)
                 /\ MergeDataChanges(x, fresh) = f[Len(u)]
    BY MergeUnfolds
  <1>3. Len(u) = 1 /\ u[0 + 1][1] = i /\ u[0 + 1][2] = 0
    OBVIOUS
  <1>4. Applied(fresh, u, c) = Resize(fresh, i)
    BY CutApplied
  <1> HIDE DEF n, u, d
  <1>5. f[0 + 1] = Redo(f[0], u[0 + 1], d)
    BY <1>2
  <1>6. Redo(f[0], u[0 + 1], d) = Resize(f[0], i)
    BY <1>3 DEF Redo
  <1>7. MergeDataChanges(x, fresh) = Resize(Resize(fresh, n), i)
    BY <1>2, <1>3, <1>5, <1>6
  <1>8. Len(Resize(fresh, n)) = n
    BY <1>1, ResizeCells
  <1> DEFINE r == Resize(fresh, n)
  <1>9. \A k \in 1 .. i : r[k] = IF k <= Len(fresh) THEN fresh[k] ELSE Zero
    BY <1>1 DEF Resize
  <1> HIDE DEF r
  <1>10. \A k \in 1 .. i : k <= n
    BY <1>1
  <1>11. Resize(r, i) = Resize(fresh, i)
    BY <1>8, <1>9, <1>10 DEF Resize, r
  <1> QED
    BY <1>4, <1>7, <1>11 DEF r, u

\* A cached block is what the updates make of the stored block that it was read
\* from, while that is still stored, or of nothing when it was never read.  Its
\* data is not longer than what is stored, but for the updates.
CopyOf(c, x, s) == x.version = s.version => x.d = Applied(s.d, x.updates, c)
FromNothing(c, x) == x.version = 0 => x.d = Applied(<<>>, x.updates, c)
Fits(x, s) == x.version # 0 /\ s.version # 0 => Len(x.d) <= Len(s.d) \/ Reached(x)
Faithful(c, x, s) ==
    /\ CopyOf(c, x, s) /\ FromNothing(c, x) /\ Fits(x, s) /\ Mine(x, c)
    /\ x.cached \/ x = NoBlock

LEMMA NoBlockFaithful ==
  ASSUME NEW s, s.version = 0 => s.d = <<>>, NEW c
  PROVE  Faithful(c, NoBlock, s) /\ Faithful(c, EmptyBlock, s)
  <1>1. /\ NoBlock.version = 0 /\ NoBlock.d = <<>> /\ NoBlock.updates = <<>>
        /\ EmptyBlock.version = 0 /\ EmptyBlock.d = <<>> /\ EmptyBlock.updates = <<>>
        /\ EmptyBlock.cached
    BY DEF NoBlock, EmptyBlock
  <1> QED
    BY <1>1, NothingApplied DEF Faithful, CopyOf, FromNothing, Fits, Mine

\* A block without updates, as it was stored when it was read or stored last.
LEMMA StoredFaithful ==
  ASSUME NEW y, y.updates = <<>>, y.cached, NEW s, NEW c,
         y.version = s.version => y.d = s.d, y.version = 0 => y.d = <<>>,
         Len(y.d) <= Len(s.d)
  PROVE  Faithful(c, y, s)
  BY NothingApplied DEF Faithful, CopyOf, FromNothing, Fits, Mine

\* A write.
LEMMA WriteFaithful ==
  ASSUME NEW x, IsBlock(x), x.cached, GoodBlock(x), NEW c \in Client, NEW s, s.d \in Data,
         Faithful(c, x, s),
         NEW off \in Nat, NEW n \in Nat \ {0}, off + n <= BlockSize
  PROVE  Faithful(c, UpdateData(x, off, n, c), s)
  <1> DEFINE e == UpdateData(x, off, n, c)
             w == <<off, n>>
             m == Larger(Len(x.d), off + n)
  <1>1. x.d \in Data /\ x.updates \in Updates /\ InRange(x) /\ Len(x.d) \in Nat
    BY DataLength DEF GoodBlock, IsBlock
  <1>2. w \in Nat \X Nat /\ w[1] = off /\ w[2] = n
    OBVIOUS
  <1>3. /\ e.updates = Append(x.updates, w) /\ e.version = x.version /\ e.cached
        /\ e.d = [i \in 1 .. m |-> IF off < i /\ i <= off + n THEN c
                                   ELSE IF i <= Len(x.d) THEN x.d[i] ELSE Zero]
    BY DEF UpdateData, IsBlock
  <1>4. e.d = Changed(x.d, w, c)
    BY <1>3 DEF Changed, Abstract!Apply, Abstract!Larger, Larger
  <1> HIDE DEF e, w
  <1>5. /\ Len(e.d) = m
        /\ \A i \in 1 .. m : e.d[i] = IF off < i /\ i <= off + n THEN c
                                      ELSE IF i <= Len(x.d) THEN x.d[i] ELSE Zero
    <2>1. w \in Nat \X Nat /\ w[2] > 0 /\ w[1] + w[2] <= BlockSize /\ x.d \in Data
      BY <1>1, <1>2
    <2>2. /\ Len(e.d) = Larger(Len(x.d), w[1] + w[2])
          /\ \A i \in 1 .. Larger(Len(x.d), w[1] + w[2]) :
                e.d[i] = IF w[1] < i /\ i <= w[1] + w[2] THEN c
                         ELSE IF i <= Len(x.d) THEN x.d[i] ELSE Zero
      BY <1>4, <2>1, ApplyWrite
    <2> QED
      BY <1>2, <2>2
  <1>6. m \in Nat /\ Len(x.d) <= m /\ off + n <= m /\ (m = Len(x.d) \/ m = off + n)
    BY <1>1 DEF Larger
  <1> HIDE DEF m
  <1>7. \A t : Applied(t, e.updates, c) = Changed(Applied(t, x.updates, c), w, c)
    BY <1>1, <1>2, <1>3, OneMoreApplied
  <1>8. CopyOf(c, e, s) /\ FromNothing(c, e)
    BY <1>3, <1>4, <1>7 DEF CopyOf, FromNothing, Faithful
  <1>9. /\ Len(e.updates) = Len(x.updates) + 1 /\ Len(x.updates) \in Nat
        /\ \A k \in 1 .. Len(x.updates) : e.updates[k] = x.updates[k] /\ x.updates[k] \in Nat \X Nat
        /\ e.updates[Len(x.updates) + 1] = w
    BY <1>1, <1>2, <1>3 DEF Updates
  <1>10. Fits(e, s)
    <2>1. CASE m = off + n
      <3>1. Reached(e)
        <4> DEFINE k == Len(x.updates) + 1
        <4>1. k \in 1 .. Len(e.updates) /\ e.updates[k] = w
          BY <1>9
        <4> HIDE DEF k
        <4>2. e.updates[k][1] + e.updates[k][2] = Len(e.d)
          BY <1>2, <1>5, <2>1, <4>1
        <4> QED
          BY <4>1, <4>2 DEF Reached
      <3> QED
        BY <3>1 DEF Fits
    <2>2. CASE m = Len(x.d)
      <3>1. Reached(x) => Reached(e)
        <4> SUFFICES ASSUME NEW k \in 1 .. Len(x.updates), x.updates[k][1] + x.updates[k][2] = Len(x.d)
                     PROVE  Reached(e)
          BY DEF Reached
        <4>1. k \in 1 .. Len(e.updates) /\ e.updates[k] = x.updates[k]
          BY <1>9
        <4> QED
          BY <1>5, <2>2, <4>1 DEF Reached
      <3> QED
        BY <1>3, <1>5, <2>2, <3>1 DEF Fits, Faithful
    <2> QED
      BY <1>6, <2>1, <2>2
  <1>11. Mine(e, c)
    <2> SUFFICES ASSUME NEW k \in 1 .. Len(e.updates),
                        NEW i \in e.updates[k][1] + 1 .. e.updates[k][1] + e.updates[k][2]
                 PROVE  e.d[i] = c
      BY DEF Mine
    <2>1. CASE k = Len(x.updates) + 1
      <3>1. i \in off + 1 .. off + n
        BY <1>2, <1>9, <2>1
      <3>2. i \in 1 .. m /\ off < i /\ i <= off + n
        BY <1>6, <3>1
      <3> QED
        BY <1>5, <3>2
    <2>2. CASE k # Len(x.updates) + 1
      <3>1. k \in 1 .. Len(x.updates)
        BY <1>9, <2>2
      <3>2. i \in x.updates[k][1] + 1 .. x.updates[k][1] + x.updates[k][2] /\ x.updates[k] \in Nat \X Nat
        BY <1>9, <3>1
      <3>3. x.updates[k][1] + x.updates[k][2] <= Len(x.d)
        BY <1>1, <3>1 DEF InRange
      <3>4. i \in 1 .. Len(x.d)
        BY <1>1, <3>2, <3>3
      <3>5. i \in 1 .. m /\ i <= Len(x.d)
        BY <1>1, <1>6, <3>4
      <3>6. x.d[i] = c
        BY <3>1, <3>2 DEF Faithful, Mine
      <3> QED
        BY <1>5, <3>5, <3>6
    <2> QED
      BY <2>1, <2>2
  <1>12. e.cached
    BY <1>3
  <1> QED
    BY <1>8, <1>10, <1>11, <1>12 DEF Faithful, e

\* A merge.
LEMMA MergeFaithful ==
  ASSUME NEW x, IsBlock(x), x.cached, GoodBlock(x), NEW c \in Client,
         NEW s, s.d \in Data, s.version # 0, FromNothing(c, x), Fits(x, s), Mine(x, c),
         NEW y, y.updates = x.updates, y.cached, y.version = s.version,
         y.d = MergeDataChanges(x, s.d)
  PROVE  y.d = Applied(s.d, x.updates, c) /\ Faithful(c, y, s)
  <1>1. x.d \in Data /\ x.updates \in Updates /\ InRange(x)
    BY DEF GoodBlock, IsBlock
  <1>2. WritesOnly(x.updates)
    BY <1>1, InRangeWrites
  <1>3. Len(x.d) <= Len(s.d) \/ Reached(x)
    <2>1. CASE x.version # 0
      BY <2>1 DEF Fits
    <2>2. CASE x.version = 0
      <3>1. x.d = Applied(<<>>, x.updates, c)
        BY <2>2 DEF FromNothing
      <3>2. Len(x.d) = 0 \/ Reached(x)
        <4> HIDE DEF Faithful
        <4>1. Len(x.d) = Len(<<>>) \/ \E k \in 1 .. Len(x.updates) : x.updates[k][1] + x.updates[k][2] = Len(x.d)
          BY <1>2, <3>1, AppliedLength, EmptyData
        <4> QED
          BY <4>1, EmptyData DEF Reached
      <3> QED
        BY <3>2, DataLength
    <2> QED
      BY <2>1, <2>2
  <1>4. y.d = Applied(s.d, x.updates, c)
    BY <1>1, <1>3, MergeApplied
  <1>5. Mine(y, c)
    BY <1>2, <1>4, AppliedCells DEF Mine
  <1>6. Len(y.d) = Len(s.d) \/ Reached(y)
    BY <1>2, <1>4, AppliedLength DEF Reached
  <1>7. Fits(y, s)
    BY <1>6, DataLength DEF Fits
  <1> QED
    BY <1>4, <1>5, <1>7 DEF Faithful, CopyOf, FromNothing

\* A block that is cut.
LEMMA CutFaithful ==
  ASSUME NEW x, x.updates = <<>>, NEW c, NEW s, Faithful(c, x, s),
         NEW i, NEW y, y.updates = <<<<i, 0>>>>, y.d = Resize(x.d, i), y.version = x.version
  PROVE  CopyOf(c, y, s) /\ FromNothing(c, y)
  <1>1. /\ x.version = s.version => x.d = s.d
        /\ x.version = 0 => x.d = <<>>
    BY NothingApplied DEF Faithful, CopyOf, FromNothing
  <1>2. \A t : Applied(t, y.updates, c) = Resize(t, i)
    BY CutApplied
  <1> QED
    BY <1>1, <1>2 DEF CopyOf, FromNothing

-----------------------------------------------------------------------------
(* The invariant of the refinement.                                        *)

\* put_data has stored the block, the updates are not yet forgotten.
InFlight(c, b) == pc[c] = "stored" /\ b = current[c]

KeysRef ==
    \A b \in Block : blocks[b].version <= versions /\ (blocks[b].version = 0 => blocks[b].d = <<>>)

\* The cached blocks, except for what a truncate has cut.
BlockRef(c, b) ==
    /\ di[c][b].version <= versions
    /\ ~InFlight(c, b) => CopyOf(c, di[c][b], blocks[b])
    /\ FromNothing(c, di[c][b])
    /\ ~CutBlock(c, b) => Fits(di[c][b], blocks[b]) /\ Mine(di[c][b], c)
    /\ di[c][b].cached \/ di[c][b] = NoBlock

\* What the answer of the Put makes of the block is what is stored, if it still is.
AnswerRef(c) ==
    pc[c] = "stored" =>
        /\ sent[c] # 0 /\ blocks[current[c]].version # 0
        /\ blocks[current[c]].version = sent[c] => blocks[current[c]].d = di[c][current[c]].d
        /\ Len(di[c][current[c]].d) <= Len(blocks[current[c]].d)

\* The block that is flushed does not leave the cache.
HeldRef(c) == pc[c] \in Flushing => di[c][current[c]].cached

\* The others do not have the block that a truncate cuts.
AloneRef(c) ==
    Truncating(c) =>
        \A x \in Client \ {c} : pc[x] = "idle" /\ ~di[x][BlockOf(req[c].off)].cached
CutAt(c) == Cutting(c) /\ pc[c] # "delete" => current[c] = BlockOf(req[c].off)

ClientRef(c) ==
    /\ sent[c] <= versions /\ \A b \in Block : BlockRef(c, b)
    /\ AnswerRef(c) /\ HeldRef(c) /\ AloneRef(c) /\ CutAt(c)

RefInv == KeysRef /\ \A c \in Client : ClientRef(c)

LEMMA FaithfulNow ==
  ASSUME RefInv, NEW c \in Client, NEW b \in Block, ~InFlight(c, b), ~CutBlock(c, b)
  PROVE  Faithful(c, di[c][b], blocks[b]) /\ di[c][b].version <= versions
  BY DEF RefInv, ClientRef, BlockRef, Faithful

LEMMA NoOtherTruncates ==
  ASSUME RefInv, NEW c \in Client, pc[c] # "idle"
  PROVE  \A x \in Client : x # c => ~Truncating(x)
  BY DEF RefInv, ClientRef, AloneRef

LEMMA AloneSame ==
  ASSUME RefInv, NEW c \in Client, Only(c), Truncating(c)' => Truncating(c) /\ req'[c].off = req[c].off
  PROVE  AloneRef(c)'
  <1> SUFFICES ASSUME Truncating(c)', NEW x \in Client, x # c
               PROVE  pc'[x] = "idle" /\ ~di'[x][BlockOf(req'[c].off)].cached
    BY DEF AloneRef
  <1>1. pc[x] = "idle" /\ ~di[x][BlockOf(req[c].off)].cached
    BY DEF RefInv, ClientRef, AloneRef
  <1> QED
    BY <1>1 DEF Only

\* What a step makes of a block: nothing, or a block that agrees with what is stored.
BlockStep(c, b) ==
    \/ di'[c][b] = di[c][b] /\ ~InFlight(c, b) /\ ~CutBlock(c, b)
    \/ Faithful(c, di'[c][b], blocks[b]) /\ di'[c][b].version <= versions
    \/ BlockRef(c, b)'

\* The other clients.
LEMMA OthersRef ==
  ASSUME RefInv, NEW c \in Client, Only(c), UNCHANGED <<blocks, sent>>,
         versions \in Nat, versions' \in Nat, versions <= versions', KeysOK, CellsInv,
         NEW x \in Client, x # c,
         ~Truncating(x) \/ (pc'[c] = "idle" /\ \A b \in Block : di'[c][b].cached => di[c][b].cached),
         FileInv
  PROVE  ClientRef(x)'
  <1>1. /\ di'[x] = di[x] /\ pc'[x] = pc[x] /\ ret'[x] = ret[x]
        /\ req'[x] = req[x] /\ current'[x] = current[x]
    BY DEF Only
  <1>2. ClientRef(x)
    BY DEF RefInv
  <1>3. \A b \in Block : (CutBlock(x, b)' <=> CutBlock(x, b)) /\ (InFlight(x, b)' <=> InFlight(x, b))
    BY <1>1 DEF CutBlock, InFlight
  <1>4. sent'[x] <= versions'
    <2>1. sent[x] \in Nat /\ sent[x] <= versions
      BY <1>2 DEF KeysOK, ClientRef
    <2> QED
      BY <2>1
  <1>5. ASSUME NEW b \in Block PROVE BlockRef(x, b)'
    <2>1. BlockRef(x, b) /\ di[x][b].version \in Nat
      BY <1>2 DEF ClientRef, CellsInv, CellsOK, GoodBlock, CutTo
    <2>2. di[x][b].version <= versions'
      BY <2>1 DEF BlockRef
    <2> QED
      BY <1>1, <1>3, <2>1, <2>2 DEF BlockRef
  <1>6. AnswerRef(x)' /\ HeldRef(x)' /\ CutAt(x)'
    BY <1>1, <1>2 DEF ClientRef, AnswerRef, HeldRef, CutAt, Cutting
  <1>7. AloneRef(x)'
    <2> SUFFICES ASSUME Truncating(x), NEW y \in Client, y # x
                 PROVE  pc'[y] = "idle" /\ ~di'[y][BlockOf(req[x].off)].cached
      BY <1>1 DEF AloneRef, Truncating
    <2>1. pc[y] = "idle" /\ ~di[y][BlockOf(req[x].off)].cached
      BY <1>2 DEF ClientRef, AloneRef
    <2>2. CASE y = c
      <3>1. BlockOf(req[x].off) \in Block
        BY Blocks DEF FileInv, Shape, Requests
      <3> QED
        BY <2>1, <2>2, <3>1
    <2>3. CASE y # c
      BY <2>1, <2>3 DEF Only
    <2> QED
      BY <2>2, <2>3
  <1> QED
    BY <1>4, <1>5, <1>6, <1>7 DEF ClientRef

LEMMA RefAway ==
  ASSUME FileInv, CellsInv, RefInv, NEW c \in Client, CellsStep(c), UNCHANGED <<blocks, sent>>,
         versions <= versions', pc'[c] # "stored",
         \A b \in Block : BlockStep(c, b),
         HeldRef(c)', AloneRef(c)', CutAt(c)',
         \/ pc[c] # "idle" \/ \A x \in Client : x # c => ~Truncating(x)
         \/ pc'[c] = "idle" /\ \A b \in Block : di'[c][b].cached => di[c][b].cached
  PROVE  RefInv'
  <1>1. KeysOK /\ KeysOK' /\ Only(c)
    BY DEF CellsInv, CellsStep
  <1>2. versions \in Nat /\ versions' \in Nat /\ sent[c] \in Nat
    BY <1>1 DEF KeysOK
  <1>3. ASSUME NEW x \in Client, x # c PROVE ClientRef(x)'
    <2>1. \/ ~Truncating(x)
          \/ pc'[c] = "idle" /\ \A b \in Block : di'[c][b].cached => di[c][b].cached
      BY <1>3, NoOtherTruncates
    <2> QED
      BY <1>1, <1>2, <1>3, <2>1, OthersRef
  <1>4. ASSUME NEW b \in Block PROVE BlockRef(c, b)'
    <2>1. CASE Faithful(c, di'[c][b], blocks[b]) /\ di'[c][b].version <= versions
      <3>1. di'[c][b].version \in Nat
        BY DEF CellsStep, CellsOK, GoodBlock, CutTo
      <3>2. di'[c][b].version <= versions'
        BY <1>2, <2>1, <3>1
      <3> QED
        BY <2>1, <3>2 DEF Faithful, BlockRef
    <2>2. CASE di'[c][b] = di[c][b] /\ ~InFlight(c, b) /\ ~CutBlock(c, b)
      BY <2>1, <2>2, FaithfulNow
    <2> QED
      BY <2>1, <2>2 DEF BlockStep
  <1>5. sent'[c] <= versions'
    BY <1>2 DEF RefInv, ClientRef
  <1>6. ClientRef(c)'
    BY <1>4, <1>5 DEF ClientRef, AnswerRef
  <1>7. KeysRef'
    <2> SUFFICES ASSUME NEW b \in Block
                 PROVE  blocks[b].version <= versions' /\ (blocks[b].version = 0 => blocks[b].d = <<>>)
      BY DEF KeysRef
    <2>1. blocks[b].version <= versions /\ blocks[b].version \in Nat
      BY <1>1 DEF RefInv, KeysRef, KeysOK
    <2> QED
      BY <1>2, <2>1 DEF RefInv, KeysRef
  <1> QED
    BY <1>3, <1>6, <1>7 DEF RefInv

-----------------------------------------------------------------------------
(* Steps of SharedFile.                                                    *)

Shown(c, b) == IF InFlight(c, b) THEN <<>> ELSE di[c][b].updates
Content == [b \in Block |-> blocks[b].d]
Shared == Abstract!Next \/ UNCHANGED <<Content, Pending>>

LEMMA PendingShown == Pending = [c \in Client |-> [b \in Block |-> Shown(c, b)]]
  BY DEF Pending, Shown, InFlight

LEMMA PendingShownNext == Pending' = [c \in Client |-> [b \in Block |-> Shown(c, b)']]
  BY DEF Pending, Shown, InFlight

\* What a step of client c shows of its own blocks, and of no others.
LEMMA OnlyShown ==
  ASSUME NEW c \in Client, Only(c), NEW p, DOMAIN p = Block, \A b \in Block : p[b] = Shown(c, b)',
         p = [b \in Block |-> p[b]]
  PROVE  Pending' = [Pending EXCEPT ![c] = p]
  <1>1. ASSUME NEW x \in Client, x # c PROVE [b \in Block |-> Shown(x, b)'] = [b \in Block |-> Shown(x, b)]
    BY <1>1 DEF Only, Shown, InFlight
  <1>2. [b \in Block |-> Shown(c, b)'] = p
    OBVIOUS
  <1> DEFINE f == [x \in Client |-> [b \in Block |-> Shown(x, b)']]
             g == [x \in Client |-> [b \in Block |-> Shown(x, b)]]
  <1>3. f = [x \in Client |-> IF x = c THEN p ELSE g[x]]
    <2>1. ASSUME NEW x \in Client PROVE [b \in Block |-> Shown(x, b)'] = IF x = c THEN p ELSE g[x]
      BY <1>1, <1>2
    <2> HIDE DEF g
    <2> QED
      BY <2>1
  <1>4. f = [g EXCEPT ![c] = p]
    <2>1. DOMAIN g = Client /\ g = [x \in Client |-> g[x]]
      OBVIOUS
    <2> HIDE DEF f, g
    <2> QED
      BY <1>3, <2>1
  <1> QED
    BY <1>4, PendingShown, PendingShownNext

LEMMA OneShown ==
  ASSUME NEW c \in Client, Only(c), NEW b \in Block, NEW u, Shown(c, b)' = u,
         \A k \in Block : k # b => Shown(c, k)' = Shown(c, k)
  PROVE  Pending' = [Pending EXCEPT ![c][b] = u] /\ Pending[c][b] = Shown(c, b)
  <1> DEFINE g == [k \in Block |-> Shown(c, k)]
             p == [g EXCEPT ![b] = u]
  <1>1. DOMAIN p = Block /\ (\A k \in Block : p[k] = Shown(c, k)') /\ p = [k \in Block |-> p[k]]
    OBVIOUS
  <1> HIDE DEF p
  <1>2. Pending' = [Pending EXCEPT ![c] = p]
    BY <1>1, OnlyShown
  <1>3. Pending[c] = g /\ Pending[c][b] = Shown(c, b)
    BY PendingShown
  <1> QED
    BY <1>2, <1>3 DEF p

LEMMA SharedSame ==
  ASSUME NEW c \in Client, Only(c), \A b \in Block : blocks'[b].d = blocks[b].d,
         \A b \in Block : Shown(c, b)' = Shown(c, b)
  PROVE  Shared
  <1>1. Content' = Content
    BY DEF Content
  <1> DEFINE p == [k \in Block |-> Shown(c, k)]
  <1>2. DOMAIN p = Block /\ (\A k \in Block : p[k] = Shown(c, k)') /\ p = [k \in Block |-> p[k]]
        /\ Pending[c] = p
    BY PendingShown
  <1> HIDE DEF p
  <1>3. Pending' = [Pending EXCEPT ![c] = p]
    BY <1>2, OnlyShown
  <1>4. Pending' = Pending
    BY <1>2, <1>3, PendingShown
  <1> QED
    BY <1>1, <1>4 DEF Shared

LEMMA SharedChange ==
  ASSUME NEW c \in Client, Only(c), \A b \in Block : blocks'[b].d = blocks[b].d,
         NEW b \in Block, NEW u \in Update, Shown(c, b)' = Append(Shown(c, b), u),
         \A k \in Block : k # b => Shown(c, k)' = Shown(c, k)
  PROVE  Shared
  <1>1. Content' = Content
    BY DEF Content
  <1>2. Pending' = [Pending EXCEPT ![c][b] = Append(@, u)]
    BY OneShown
  <1>3. Abstract!Change(c, b)
    BY <1>1, <1>2 DEF Abstract!Change, Content
  <1> QED
    BY <1>3 DEF Shared, Abstract!Next

LEMMA SharedWithdraw ==
  ASSUME NEW c \in Client, Only(c), \A b \in Block : blocks'[b].d = blocks[b].d,
         NEW b \in Block, Shown(c, b)' = <<>>, c \in Appenders,
         \A k \in Block : k # b => Shown(c, k)' = Shown(c, k)
  PROVE  Shared
  <1>1. Content' = Content
    BY DEF Content
  <1>2. Pending' = [Pending EXCEPT ![c][b] = <<>>]
    BY OneShown
  <1>3. Abstract!Withdraw(c, b)
    BY <1>1, <1>2 DEF Abstract!Withdraw, Content
  <1> QED
    BY <1>3 DEF Shared, Abstract!Next

LEMMA SharedFlush ==
  ASSUME NEW c \in Client, Only(c), NEW b \in Block,
         blocks'[b].d = Applied(blocks[b].d, Shown(c, b), c),
         \A k \in Block : k # b => blocks'[k].d = blocks[k].d,
         Shown(c, b)' = <<>>,
         \A k \in Block : k # b => Shown(c, k)' = Shown(c, k)
  PROVE  Shared
  <1>1. Content' = [Content EXCEPT ![b] = Applied(@, Shown(c, b), c)]
    BY DEF Content
  <1>2. Pending' = [Pending EXCEPT ![c][b] = <<>>] /\ Pending[c][b] = Shown(c, b)
    BY OneShown
  <1>3. Abstract!Flush(c, b)
    BY <1>1, <1>2 DEF Abstract!Flush, Content, Applied
  <1> QED
    BY <1>3 DEF Shared, Abstract!Next

LEMMA SharedDelete ==
  ASSUME NEW c \in Client, Only(c), NEW b \in Block, blocks'[b].d = <<>>,
         \A k \in Block : k # b => blocks'[k].d = blocks[k].d,
         Shown(c, b)' = <<>>,
         \A k \in Block : k # b => Shown(c, k)' = Shown(c, k)
  PROVE  Shared
  <1>1. Content' = [Content EXCEPT ![b] = <<>>]
    BY DEF Content
  <1>2. Pending' = [Pending EXCEPT ![c][b] = <<>>]
    BY OneShown
  <1>3. Abstract!Delete(c, b)
    BY <1>1, <1>2 DEF Abstract!Delete, Content
  <1> QED
    BY <1>3 DEF Shared, Abstract!Next

LEMMA SharedCrash ==
  ASSUME NEW c \in Client, Only(c), \A b \in Block : blocks'[b].d = blocks[b].d,
         \A b \in Block : Shown(c, b)' = <<>>
  PROVE  Shared
  <1>1. Content' = Content
    BY DEF Content
  <1> DEFINE p == [k \in Block |-> <<>>]
  <1>2. DOMAIN p = Block /\ (\A k \in Block : p[k] = Shown(c, k)') /\ p = [k \in Block |-> p[k]]
    OBVIOUS
  <1> HIDE DEF p
  <1>3. Pending' = [Pending EXCEPT ![c] = p]
    BY <1>2, OnlyShown
  <1>4. Abstract!Crash(c)
    BY <1>1, <1>3 DEF Abstract!Crash, Content, p
  <1> QED
    BY <1>4 DEF Shared, Abstract!Next

-----------------------------------------------------------------------------
(* What each step shows.  Requests begin, read and write.                  *)

RefStep == RefInv' /\ Shared

LEMMA RefBegin ==
  ASSUME WholeTruncates, FileInv, CellsInv, RefInv, NEW c \in Client, NEW op, NEW off \in Offset,
         NEW n, NEW a \in BOOLEAN, Begin(c, op, off, n, a), NEW l \in {"block", "fsync"}, Goto(c, l), CellsStep(c),
         op = "truncate" => \A x \in Client \ {c} : Unaffected(x, off)
  PROVE  RefStep
  <1>1. /\ pc[c] = "idle" /\ UNCHANGED <<blocks, versions, sent, di>>
        /\ req' = [req EXCEPT ![c] = [op |-> op, off |-> off, len |-> n, append |-> a]]
    BY DEF Begin, store
  <1>2. pc'[c] = l /\ req'[c].op = op /\ req'[c].off = off
    BY <1>1 DEF FileInv, Shape, Goto
  <1>3. \A x \in Client : ~Truncating(x)
    BY NobodyTruncates
  <1>4. \A b \in Block : BlockStep(c, b) /\ Shown(c, b)' = Shown(c, b)
    BY <1>1, <1>2 DEF BlockStep, InFlight, CutBlock, Shown
  <1>5. HeldRef(c)' /\ CutAt(c)'
    BY <1>2 DEF HeldRef, CutAt, Cutting, Flushing
  <1>6. Only(c)
    BY DEF CellsStep
  <1>7. AloneRef(c)'
    <2> SUFFICES ASSUME op = "truncate", NEW x \in Client, x # c
                 PROVE  pc'[x] = "idle" /\ ~di'[x][BlockOf(off)].cached
      BY <1>2 DEF AloneRef, Truncating
    <2>1. Unaffected(x, off) /\ BlockOf(off) \in Block /\ BlockOf(off) \in Nat
      BY Blocks DEF Block
    <2>2. pc[x] = "idle" /\ ~di[x][BlockOf(off)].cached
      BY <2>1 DEF Unaffected
    <2> QED
      BY <1>6, <2>2 DEF Only
  <1>8. versions <= versions'
    BY <1>1 DEF CellsInv, KeysOK
  <1>9. RefInv'
    BY <1>1, <1>2, <1>3, <1>4, <1>5, <1>7, <1>8, RefAway
  <1> QED
    BY <1>1, <1>4, <1>6, <1>9, SharedSame DEF RefStep

\* A step of a request that is not at a cut.
LEMMA RefOn ==
  ASSUME FileInv, CellsInv, RefInv, NEW c \in Client, CellsStep(c), UNCHANGED <<blocks, sent>>,
         versions <= versions', pc[c] \notin {"idle", "stored"}, pc'[c] # "stored",
         pc[c] \in {"putdata", "getdata"} => ret[c] # "cut",
         \A b \in Block : \/ di'[c][b] = di[c][b]
                          \/ Faithful(c, di'[c][b], blocks[b]) /\ di'[c][b].version <= versions,
         HeldRef(c)', CutAt(c)', Truncating(c)' => Truncating(c) /\ req'[c].off = req[c].off
  PROVE  RefInv'
  <1>1. \A b \in Block : ~InFlight(c, b) /\ ~CutBlock(c, b)
    BY DEF InFlight, CutBlock
  <1>2. \A b \in Block : BlockStep(c, b)
    BY <1>1 DEF BlockStep
  <1>3. AloneRef(c)'
    BY AloneSame DEF CellsStep
  <1> QED
    BY <1>2, <1>3, RefAway

\* The same when the step leaves the blocks.
LEMMA RefOnSame ==
  ASSUME FileInv, CellsInv, RefInv, NEW c \in Client, CellsStep(c), UNCHANGED <<blocks, sent, di>>,
         versions <= versions', pc[c] \notin {"idle", "stored"}, pc'[c] # "stored",
         pc[c] \in {"putdata", "getdata"} => ret[c] # "cut",
         HeldRef(c)', CutAt(c)', Truncating(c)' => Truncating(c) /\ req'[c].off = req[c].off
  PROVE  RefStep
  <1>1. RefInv'
    BY RefOn
  <1>2. \A b \in Block : Shown(c, b)' = Shown(c, b)
    BY DEF Shown, InFlight
  <1> QED
    BY <1>1, <1>2, SharedSame DEF RefStep, CellsStep

\* Away from the flush and from the cut nothing is held.
LEMMA NothingHeld ==
  ASSUME NEW c \in Client, pc'[c] \in {"idle", "block", "fsync", "again", "truncate", "delete"}
  PROVE  HeldRef(c)' /\ CutAt(c)' /\ pc'[c] # "stored"
  BY DEF HeldRef, CutAt, Cutting, Flushing

LEMMA FetchedFaithful ==
  ASSUME KeysOK, RefInv, NEW c, NEW b \in Block
  PROVE  Faithful(c, Fetched(b), blocks[b]) /\ Fetched(b).version <= versions
  <1> DEFINE s == blocks[b]
  <1>1. /\ s.version \in Nat /\ s.d \in Data /\ s.version <= versions
        /\ s.version = 0 => s.d = <<>>
    BY DEF KeysOK, RefInv, KeysRef
  <1>2. /\ Fetched(b).updates = <<>> /\ Fetched(b).cached /\ Fetched(b).version = s.version
        /\ Fetched(b).d = s.d
    BY DEF Fetched
  <1> HIDE DEF s
  <1>3. Len(Fetched(b).d) <= Len(s.d)
    BY <1>1, <1>2, DataLength
  <1>4. Faithful(c, Fetched(b), s)
    BY <1>1, <1>2, <1>3, StoredFaithful
  <1> QED
    BY <1>1, <1>2, <1>4 DEF s

LEMMA RwFaithful ==
  ASSUME FileInv, CellsInv, RefInv, NEW c \in Client, pc[c] = "block"
  PROVE  LET b == BlockOf(req[c].off) IN
         Faithful(c, RwBlock(c), blocks[b]) /\ RwBlock(c).version <= versions
  <1> DEFINE b == BlockOf(req[c].off)
             s == blocks[b]
             x == RwBlock(c)
  <1>1. b \in Block /\ KeysOK
    BY RwShape DEF FileInv, CellsInv
  <1>2. versions \in Nat /\ (s.version = 0 => s.d = <<>>)
    BY <1>1 DEF KeysOK, RefInv, KeysRef
  <1>3. Faithful(c, di[c][b], s) /\ di[c][b].version <= versions
    BY <1>1, FaithfulNow DEF InFlight, CutBlock
  <1>4. Faithful(c, Fetched(b), s) /\ Fetched(b).version <= versions
    BY <1>1, FetchedFaithful
  <1>5. EmptyBlock.version = 0
    BY DEF EmptyBlock, NoBlock
  <1>6. x = di[c][b] \/ x = EmptyBlock \/ x = Fetched(b)
    BY DEF RwBlock
  <1> HIDE DEF b, s, x
  <1>7. Faithful(c, EmptyBlock, s)
    BY <1>2, NoBlockFaithful
  <1> QED
    BY <1>2, <1>3, <1>4, <1>5, <1>6, <1>7 DEF b, s, x

LEMMA RefRead ==
  ASSUME FileInv, CellsInv, RefInv, NEW c \in Client, DoRead(c)
  PROVE  RefStep
  <1> DEFINE b == BlockOf(req[c].off)
             e == RwBlock(c)
  <1>1. Shape /\ CellsStep(c) /\ versions \in Nat
    BY CellsRead DEF FileInv, CellsInv, KeysOK
  <1>2. /\ pc[c] = "block" /\ di' = [di EXCEPT ![c][b] = e] /\ Goto(c, "idle")
        /\ UNCHANGED <<req, blocks, versions, sent>>
    BY DEF DoRead, Done, locals, store
  <1>3. b \in Block /\ IsBlock(e) /\ e.updates = di[c][b].updates
    BY <1>1, <1>2, RwShape
  <1>4. Faithful(c, e, blocks[b]) /\ e.version <= versions
    BY <1>2, RwFaithful
  <1> HIDE DEF b, e
  <1>5. pc'[c] = "idle" /\ di'[c][b] = e /\ \A k \in Block : k # b => di'[c][k] = di[c][k]
    BY <1>1, <1>2, <1>3 DEF Shape, Goto
  <1>6. HeldRef(c)' /\ CutAt(c)' /\ ~Truncating(c)'
    BY <1>5, NothingHeld DEF Truncating
  <1>7. RefInv'
    BY <1>1, <1>2, <1>4, <1>5, <1>6, RefOn
  <1>8. \A k \in Block : Shown(c, k)' = Shown(c, k)
    BY <1>2, <1>3, <1>5 DEF Shown, InFlight
  <1> QED
    BY <1>1, <1>2, <1>7, <1>8, SharedSame DEF RefStep, CellsStep

LEMMA RefWrite ==
  ASSUME FileInv, CellsInv, RefInv, NEW c \in Client, DoWrite(c)
  PROVE  RefStep
  <1>0. PICK b : b = BlockOf(req[c].off)
    OBVIOUS
  <1> DEFINE i == InBlock(req[c].off)
             x == RwBlock(c)
             n == Size(c)
             e == UpdateData(x, i, n, c)
             u == <<i, n>>
  <1>1. Shape /\ KeysOK /\ CellsOK(c) /\ NumbersOK(c) /\ CellsStep(c) /\ versions \in Nat
    BY CellsWrite DEF FileInv, CellsInv, KeysOK
  <1>2. /\ pc[c] = "block" /\ req[c].op = "write" /\ di' = [di EXCEPT ![c][b] = e]
        /\ Written(c) \/ Goto(c, "fsync")
        /\ UNCHANGED <<req, blocks, versions, sent>>
    BY <1>0 DEF DoWrite, store
  <1>3. GoodBlock(x) /\ b \in Block /\ IsBlock(x) /\ x.cached /\ x.updates = di[c][b].updates
    BY <1>0, <1>1, <1>2, RwCells, RwShape
  <1>4. i \in Nat /\ n \in Nat \ {0} /\ i + n <= BlockSize
    BY <1>1, <1>2, RequestSize DEF NumbersOK
  <1>5. Faithful(c, x, blocks[b]) /\ x.version <= versions /\ blocks[b].d \in Data
    BY <1>0, <1>1, <1>2, <1>3, RwFaithful DEF KeysOK
  <1>6. pc'[c] \in {"idle", "fsync"}
    <2>1. Written(c) => pc'[c] \in {"idle", "fsync"}
      BY <1>1, WrittenFacts
    <2> QED
      BY <1>1, <1>2, <2>1 DEF Shape, Goto
  <1> HIDE DEF i, x, n
  <1>7. Faithful(c, e, blocks[b])
    <2> DEFINE s == blocks[b]
    <2>1. Faithful(c, x, s) /\ s.d \in Data
      BY <1>5
    <2> HIDE DEF s
    <2>2. Faithful(c, e, s)
      BY <1>3, <1>4, <2>1, WriteFaithful
    <2> QED
      BY <2>2 DEF s
  <1>8. e.version <= versions /\ e.updates = Append(x.updates, u) /\ u \in Update
    <2>1. <<i, n>> \in Update
      BY <1>4 DEF Update
    <2> QED
      BY <1>3, <1>5, <2>1 DEF UpdateData, IsBlock
  <1> HIDE DEF e, u
  <1>9. di'[c][b] = e /\ \A k \in Block : k # b => di'[c][k] = di[c][k]
    BY <1>1, <1>2, <1>3 DEF Shape
  <1>10. HeldRef(c)' /\ CutAt(c)' /\ (Truncating(c)' => Truncating(c)) /\ pc'[c] # "stored"
    BY <1>2, <1>6, NothingHeld DEF Truncating
  <1>11. versions <= versions'
    BY <1>1, <1>2
  <1>12. RefInv'
    BY <1>1, <1>2, <1>7, <1>8, <1>9, <1>10, <1>11, RefOn
  <1>13. Shown(c, b)' = Append(Shown(c, b), u) /\ \A k \in Block : k # b => Shown(c, k)' = Shown(c, k)
    BY <1>2, <1>3, <1>8, <1>9, <1>10 DEF Shown, InFlight
  <1>14. Shared
    BY <1>1, <1>2, <1>3, <1>8, <1>13, SharedChange DEF CellsStep
  <1> QED
    BY <1>12, <1>14 DEF RefStep

LEMMA RefBuffered ==
  ASSUME Serial, FileInv, CellsInv, RefInv, NEW c \in Client, NEW off \in Offset, BufferedWrite(c, off)
  PROVE  RefStep
  <1> DEFINE b == BlockOf(off)
             i == InBlock(off)
             x == di[c][b]
             e == UpdateData(x, i, 1, c)
             s == blocks[b]
             u == <<i, 1>>
  <1>1. Shape /\ ClientOK(c) /\ KeysOK /\ CellsOK(c) /\ versions \in Nat
    BY DEF FileInv, CellsInv, KeysOK
  <1>2. CellsStep(c) /\ ~Truncating(c) /\ pc[c] \notin Flushing
    BY CellsBuffered
  <1>3. /\ x.cached /\ di' = [di EXCEPT ![c][b] = UpdateData(@, i, 1, c)]
        /\ UNCHANGED <<pc, req, ret, blocks, versions, sent>> /\ pc[c] # "idle"
    BY DEF BufferedWrite, locals, store
  <1>4. b \in Block /\ i \in Nat /\ i + 1 <= BlockSize
    BY Blocks, Division
  <1>5. ~InFlight(c, b) /\ ~CutBlock(c, b)
    BY <1>2 DEF InFlight, CutBlock, Flushing
  <1>6. GoodBlock(x) /\ IsBlock(x)
    BY <1>1, <1>4, <1>5 DEF CellsOK, Shape
  <1>7. Faithful(c, x, s) /\ x.version <= versions /\ s.d \in Data
    BY <1>1, <1>4, <1>5, FaithfulNow DEF KeysOK
  <1>8. di' = [di EXCEPT ![c][b] = e]
    BY <1>3
  <1>9. u \in Update
    BY <1>4 DEF Update
  <1>10. e.version = x.version /\ e.updates = Append(x.updates, u)
    BY <1>6 DEF UpdateData, IsBlock
  <1>11. pc[c] # "cut" /\ pc[c] # "delete"
    BY <1>2, CutsTruncate DEF Cutting
  <1> HIDE DEF b, i, x, s, u
  <1>12. Faithful(c, e, s)
    BY <1>3, <1>4, <1>6, <1>7, WriteFaithful
  <1> HIDE DEF e
  <1>13. di'[c][b] = e /\ \A k \in Block : k # b => di'[c][k] = di[c][k]
    BY <1>1, <1>4, <1>8 DEF Shape
  <1>14. HeldRef(c)' /\ CutAt(c)' /\ pc[c] \notin {"idle", "stored", "putdata", "getdata"}
    BY <1>2, <1>3, <1>11 DEF HeldRef, CutAt, Cutting, Flushing
  <1>15. \A k \in Block : \/ di'[c][k] = di[c][k]
                          \/ Faithful(c, di'[c][k], blocks[k]) /\ di'[c][k].version <= versions
    BY <1>7, <1>10, <1>12, <1>13 DEF s
  <1>16. RefInv'
    BY <1>1, <1>2, <1>3, <1>14, <1>15, RefOn DEF Truncating
  <1>17. Shown(c, b)' = Append(Shown(c, b), u) /\ \A k \in Block : k # b => Shown(c, k)' = Shown(c, k)
    BY <1>3, <1>5, <1>10, <1>13, <1>14 DEF Shown, InFlight, x
  <1>18. Shared
    BY <1>2, <1>3, <1>4, <1>9, <1>17, SharedChange DEF CellsStep
  <1> QED
    BY <1>16, <1>18 DEF RefStep

-----------------------------------------------------------------------------
(* Flushes begin, and steps that leave the blocks.                         *)

LEMMA RefFsync ==
  ASSUME FileInv, CellsInv, RefInv, NEW c \in Client, Fsync(c)
  PROVE  RefStep
  <1>1. Shape /\ CellsOK(c) /\ CellsStep(c) /\ versions \in Nat
    BY CellsFsync DEF FileInv, CellsInv, KeysOK
  <1>2. pc[c] = "fsync" /\ UNCHANGED <<di, req, blocks, versions, sent>>
    BY DEF Fsync, store
  <1>3. ret[c] # "cut"
    BY <1>2 DEF FileInv, ClientOK, CutOK
  <1>4. CASE ~Dirty(c) /\ FsyncReturns(c, "ok", LookedUp(c))
    <2>1. pc'[c] \in {"idle", "fsync", "again", "truncate"}
      BY <1>1, <1>4, LookedUpShape, ReturnMd
    <2> QED
      BY <1>1, <1>2, <2>1, NothingHeld, RefOnSame DEF Truncating
  <1>5. CASE /\ Dirty(c) /\ current' = [current EXCEPT ![c] = mdi[c].dirty]
             /\ Goto(c, "putmd") \/ Goto(c, "putdata")
             /\ ret' = ret
    <2>1. mdi[c].dirty \in Block
      BY <1>1, <1>5, DirtyBlock
    <2>2. IsBlock(di[c][mdi[c].dirty]) /\ di[c][mdi[c].dirty].updates # <<>>
      BY <1>1, <1>5, <2>1 DEF Shape, Dirty, HasUpdates
    <2>3. current'[c] = mdi[c].dirty /\ pc'[c] \in {"putmd", "putdata"}
      BY <1>1, <1>5 DEF Shape, Goto
    <2>4. HeldRef(c)'
      BY <1>2, <2>2, <2>3 DEF HeldRef, IsBlock
    <2>5. CutAt(c)'
      BY <1>3, <1>5, <2>3 DEF CutAt, Cutting
    <2> QED
      BY <1>1, <1>2, <2>3, <2>4, <2>5, RefOnSame DEF Truncating
  <1> QED
    BY <1>4, <1>5 DEF Fsync

LEMMA RefPutMd ==
  ASSUME FileInv, CellsInv, RefInv, NEW c \in Client, PutMd(c)
  PROVE  RefStep
  <1>1. Shape /\ CellsStep(c) /\ versions \in Nat
    BY CellsPutMd DEF FileInv, CellsInv, KeysOK
  <1>2. /\ pc[c] = "putmd" /\ Goto(c, "putdata") /\ versions' = versions + 1
        /\ UNCHANGED <<di, req, ret, current, blocks, sent>>
    BY DEF PutMd, PutMetadata, locals
  <1>3. ret[c] # "cut" /\ pc'[c] = "putdata"
    BY <1>1, <1>2 DEF FileInv, ClientOK, CutOK, Shape, Goto
  <1>4. HeldRef(c)' /\ CutAt(c)'
    BY <1>2, <1>3 DEF RefInv, ClientRef, HeldRef, Flushing, CutAt, Cutting
  <1>5. versions <= versions'
    BY <1>1, <1>2
  <1> QED
    BY <1>1, <1>2, <1>3, <1>4, <1>5, RefOnSame DEF Truncating

\* An append takes its block back.
LEMMA RefTakenBack ==
  ASSUME FileInv, CellsInv, RefInv, NEW c \in Client, CellsStep(c), pc[c] = "putmd", Appending(c),
         NEW err \in {"eio", "again"}, di' = [di EXCEPT ![c][current[c]] = NoBlock],
         FsyncReturns(c, err, NoMd), UNCHANGED <<req, blocks, versions, sent>>
  PROVE  RefStep
  <1>0. PICK b : b = current[c]
    OBVIOUS
  <1> DEFINE e == NoBlock
  <1>1. Shape /\ versions \in Nat /\ b \in Block
    BY <1>0 DEF FileInv, CellsInv, KeysOK, NumbersOK, Flushing, Block
  <1>2. pc'[c] \in {"idle", "fsync", "again", "truncate"}
    BY <1>1, NoMdNumbers, ReturnMd
  <1>3. blocks[b].version = 0 => blocks[b].d = <<>>
    BY <1>1 DEF RefInv, KeysRef
  <1>4. Faithful(c, e, blocks[b]) /\ e.version <= versions /\ e.updates = <<>>
    BY <1>1, <1>3, NoBlockFaithful DEF NoBlock
  <1>5. di'[c][b] = e /\ \A k \in Block : k # b => di'[c][k] = di[c][k]
    <2>1. di' = [di EXCEPT ![c][b] = e]
      BY <1>0
    <2> HIDE DEF e
    <2> QED
      BY <1>1, <2>1 DEF Shape
  <1> HIDE DEF e
  <1>6. RefInv'
    BY <1>1, <1>2, <1>4, <1>5, NothingHeld, RefOn DEF Truncating
  <1>7. Shown(c, b)' = <<>> /\ \A k \in Block : k # b => Shown(c, k)' = Shown(c, k)
    BY <1>2, <1>4, <1>5 DEF Shown, InFlight
  <1>8. c \in Appenders
    BY DEF FileInv, ClientOK, AppendOK
  <1>9. Shared
    BY <1>1, <1>7, <1>8, SharedWithdraw DEF CellsStep
  <1> QED
    BY <1>6, <1>9 DEF RefStep

LEMMA RefPutMdMismatch ==
  ASSUME FileInv, CellsInv, RefInv, NEW c \in Client, PutMdMismatch(c)
  PROVE  RefStep
  <1>1. Shape /\ CellsStep(c) /\ versions \in Nat
    BY CellsPutMdMismatch DEF FileInv, CellsInv, KeysOK
  <1>2. pc[c] = "putmd" /\ UNCHANGED <<req, blocks, versions, sent>>
    BY DEF PutMdMismatch, store
  <1>3. CASE Appending(c) /\ di' = [di EXCEPT ![c][current[c]] = NoBlock] /\ FsyncReturns(c, "again", NoMd)
    BY <1>1, <1>2, <1>3, RefTakenBack
  <1>4. CASE Goto(c, "fsync") /\ di' = di
    <2>1. pc'[c] = "fsync"
      BY <1>1, <1>4 DEF Shape, Goto
    <2> QED
      BY <1>1, <1>2, <1>4, <2>1, NothingHeld, RefOnSame DEF Truncating
  <1> QED
    BY <1>3, <1>4 DEF PutMdMismatch

LEMMA RefPutMdFails ==
  ASSUME FileInv, CellsInv, RefInv, NEW c \in Client, PutMdFails(c)
  PROVE  RefStep
  <1>1. Shape /\ CellsStep(c) /\ versions \in Nat
    BY CellsPutMdFails DEF FileInv, CellsInv, KeysOK
  <1>2. pc[c] \in {"putmd", "truncate"} /\ UNCHANGED <<req, current, blocks, versions, sent>>
    BY DEF PutMdFails, store
  <1>3. CASE /\ pc[c] = "putmd" /\ Appending(c) /\ di' = [di EXCEPT ![c][current[c]] = NoBlock]
             /\ FsyncReturns(c, "eio", NoMd)
    BY <1>1, <1>2, <1>3, RefTakenBack
  <1>4. CASE UNCHANGED <<di, ret>> /\ pc[c] = "truncate" /\ Goto(c, "idle")
    <2>1. pc'[c] = "idle"
      BY <1>1, <1>4 DEF Shape, Goto
    <2> QED
      BY <1>1, <1>2, <1>4, <2>1, NothingHeld, RefOnSame DEF Truncating
  <1>5. CASE UNCHANGED <<di, ret>> /\ pc[c] = "putmd" /\ Goto(c, "putdata")
    <2>1. ret[c] # "cut" /\ pc'[c] = "putdata"
      BY <1>1, <1>5 DEF FileInv, ClientOK, CutOK, Shape, Goto
    <2>2. HeldRef(c)' /\ CutAt(c)'
      BY <1>2, <1>5, <2>1 DEF RefInv, ClientRef, HeldRef, Flushing, CutAt, Cutting
    <2> QED
      BY <1>1, <1>2, <1>5, <2>1, <2>2, RefOnSame DEF Truncating
  <1> QED
    BY <1>2, <1>3, <1>4, <1>5 DEF PutMdFails, Done

LEMMA RefAgain ==
  ASSUME FileInv, CellsInv, RefInv, NEW c \in Client, Again(c)
  PROVE  RefStep
  <1> DEFINE n == Size(c)
  <1>1. Shape /\ CellsStep(c) /\ versions \in Nat
    BY CellsAgain DEF FileInv, CellsInv, KeysOK
  <1>2. /\ pc[c] = "again" /\ UNCHANGED <<di, blocks, versions, sent>>
        /\ req' = [req EXCEPT ![c].len = n]
        /\ Goto(c, "block") \/ Goto(c, "fsync")
    BY DEF Again, store
  <1> HIDE DEF n
  <1>3. pc'[c] \in {"block", "fsync"} /\ req'[c].op = req[c].op /\ req'[c].off = req[c].off
    BY <1>1, <1>2 DEF Shape, Requests, Goto
  <1> QED
    BY <1>1, <1>2, <1>3, NothingHeld, RefOnSame DEF Truncating

\* put_data returns to hflat_fsync with an error.
LEMMA RefPutDataFails ==
  ASSUME FileInv, CellsInv, RefInv, NEW c \in Client, pc[c] \in {"putdata", "getdata"}, ret[c] # "cut",
         PutDataReturns(c, "eio"), UNCHANGED <<di, req, detached>>, SameKeys
  PROVE  RefStep
  <1> DEFINE m == mdi[c]
  <1>1. CellsStep(c) /\ versions \in Nat /\ UNCHANGED <<blocks, versions, sent>>
    BY CellsPutDataFails DEF CellsInv, KeysOK, SameKeys
  <1>2. FsyncReturns(c, "eio", m) /\ IsMd(m) /\ Shape
    BY DEF PutDataReturns, FileInv, Shape
  <1> HIDE DEF m
  <1>3. pc'[c] \in {"idle", "fsync", "again", "truncate"}
    BY <1>2, ReturnMd
  <1> QED
    BY <1>1, <1>3, NothingHeld, RefOnSame DEF Truncating

LEMMA RefTruncateMd ==
  ASSUME FileInv, CellsInv, RefInv, NEW c \in Client, TruncateMd(c)
  PROVE  RefStep
  <1> DEFINE b == BlockOf(req[c].off)
  <1>1. Shape /\ CellsStep(c) /\ versions \in Nat
    BY CellsTruncateMd DEF FileInv, CellsInv, KeysOK
  <1>2. /\ pc[c] = "truncate" /\ UNCHANGED <<di, req, ret, blocks, sent>> /\ versions' = versions + 1
        /\ \/ current' = [current EXCEPT ![c] = b] /\ Goto(c, "cut")
           \/ Goto(c, "delete")
    BY DEF TruncateMd, PutMetadata
  <1>3. (pc'[c] = "cut" /\ current'[c] = b) \/ pc'[c] = "delete"
    BY <1>1, <1>2 DEF Shape, Goto
  <1>4. HeldRef(c)' /\ CutAt(c)'
    BY <1>2, <1>3 DEF HeldRef, CutAt, Flushing
  <1>5. versions <= versions'
    BY <1>1, <1>2
  <1> QED
    BY <1>1, <1>2, <1>3, <1>4, <1>5, RefOnSame DEF Truncating

LEMMA RefTruncateMdMismatch ==
  ASSUME FileInv, CellsInv, RefInv, NEW c \in Client, TruncateMdMismatch(c)
  PROVE  RefStep
  <1>1. Shape /\ CellsStep(c) /\ versions \in Nat
    BY CellsTruncateMdMismatch DEF FileInv, CellsInv, KeysOK
  <1>2. pc[c] = "truncate" /\ Goto(c, "again") /\ UNCHANGED <<di, req, blocks, versions, sent>>
    BY DEF TruncateMdMismatch, locals, store
  <1>3. pc'[c] = "again"
    BY <1>1, <1>2 DEF Shape, Goto
  <1> QED
    BY <1>1, <1>2, <1>3, NothingHeld, RefOnSame DEF Truncating

\* A request ends, or flushes what was dirty before.
LEMMA RefEnd ==
  ASSUME FileInv, CellsInv, RefInv, NEW c \in Client, CellsStep(c), pc[c] \in {"delete", "block"},
         UNCHANGED <<di, req>>, SameKeys, Goto(c, "idle") \/ Goto(c, "fsync")
  PROVE  RefStep
  <1>1. versions \in Nat /\ UNCHANGED <<blocks, versions, sent>>
    BY DEF CellsInv, KeysOK, SameKeys
  <1>2. pc'[c] \in {"idle", "fsync"}
    BY DEF FileInv, Shape, Goto
  <1> QED
    BY <1>1, <1>2, NothingHeld, RefOnSame DEF Truncating

-----------------------------------------------------------------------------
(* Expiry and crashes.                                                     *)

LEMMA RefExpireMd ==
  ASSUME FileInv, CellsInv, RefInv, NEW c \in Client, ExpireMd(c)
  PROVE  RefStep
  <1>1. CellsStep(c) /\ versions \in Nat /\ Shape
    BY CellsExpireMd DEF CellsInv, KeysOK, FileInv
  <1>2. pc[c] = "idle" /\ UNCHANGED <<di, pc, req, ret, blocks, versions, sent>>
    BY DEF ExpireMd, locals, store
  <1>3. \A b \in Block : BlockStep(c, b) /\ Shown(c, b)' = Shown(c, b)
    BY <1>2 DEF BlockStep, InFlight, CutBlock, Shown
  <1>4. ~Truncating(c)'
    BY <1>2 DEF Truncating
  <1>5. HeldRef(c)' /\ CutAt(c)' /\ AloneRef(c)' /\ pc'[c] # "stored"
    BY <1>2, <1>4, NothingHeld DEF AloneRef
  <1>6. RefInv'
    BY <1>1, <1>2, <1>3, <1>5, RefAway
  <1> QED
    BY <1>1, <1>2, <1>3, <1>6, SharedSame DEF RefStep, CellsStep

LEMMA RefExpireBlock ==
  ASSUME FileInv, CellsInv, RefInv, NEW c \in Client, NEW b \in Block, ExpireBlock(c, b)
  PROVE  RefStep
  <1> DEFINE e == NoBlock
  <1>1. CellsStep(c) /\ versions \in Nat /\ Shape
    BY CellsExpireBlock DEF CellsInv, KeysOK, FileInv
  <1>2. /\ pc[c] = "idle" /\ di[c][b].updates = <<>>
        /\ di' = [di EXCEPT ![c][b] = NoBlock] /\ UNCHANGED <<pc, req, ret, blocks, versions, sent>>
    BY DEF ExpireBlock, HasUpdates, locals, store
  <1>3. di'[c][b] = e /\ \A k \in Block : k # b => di'[c][k] = di[c][k]
    <2>1. di' = [di EXCEPT ![c][b] = e]
      BY <1>2
    <2> HIDE DEF e
    <2> QED
      BY <1>1, <2>1 DEF Shape
  <1>4. blocks[b].version = 0 => blocks[b].d = <<>>
    BY DEF RefInv, KeysRef
  <1>5. Faithful(c, e, blocks[b]) /\ e.version <= versions /\ e.updates = <<>> /\ ~e.cached
    BY <1>1, <1>4, NoBlockFaithful DEF NoBlock
  <1> HIDE DEF e
  <1>6. \A k \in Block : BlockStep(c, k) /\ Shown(c, k)' = Shown(c, k)
    BY <1>2, <1>3, <1>5 DEF BlockStep, InFlight, CutBlock, Shown
  <1>7. ~Truncating(c)'
    BY <1>2 DEF Truncating
  <1>8. HeldRef(c)' /\ CutAt(c)' /\ AloneRef(c)' /\ pc'[c] # "stored" /\ pc'[c] = "idle"
    BY <1>2, <1>7, NothingHeld DEF AloneRef
  <1>9. \A k \in Block : di'[c][k].cached => di[c][k].cached
    BY <1>3, <1>5
  <1>10. RefInv'
    BY <1>1, <1>2, <1>6, <1>8, <1>9, RefAway
  <1> QED
    BY <1>1, <1>2, <1>6, <1>10, SharedSame DEF RefStep, CellsStep

LEMMA RefCrash ==
  ASSUME WholeTruncates, FileInv, CellsInv, RefInv, NEW c \in Client, Crash(c)
  PROVE  RefStep
  <1> DEFINE e == NoBlock
  <1>1. CellsStep(c) /\ versions \in Nat /\ Shape
    BY CellsCrash DEF CellsInv, KeysOK, FileInv
  <1>2. /\ di' = [di EXCEPT ![c] = [b \in Block |-> e]] /\ Goto(c, "idle")
        /\ UNCHANGED <<blocks, versions, sent>>
    BY DEF Crash, Done, locals, store
  <1>3. \A b \in Block : blocks[b].version = 0 => blocks[b].d = <<>>
    BY DEF RefInv, KeysRef
  <1>4. \A b \in Block : Faithful(c, e, blocks[b])
    BY <1>3, NoBlockFaithful
  <1>5. e.version <= versions /\ e.updates = <<>> /\ ~e.cached
    BY <1>1 DEF NoBlock
  <1> HIDE DEF e
  <1>6. pc'[c] = "idle" /\ \A b \in Block : di'[c][b] = e
    BY <1>1, <1>2 DEF Shape, Goto
  <1>7. \A b \in Block : BlockStep(c, b) /\ Shown(c, b)' = <<>>
    BY <1>4, <1>5, <1>6 DEF BlockStep, Shown
  <1>8. HeldRef(c)' /\ CutAt(c)' /\ AloneRef(c)' /\ pc'[c] # "stored"
    BY <1>6, NothingHeld DEF AloneRef, Truncating
  <1>9. \A k \in Block : di'[c][k].cached => di[c][k].cached
    BY <1>5, <1>6
  <1>10. RefInv'
    BY <1>1, <1>2, <1>6, <1>7, <1>8, <1>9, RefAway
  <1> QED
    BY <1>1, <1>2, <1>7, <1>10, SharedCrash DEF RefStep, CellsStep

-----------------------------------------------------------------------------
(* put_data and the blocks of a truncate.                                  *)

LEMMA RefPutDataMismatch ==
  ASSUME FileInv, CellsInv, RefInv, NEW c \in Client, PutDataMismatch(c)
  PROVE  RefStep
  <1>1. CellsStep(c) /\ versions \in Nat /\ Shape /\ ClientRef(c)
    BY CellsPutDataMismatch DEF CellsInv, KeysOK, FileInv, RefInv
  <1>2. pc[c] = "putdata" /\ Goto(c, "getdata") /\ UNCHANGED <<di, req, ret, current, blocks, versions, sent>>
    BY DEF PutDataMismatch, caches, locals, store
  <1>3. pc'[c] = "getdata"
    BY <1>1, <1>2 DEF Shape, Goto
  <1>4. \A b \in Block : /\ CutBlock(c, b)' <=> CutBlock(c, b)
                         /\ ~InFlight(c, b) /\ ~InFlight(c, b)'
    BY <1>2, <1>3 DEF CutBlock, InFlight
  <1>5. \A b \in Block : BlockStep(c, b) /\ Shown(c, b)' = Shown(c, b)
    BY <1>1, <1>2, <1>4 DEF ClientRef, BlockRef, BlockStep, Shown
  <1>6. HeldRef(c)' /\ CutAt(c)'
    BY <1>1, <1>2, <1>3 DEF ClientRef, HeldRef, CutAt, Cutting, Flushing
  <1>7. AloneRef(c)'
    BY <1>1, <1>2, AloneSame DEF CellsStep, Truncating
  <1>8. RefInv'
    BY <1>1, <1>2, <1>3, <1>5, <1>6, <1>7, RefAway
  <1> QED
    BY <1>1, <1>2, <1>5, <1>8, SharedSame DEF RefStep, CellsStep

\* The merge makes of the block that was read what the updates make of it.
LEMMA RefGetData ==
  ASSUME FileInv, CellsInv, RefInv, NEW c \in Client, GetData(c)
  PROVE  RefStep
  <1>0. PICK b : b = current[c]
    OBVIOUS
  <1> DEFINE x == di[c][b]
             s == blocks[b]
             y == di'[c][b]
             i == InBlock(req[c].off)
  <1>1. CellsStep(c) /\ versions \in Nat /\ Shape /\ ClientRef(c)
    BY CellsGetData DEF CellsInv, KeysOK, FileInv, RefInv
  <1>2. /\ pc[c] = "getdata" /\ Goto(c, "putdata") /\ s.version # 0
        /\ di' = [di EXCEPT ![c][b].d = MergeDataChanges(x, s.d), ![c][b].version = s.version]
        /\ UNCHANGED <<req, ret, current, blocks, versions, sent>>
    BY <1>0 DEF GetData, locals, store
  <1>3. /\ b \in Block /\ IsBlock(x) /\ x.d \in Data
        /\ ret[c] # "cut" => GoodBlock(x)
        /\ ret[c] = "cut" => CutTo(x, i)
    BY <1>0, <1>2, FlushedBlock
  <1>4. /\ \A k \in Block : k # b => di'[c][k] = di[c][k]
        /\ y.updates = x.updates /\ y.version = s.version
    BY <1>0, GetDataCells
  <1>5. y.d = MergeDataChanges(x, s.d) /\ y.cached = x.cached
    <2> DEFINE d == MergeDataChanges(x, s.d)
    <2>1. di' = [di EXCEPT ![c][b].d = d, ![c][b].version = s.version]
      BY <1>2
    <2> HIDE DEF d, s
    <2>2. y.d = d /\ y.cached = x.cached
      BY <1>1, <1>3, <2>1 DEF Shape, IsBlock
    <2> QED
      BY <2>2 DEF d
  <1>6. pc'[c] = "putdata"
    BY <1>1, <1>2 DEF Shape, Goto
  <1>7. s.d \in Data /\ s.version <= versions
    BY <1>3 DEF CellsInv, KeysOK, RefInv, KeysRef
  <1>8. x.cached
    BY <1>0, <1>1, <1>2 DEF ClientRef, HeldRef, Flushing
  <1>9. \A k \in Block : k # b => ~CutBlock(c, k) /\ ~InFlight(c, k)
    BY <1>0, <1>2 DEF CutBlock, InFlight
  <1>10. BlockStep(c, b)
    <2>1. BlockRef(c, b)
      BY <1>1, <1>3 DEF ClientRef
    <2>2. CASE ret[c] # "cut"
      <3>1. GoodBlock(x) /\ FromNothing(c, x) /\ Fits(x, s) /\ Mine(x, c)
        BY <1>3, <2>1, <2>2 DEF BlockRef, CutBlock
      <3> HIDE DEF x, s, y
      <3>2. Faithful(c, y, s)
        BY <1>2, <1>3, <1>4, <1>5, <1>7, <1>8, <3>1, MergeFaithful
      <3> QED
        BY <1>4, <1>7, <3>2 DEF BlockStep, s, y
    <2>3. CASE ret[c] = "cut"
      <3>1. i \in 0 .. BlockSize /\ CutTo(x, i)
        BY <1>1, <1>3, <2>3, RequestSize
      <3> HIDE DEF x, s, y, i
      <3>2. y.d = Applied(s.d, x.updates, c)
        BY <1>5, <1>7, <3>1, CutMerged DEF CutTo
      <3>3. CopyOf(c, y, s) /\ FromNothing(c, y)
        BY <1>2, <1>4, <3>2 DEF CopyOf, FromNothing
      <3>4. CutBlock(c, b)'
        BY <1>0, <1>2, <1>6, <2>3 DEF CutBlock
      <3>5. BlockRef(c, b)'
        BY <1>2, <1>4, <1>5, <1>7, <1>8, <3>3, <3>4 DEF BlockRef, s, y
      <3> QED
        BY <3>5 DEF BlockStep
    <2> QED
      BY <2>2, <2>3
  <1>11. \A k \in Block : BlockStep(c, k)
    BY <1>4, <1>9, <1>10 DEF BlockStep
  <1>12. \A k \in Block : Shown(c, k)' = Shown(c, k)
    <2>1. \A k \in Block : di'[c][k].updates = di[c][k].updates
      BY <1>4
    <2>2. pc[c] # "stored" /\ pc'[c] # "stored"
      BY <1>2, <1>6
    <2> QED
      BY <2>1, <2>2 DEF Shown, InFlight
  <1>13. HeldRef(c)' /\ CutAt(c)'
    BY <1>0, <1>1, <1>2, <1>5, <1>6, <1>8 DEF ClientRef, HeldRef, CutAt, Cutting
  <1>14. AloneRef(c)'
    BY <1>1, <1>2, AloneSame DEF CellsStep, Truncating
  <1>15. RefInv'
    BY <1>1, <1>2, <1>6, <1>11, <1>13, <1>14, RefAway
  <1> QED
    BY <1>1, <1>2, <1>12, <1>15, SharedSame DEF RefStep, CellsStep

LEMMA RefStored ==
  ASSUME FileInv, CellsInv, RefInv, NEW c \in Client, Stored(c)
  PROVE  RefStep
  <1>0. PICK b : b = current[c]
    OBVIOUS
  <1> DEFINE x == di[c][b]
             s == blocks[b]
             y == di'[c][b]
  <1>1. CellsStep(c) /\ versions \in Nat /\ Shape /\ ClientRef(c)
    BY CellsStored DEF CellsInv, KeysOK, FileInv, RefInv
  <1>2. /\ pc[c] = "stored" /\ PutDataReturns(c, "ok")
        /\ di' = [di EXCEPT ![c][b].updates = <<>>, ![c][b].version = sent[c]]
        /\ UNCHANGED <<req, blocks, versions, sent>>
    BY <1>0 DEF Stored, store
  <1>3. b \in Block /\ IsBlock(x)
    BY <1>0, <1>2, FlushedBlock
  <1>4. /\ \A k \in Block : k # b => di'[c][k] = di[c][k]
        /\ y.updates = <<>> /\ y.d = x.d /\ y.version = sent[c]
    BY <1>0, StoredCells
  <1>5. y.cached = x.cached
    BY <1>1, <1>2, <1>3 DEF Shape, IsBlock
  <1>6. x.cached
    BY <1>0, <1>1, <1>2 DEF ClientRef, HeldRef, Flushing
  <1>7. /\ sent[c] # 0 /\ sent[c] <= versions
        /\ s.version = sent[c] => s.d = x.d
        /\ Len(x.d) <= Len(s.d)
    BY <1>0, <1>1, <1>2 DEF ClientRef, AnswerRef
  <1>8. pc'[c] \in {"idle", "fsync", "again", "truncate", "delete"}
    <2>1. CASE ret[c] # "cut"
      <3> DEFINE m == mdi[c]
      <3>1. FsyncReturns(c, "ok", m) /\ IsMd(m)
        BY <1>1, <1>2, <2>1 DEF PutDataReturns, Shape
      <3> HIDE DEF m
      <3> QED
        BY <1>1, <3>1, ReturnMd
    <2>2. CASE ret[c] = "cut"
      BY <1>1, <1>2, <2>2 DEF PutDataReturns, Shape, Goto
    <2> QED
      BY <2>1, <2>2
  <1>9. Faithful(c, y, s)
    <2> HIDE DEF x, s, y
    <2> QED
      BY <1>4, <1>5, <1>6, <1>7, StoredFaithful
  <1>10. \A k \in Block : k # b => ~CutBlock(c, k) /\ ~InFlight(c, k)
    BY <1>0 DEF CutBlock, InFlight
  <1>11. \A k \in Block : BlockStep(c, k)
    BY <1>4, <1>7, <1>9, <1>10 DEF BlockStep
  <1>12. \A k \in Block : Shown(c, k)' = Shown(c, k)
    <2> TAKE k \in Block
    <2>1. Shown(c, k)' = di'[c][k].updates
      BY <1>8 DEF Shown, InFlight
    <2>2. CASE k = b
      BY <1>0, <1>2, <1>4, <2>1, <2>2 DEF Shown, InFlight
    <2>3. CASE k # b
      <3>1. di'[c][k] = di[c][k] /\ ~InFlight(c, k)
        BY <1>4, <1>10, <2>3
      <3> QED
        BY <2>1, <3>1 DEF Shown
    <2> QED
      BY <2>2, <2>3
  <1>13. HeldRef(c)' /\ CutAt(c)' /\ pc'[c] # "stored"
    BY <1>8, NothingHeld
  <1>14. AloneRef(c)'
    BY <1>1, <1>2, AloneSame DEF CellsStep, Truncating
  <1>15. RefInv'
    BY <1>1, <1>2, <1>11, <1>13, <1>14, RefAway
  <1> QED
    BY <1>1, <1>2, <1>12, <1>15, SharedSame DEF RefStep, CellsStep

LEMMA RefCut ==
  ASSUME FileInv, CellsInv, RefInv, NEW c \in Client, Cut(c)
  PROVE  RefStep
  <1>0. PICK b : b = current[c]
    OBVIOUS
  <1> DEFINE x == IF di[c][b].cached THEN di[c][b] ELSE Fetched(b)
             i == InBlock(req[c].off)
             e == Truncate(x, i)
             s == blocks[b]
             u == <<i, 0>>
  <1>1. CellsStep(c) /\ versions \in Nat /\ Shape /\ ClientRef(c) /\ KeysOK /\ CellsOK(c)
    BY CellsCut DEF CellsInv, KeysOK, FileInv, RefInv
  <1>2. /\ pc[c] = "cut" /\ di' = [di EXCEPT ![c][b] = e] /\ ret' = [ret EXCEPT ![c] = "cut"]
        /\ Goto(c, "putdata") /\ UNCHANGED <<req, current, blocks, versions, sent>>
    BY <1>0 DEF Cut, store
  <1>3. i \in 0 .. BlockSize /\ b \in Block
    BY <1>0, <1>1, <1>2, RequestSize DEF CellsInv, NumbersOK, Block
  <1>4. Truncating(c) /\ \A k \in Block : ~CutBlock(c, k) /\ ~InFlight(c, k)
    BY <1>2, CutsTruncate DEF Cutting, CutBlock, InFlight
  <1>5. \A k \in Block : di[c][k].updates = <<>>
    BY <1>1, <1>4 DEF CellsOK
  <1>6. IsBlock(x) /\ x.cached /\ x.updates = <<>> /\ Faithful(c, x, s) /\ x.version <= versions
    <2>1. IsBlock(di[c][b])
      BY <1>1, <1>3 DEF Shape
    <2>2. IsBlock(Fetched(b)) /\ Fetched(b).cached /\ Fetched(b).updates = <<>>
      BY <1>3, FetchedShape DEF Fetched
    <2>3. Faithful(c, di[c][b], s) /\ di[c][b].version <= versions
      BY <1>3, <1>4, FaithfulNow
    <2>4. Faithful(c, Fetched(b), s) /\ Fetched(b).version <= versions
      BY <1>1, <1>3, FetchedFaithful
    <2> QED
      BY <1>3, <1>5, <2>1, <2>2, <2>3, <2>4
  <1>7. u \in Update
    BY <1>3 DEF Update
  <1> HIDE DEF x, i, s
  <1>8. e.updates = <<u>> /\ e.d = Resize(x.d, i) /\ e.version = x.version /\ e.cached
    <2>1. e.d = Resize(x.d, i) /\ e.version = x.version /\ e.cached
      BY <1>6 DEF Truncate, IsBlock
    <2>2. e.updates = WithUpdate(x.updates, i, 0)
      BY <1>3, <1>6, TruncateShape
    <2> QED
      BY <1>6, <2>1, <2>2 DEF WithUpdate
  <1>9. CopyOf(c, e, s) /\ FromNothing(c, e)
    <2>1. e.updates = <<<<i, 0>>>>
      BY <1>8
    <2> HIDE DEF e, u
    <2> QED
      BY <1>6, <1>8, <2>1, CutFaithful
  <1> HIDE DEF e, u
  <1>10. /\ pc'[c] = "putdata" /\ ret'[c] = "cut" /\ di'[c][b] = e
         /\ \A k \in Block : k # b => di'[c][k] = di[c][k]
    BY <1>1, <1>2, <1>3 DEF Shape, Goto
  <1>11. CutBlock(c, b)'
    BY <1>0, <1>2, <1>10 DEF CutBlock
  <1>12. BlockRef(c, b)'
    BY <1>2, <1>6, <1>8, <1>9, <1>10, <1>11 DEF BlockRef, s
  <1>13. \A k \in Block : BlockStep(c, k)
    BY <1>4, <1>10, <1>12 DEF BlockStep
  <1>14. HeldRef(c)' /\ CutAt(c)'
    BY <1>0, <1>1, <1>2, <1>8, <1>10 DEF HeldRef, ClientRef, CutAt, Cutting
  <1>15. AloneRef(c)'
    BY <1>1, <1>2, <1>4, AloneSame DEF CellsStep
  <1>16. RefInv'
    BY <1>1, <1>2, <1>10, <1>13, <1>14, <1>15, RefAway
  <1>17. Shown(c, b)' = <<u>> /\ Shown(c, b) = <<>> /\ \A k \in Block : k # b => Shown(c, k)' = Shown(c, k)
    BY <1>2, <1>3, <1>5, <1>8, <1>10 DEF Shown, InFlight
  <1>18. Shown(c, b)' = Append(Shown(c, b), u)
    BY <1>17
  <1>19. Shared
    BY <1>1, <1>2, <1>3, <1>7, <1>17, <1>18, SharedChange DEF CellsStep
  <1> QED
    BY <1>16, <1>19 DEF RefStep

\* What is deleted nobody else is at work on.
LEMMA RefDeleteBlock ==
  ASSUME FileInv, CellsInv, RefInv, NEW c \in Client, DeleteBlock(c)
  PROVE  RefStep
  <1>0. PICK b : b = current[c]
    OBVIOUS
  <1> DEFINE e == NoBlock
             a == Absent
  <1>1. CellsStep(c) /\ Only(c) /\ versions \in Nat /\ Shape /\ ClientRef(c) /\ b \in Block /\ KeysOK
    BY <1>0, CellsDeleteBlock DEF CellsStep, CellsInv, KeysOK, FileInv, RefInv
  <1>2. /\ pc[c] = "delete" /\ di' = [di EXCEPT ![c][b] = e] /\ blocks' = [blocks EXCEPT ![b] = a]
        /\ UNCHANGED <<versions, pc, req, ret, sent>>
    BY <1>0 DEF DeleteBlock
  <1>3. Truncating(c) /\ \A k \in Block : ~CutBlock(c, k) /\ ~InFlight(c, k)
    BY <1>2, CutsTruncate DEF Cutting, CutBlock, InFlight
  <1>4. a.version = 0 /\ a.d = <<>> /\ e.version = 0 /\ e.updates = <<>> /\ Faithful(c, e, a)
    <2>1. a.version = 0 /\ a.d = <<>> /\ e.version = 0 /\ e.updates = <<>>
      BY DEF Absent, NoBlock
    <2> HIDE DEF a
    <2> QED
      BY <2>1, NoBlockFaithful
  <1> HIDE DEF e, a
  <1>5. /\ di'[c][b] = e /\ \A k \in Block : k # b => di'[c][k] = di[c][k]
        /\ blocks'[b] = a /\ \A k \in Block : k # b => blocks'[k] = blocks[k]
    BY <1>1, <1>2 DEF Shape, KeysOK
  <1>6. KeysRef'
    BY <1>1, <1>2, <1>4, <1>5 DEF RefInv, KeysRef
  <1>7. ASSUME NEW k \in Block PROVE BlockRef(c, k)'
    <2>1. CASE k = b
      BY <1>1, <1>2, <1>4, <1>5, <2>1 DEF Faithful, BlockRef
    <2>2. CASE k # b
      <3>1. Faithful(c, di[c][k], blocks[k]) /\ di[c][k].version <= versions
        BY <1>3, FaithfulNow
      <3> QED
        BY <1>2, <1>5, <2>2, <3>1 DEF Faithful, BlockRef
    <2> QED
      BY <2>1, <2>2
  <1>8. HeldRef(c)' /\ CutAt(c)' /\ AnswerRef(c)'
    BY <1>2, NothingHeld DEF AnswerRef
  <1>9. AloneRef(c)'
    BY <1>1, <1>2, AloneSame DEF Truncating
  <1>10. ClientRef(c)'
    BY <1>1, <1>2, <1>7, <1>8, <1>9 DEF ClientRef
  <1>11. ASSUME NEW x \in Client, x # c PROVE ClientRef(x)'
    <2>1. pc[x] = "idle" /\ ClientRef(x)
      BY <1>1, <1>3, <1>11 DEF ClientRef, AloneRef, RefInv
    <2>2. di'[x] = di[x] /\ pc'[x] = "idle"
      BY <1>1, <1>11, <2>1 DEF Only
    <2>3. \A k \in Block : ~InFlight(x, k) /\ ~CutBlock(x, k)
      BY <2>1 DEF InFlight, CutBlock
    <2>4. ASSUME NEW k \in Block PROVE BlockRef(x, k)'
      <3>1. Faithful(x, di[x][k], blocks[k]) /\ di[x][k].version <= versions
        BY <2>3, FaithfulNow
      <3>2. CASE k # b
        BY <1>2, <1>5, <2>2, <3>1, <3>2 DEF Faithful, BlockRef
      <3>3. CASE k = b
        <4>1. CopyOf(x, di[x][k], a) /\ Fits(di[x][k], a)
          BY <1>4, <3>1 DEF Faithful, CopyOf, FromNothing, Fits
        <4> QED
          BY <1>2, <1>5, <2>2, <3>1, <3>3, <4>1 DEF Faithful, BlockRef
      <3> QED
        BY <3>2, <3>3
    <2>5. HeldRef(x)' /\ CutAt(x)' /\ AnswerRef(x)' /\ AloneRef(x)'
      BY <2>2, NothingHeld DEF AnswerRef, AloneRef, Truncating
    <2> QED
      BY <1>2, <2>1, <2>4, <2>5 DEF ClientRef
  <1>12. RefInv'
    BY <1>6, <1>10, <1>11 DEF RefInv
  <1>13. /\ blocks'[b].d = <<>> /\ \A k \in Block : k # b => blocks'[k].d = blocks[k].d
         /\ Shown(c, b)' = <<>> /\ \A k \in Block : k # b => Shown(c, k)' = Shown(c, k)
    BY <1>2, <1>4, <1>5 DEF Shown, InFlight
  <1>14. Shared
    BY <1>1, <1>13, SharedDelete
  <1> QED
    BY <1>12, <1>14 DEF RefStep

\* A truncated file does not get a block again while somebody has the old one.
Faithfully == WholeTruncates /\ "block again" \in Avoid

\* What is stored is what the updates make of the block that was stored before.
LEMMA RefPutData ==
  ASSUME Faithfully, FileInv, CellsInv, RefInv, NEW c \in Client, PutData(c)
  PROVE  RefStep
  <1>0. PICK b : b = current[c]
    OBVIOUS
  <1> DEFINE x == di[c][b]
             s == blocks[b]
             t == [version |-> versions + 1, d |-> x.d]
  <1>1. CellsStep(c) /\ Only(c) /\ versions \in Nat /\ Shape /\ ClientRef(c) /\ KeysOK
    BY CellsPutData DEF CellsStep, CellsInv, KeysOK, FileInv, RefInv
  <1>2. /\ pc[c] = "putdata" /\ s.version = x.version /\ Goto(c, "stored")
        /\ blocks' = [blocks EXCEPT ![b] = t] /\ versions' = versions + 1
        /\ sent' = [sent EXCEPT ![c] = versions + 1]
        /\ UNCHANGED <<di, req, ret, current>>
    BY <1>0 DEF PutData, caches
  <1>3. s.version = 0 => \A y \in Client : di[y][b].version = 0
    BY <1>0, Zenon DEF PutData, Avoided, Faithfully
  <1>4. /\ b \in Block /\ x.d \in Data /\ IsBlock(x)
        /\ ret[c] # "cut" => GoodBlock(x)
    BY <1>0, <1>2, FlushedBlock
  <1>5. s.d \in Data /\ s.version \in Nat
    BY <1>1, <1>4 DEF KeysOK
  <1>6. x.d = Applied(s.d, x.updates, c) /\ BlockRef(c, b)
    BY <1>1, <1>2, <1>4 DEF ClientRef, BlockRef, CopyOf, InFlight
  <1>7. ret[c] # "cut" => Len(s.d) <= Len(x.d)
    <2> SUFFICES ASSUME ret[c] # "cut" PROVE Len(s.d) <= Len(x.d)
      OBVIOUS
    <2>1. GoodBlock(x) /\ x.updates \in Updates
      BY <1>4 DEF IsBlock
    <2> HIDE DEF x, s
    <2>2. WritesOnly(x.updates)
      BY <1>4, <2>1, InRangeWrites DEF GoodBlock
    <2>3. Len(s.d) <= Len(Applied(s.d, x.updates, c))
      BY <1>5, <2>2, AppliedLength
    <2> QED
      BY <1>6, <2>3
  <1>8. ret[c] = "cut" => Truncating(c) /\ b = BlockOf(req[c].off)
    <2> SUFFICES ASSUME ret[c] = "cut" PROVE Truncating(c) /\ b = BlockOf(req[c].off)
      OBVIOUS
    <2>1. Cutting(c) /\ pc[c] # "delete"
      BY <1>2 DEF Cutting
    <2> QED
      BY <1>0, <1>1, <2>1, CutsTruncate DEF ClientRef, CutAt
  <1>9. t.version = versions + 1 /\ t.d = x.d
    OBVIOUS
  <1> HIDE DEF x, s, t
  <1>10. /\ pc'[c] = "stored" /\ sent'[c] = versions + 1 /\ blocks'[b] = t
         /\ \A k \in Block : k # b => blocks'[k] = blocks[k]
         /\ \A y \in Client : y # c => sent'[y] = sent[y]
    BY <1>1, <1>2, <1>4 DEF Shape, KeysOK, Goto
  <1>11. KeysRef'
    <2> SUFFICES ASSUME NEW k \in Block
                 PROVE  blocks'[k].version <= versions + 1 /\ (blocks'[k].version = 0 => blocks'[k].d = <<>>)
      BY <1>2 DEF KeysRef
    <2>1. /\ blocks[k].version \in Nat /\ blocks[k].version <= versions
          /\ blocks[k].version = 0 => blocks[k].d = <<>>
      BY <1>1 DEF RefInv, KeysRef, KeysOK
    <2> QED
      BY <1>1, <1>9, <1>10, <2>1
  <1>12. \A y \in Client, k \in Block : di[y][k].version \in Nat
    BY DEF CellsInv, CellsOK, GoodBlock, CutTo
  <1>13. ASSUME NEW k \in Block PROVE BlockRef(c, k)'
    <2>1. BlockRef(c, k) /\ di[c][k].version <= versions + 1
      BY <1>1, <1>12 DEF ClientRef, BlockRef
    <2>2. /\ CutBlock(c, k)' <=> CutBlock(c, k)
          /\ InFlight(c, k)' <=> k = b
          /\ ~InFlight(c, k)
      BY <1>0, <1>2, <1>10 DEF CutBlock, InFlight
    <2>3. CASE k # b
      BY <1>2, <1>10, <2>1, <2>2, <2>3 DEF BlockRef
    <2>4. CASE k = b
      <3>1. Fits(di[c][k], t)
        BY <1>4, <1>9, <2>4, DataLength DEF Fits, x
      <3> QED
        BY <1>2, <1>10, <2>1, <2>2, <2>4, <3>1 DEF BlockRef
    <2> QED
      BY <2>3, <2>4
  <1>14. AnswerRef(c)'
    <2>1. versions + 1 # 0 /\ Len(x.d) <= Len(x.d)
      BY <1>1, <1>4, DataLength
    <2> QED
      BY <1>0, <1>2, <1>9, <1>10, <2>1 DEF AnswerRef, x
  <1>15. HeldRef(c)' /\ CutAt(c)'
    BY <1>1, <1>2, <1>10 DEF ClientRef, HeldRef, Flushing, CutAt, Cutting
  <1>16. AloneRef(c)'
    BY <1>1, <1>2, AloneSame DEF Truncating
  <1>17. ClientRef(c)'
    BY <1>1, <1>2, <1>10, <1>13, <1>14, <1>15, <1>16 DEF ClientRef
  <1>18. ASSUME NEW y \in Client, y # c PROVE ClientRef(y)'
    <2> DEFINE z == di[y][b]
    <2>1. /\ di'[y] = di[y] /\ pc'[y] = pc[y] /\ ret'[y] = ret[y]
          /\ req'[y] = req[y] /\ current'[y] = current[y] /\ sent'[y] = sent[y]
      <3>1. sent'[y] = sent[y]
        BY <1>10, <1>18
      <3>2. Only(c)
        BY <1>1
      <3> HIDE DEF z
      <3> QED
        BY <1>18, <3>1, <3>2 DEF Only
    <2>2. ClientRef(y) /\ ~Truncating(y) /\ sent[y] \in Nat
      BY <1>1, <1>2, <1>18, NoOtherTruncates DEF RefInv, KeysOK
    <2>3. z.version \in Nat /\ z.version <= versions /\ BlockRef(y, b)
      BY <1>4, <1>12, <2>2 DEF ClientRef, BlockRef
    <2>4. ret[c] = "cut" => pc[y] = "idle" /\ z.version = 0
      <3> SUFFICES ASSUME ret[c] = "cut" PROVE pc[y] = "idle" /\ z.version = 0
        OBVIOUS
      <3>1. pc[y] = "idle" /\ ~z.cached
        BY <1>1, <1>8, <1>18 DEF ClientRef, AloneRef
      <3> QED
        BY <2>3, <3>1 DEF BlockRef, NoBlock
    <2>5. z.d \in Data /\ Len(z.d) \in Nat /\ Len(s.d) \in Nat /\ Len(x.d) \in Nat
      <3>1. z.d \in Data
        BY <1>4 DEF CellsInv, CellsOK, GoodBlock, CutTo
      <3> HIDE DEF z
      <3> QED
        BY <1>4, <1>5, <3>1, DataLength
    <2>6. BlockRef(y, b)'
      <3>1. CopyOf(y, z, t)
        <4>1. z.version # t.version
          BY <1>1, <1>9, <2>3
        <4> QED
          BY <4>1 DEF CopyOf
      <3>2. Fits(z, s) => Fits(z, t)
        <4> SUFFICES ASSUME Fits(z, s), z.version # 0 PROVE Len(z.d) <= Len(x.d) \/ Reached(z)
          BY <1>9 DEF Fits
        <4>1. s.version # 0 /\ ret[c] # "cut"
          BY <1>3, <2>4 DEF s
        <4>2. Len(z.d) <= Len(s.d) \/ Reached(z)
          BY <4>1 DEF Fits
        <4> HIDE DEF z
        <4> QED
          BY <1>7, <2>5, <4>1, <4>2
      <3>3. z.version <= versions'
        BY <1>1, <1>2, <2>3
      <3>4. (CutBlock(y, b)' <=> CutBlock(y, b)) /\ di'[y][b] = z /\ blocks'[b] = t
        BY <1>10, <2>1 DEF CutBlock
      <3>5. FromNothing(y, z) /\ (~CutBlock(y, b) => Fits(z, s) /\ Mine(z, y)) /\ (z.cached \/ z = NoBlock)
        BY <2>3 DEF BlockRef, s
      <3> HIDE DEF z
      <3> QED
        BY <3>1, <3>2, <3>3, <3>4, <3>5 DEF BlockRef
    <2>7. ASSUME NEW k \in Block, k # b PROVE BlockRef(y, k)'
      <3>1. BlockRef(y, k) /\ di[y][k].version \in Nat
        BY <1>12, <2>2 DEF ClientRef
      <3>2. di[y][k].version <= versions'
        BY <1>1, <1>2, <3>1 DEF BlockRef
      <3>3. (CutBlock(y, k)' <=> CutBlock(y, k)) /\ (InFlight(y, k)' <=> InFlight(y, k))
        BY <2>1 DEF CutBlock, InFlight
      <3> QED
        BY <1>10, <2>1, <2>7, <3>1, <3>2, <3>3 DEF BlockRef
    <2>8. AnswerRef(y)'
      <3> SUFFICES ASSUME pc[y] = "stored"
                   PROVE  /\ sent[y] # 0 /\ blocks'[current[y]].version # 0
                          /\ blocks'[current[y]].version = sent[y] =>
                                blocks'[current[y]].d = di[y][current[y]].d
                          /\ Len(di[y][current[y]].d) <= Len(blocks'[current[y]].d)
        BY <2>1 DEF AnswerRef
      <3>1. /\ sent[y] # 0 /\ blocks[current[y]].version # 0
            /\ blocks[current[y]].version = sent[y] => blocks[current[y]].d = di[y][current[y]].d
            /\ Len(di[y][current[y]].d) <= Len(blocks[current[y]].d)
            /\ sent[y] <= versions
        BY <2>2 DEF ClientRef, AnswerRef
      <3>2. current[y] \in Block
        BY FlushedBlock
      <3>3. CASE current[y] # b
        BY <1>10, <3>1, <3>2, <3>3
      <3>4. CASE current[y] = b
        <4>1. blocks'[current[y]] = t /\ t.version = versions + 1 /\ t.d = x.d
          BY <1>9, <1>10, <3>4
        <4>2. t.version # 0 /\ t.version # sent[y]
          BY <1>1, <2>2, <3>1, <4>1
        <4>3. Len(z.d) <= Len(s.d) /\ ret[c] # "cut"
          BY <2>4, <3>1, <3>4 DEF s
        <4>4. Len(z.d) <= Len(x.d)
          <5> HIDE DEF z
          <5> QED
            BY <1>7, <2>5, <4>3
        <4> QED
          BY <3>1, <3>4, <4>1, <4>2, <4>4
      <3> QED
        BY <3>3, <3>4
    <2>9. HeldRef(y)' /\ CutAt(y)' /\ AloneRef(y)'
      BY <2>1, <2>2 DEF ClientRef, HeldRef, CutAt, Cutting, AloneRef, Truncating
    <2>10. sent'[y] <= versions'
      BY <1>1, <1>2, <2>1, <2>2 DEF ClientRef
    <2> QED
      BY <2>6, <2>7, <2>8, <2>9, <2>10 DEF ClientRef
  <1>19. RefInv'
    BY <1>11, <1>17, <1>18 DEF RefInv
  <1>20. /\ blocks'[b].d = Applied(blocks[b].d, Shown(c, b), c)
         /\ \A k \in Block : k # b => blocks'[k].d = blocks[k].d
         /\ Shown(c, b)' = <<>> /\ \A k \in Block : k # b => Shown(c, k)' = Shown(c, k)
    BY <1>0, <1>2, <1>6, <1>9, <1>10 DEF Shown, InFlight, s, x
  <1>21. Shared
    BY <1>1, <1>4, <1>20, SharedFlush
  <1> QED
    BY <1>19, <1>21 DEF RefStep

-----------------------------------------------------------------------------
(* The refinement.                                                         *)

LEMMA RefInit == Init => RefInv /\ Abstract!Init
  <1> SUFFICES ASSUME Init PROVE RefInv /\ Abstract!Init
    OBVIOUS
  <1>1. versions = 1 /\ \A c \in Client : pc[c] = "idle" /\ sent[c] = 0
    BY DEF Init
  <1>2. CellsInv
    BY CellsInit
  <1>3. ASSUME NEW c \in Client, NEW b \in Block PROVE di[c][b] = NoBlock
    BY DEF Init
  <1>4. ASSUME NEW b \in Block
        PROVE  blocks[b].version \in {0, 1} /\ (blocks[b].version = 0 => blocks[b].d = <<>>)
    BY DEF Init, Absent
  <1>5. KeysRef
    BY <1>1, <1>4 DEF KeysRef
  <1>6. ASSUME NEW c \in Client PROVE ClientRef(c)
    <2>1. pc[c] = "idle" /\ sent[c] <= versions
      BY <1>1
    <2>2. ASSUME NEW b \in Block PROVE BlockRef(c, b)
      <3>1. di[c][b] = NoBlock /\ NoBlock.version = 0
        BY <1>3 DEF NoBlock
      <3>2. blocks[b].version = 0 => blocks[b].d = <<>>
        BY <1>4
      <3>3. Faithful(c, NoBlock, blocks[b])
        BY <3>2, NoBlockFaithful
      <3>4. di[c][b].version <= versions
        BY <1>1, <3>1
      <3> QED
        BY <3>1, <3>3, <3>4 DEF Faithful, BlockRef
    <2>3. AnswerRef(c) /\ HeldRef(c) /\ AloneRef(c) /\ CutAt(c)
      <3>1. ~Truncating(c)
        BY DEF Init, NoRequest, Truncating
      <3> QED
        BY <2>1, <3>1 DEF AnswerRef, HeldRef, AloneRef, CutAt, Cutting, Flushing
    <2> QED
      BY <2>1, <2>2, <2>3 DEF ClientRef
  <1>7. Content \in [Block -> Seq(Value)]
    <2>1. \A b \in Block : blocks[b].d \in Seq(Value)
      BY <1>2 DEF CellsInv, KeysOK, Data
    <2> QED
      BY <2>1 DEF Content
  <1>8. Pending = [c \in Client |-> [b \in Block |-> <<>>]]
    <2>1. \A c \in Client, b \in Block : Shown(c, b) = <<>>
      BY <1>1, <1>3 DEF Shown, InFlight, NoBlock
    <2> QED
      BY <2>1, PendingShown
  <1> QED
    BY <1>5, <1>6, <1>7, <1>8 DEF RefInv, Content, Abstract!Init

\* Each step of a client is one of SharedFile, or none.
LEMMA RefNext ==
  ASSUME Faithfully, FileInv, CellsInv, RefInv, Next
  PROVE  RefStep
  <1>0. WholeTruncates /\ Serial
    BY DEF Faithfully, WholeTruncates
  <1>1. ASSUME NEW c \in Client, NEW off \in Offset,
               \/ BeginRead(c, off) \/ BeginTruncate(c, off) \/ BufferedWrite(c, off)
               \/ \E n \in 1 .. BlockSize, a \in BOOLEAN : BeginWrite(c, off, n, a)
        PROVE  RefStep
    <2> DEFINE r == ret[c]
    <2>1. r \in {ret[c], "done", "truncate"} /\ (ret' = ret => ret' = [ret EXCEPT ![c] = r])
      BY DEF FileInv, Shape
    <2> DEFINE rd == "read"
               wr == "write"
               tr == "truncate"
               none == 0
    <2>0. rd # tr /\ wr # tr
      OBVIOUS
    <2>2. CASE BeginRead(c, off)
      <3> DEFINE no == FALSE
                 zero == 0
      <3>0. no \in BOOLEAN /\ zero \in 0 .. BlockSize
        OBVIOUS
      <3>1. Begin(c, "read", off, zero, no) /\ Goto(c, "block") /\ ret' = ret
        BY <2>2 DEF BeginRead
      <3>3. Begin(c, rd, off, none, no)
        BY <3>1
      <3> HIDE DEF r, zero, no
      <3>2. CellsStep(c)
        BY <2>1, <3>0, <3>1, CellsBegin
      <3> HIDE DEF rd, none
      <3> QED
        BY <1>0, <2>0, <3>0, <3>1, <3>2, <3>3, RefBegin
    <2>3. CASE BeginTruncate(c, off)
      <3>1. Begin(c, "truncate", off, 0, FALSE) /\ Goto(c, "fsync") /\ ret' = [ret EXCEPT ![c] = "truncate"]
        BY <2>3, Zenon DEF BeginTruncate
      <3>2. (\A b \in Block : di[c][b].updates = <<>>) /\ \A x \in Client \ {c} : Unaffected(x, off)
        BY <1>0, <2>3, TruncateAlone
      <3>3. CellsStep(c)
        <4> DEFINE n == 0
                   t == "truncate"
        <4>1. n \in 0 .. BlockSize /\ t \in {ret[c], "done", "truncate"} /\ t # "cut"
          OBVIOUS
        <4>2. Begin(c, "truncate", off, n, FALSE) /\ ret' = [ret EXCEPT ![c] = t]
          BY <3>1
        <4> HIDE DEF n, t
        <4> QED
          BY <3>1, <3>2, <4>1, <4>2, CellsBegin
      <3>4. Begin(c, tr, off, none, FALSE)
        BY <3>1
      <3> HIDE DEF tr, none
      <3> QED
        BY <1>0, <3>1, <3>2, <3>3, <3>4, RefBegin
    <2>4. CASE BufferedWrite(c, off)
      BY <1>0, <2>4, RefBuffered
    <2>5. ASSUME NEW n \in 1 .. BlockSize, NEW a \in BOOLEAN, BeginWrite(c, off, n, a) PROVE RefStep
      <3>1. Begin(c, "write", off, n, a) /\ Goto(c, "block") /\ ret' = ret
        BY <2>5 DEF BeginWrite
      <3>2. n \in 0 .. BlockSize /\ n > 0
        OBVIOUS
      <3> HIDE DEF r
      <3>3. CellsStep(c)
        BY <2>1, <3>1, <3>2, CellsBegin
      <3>4. Begin(c, wr, off, n, a)
        BY <3>1
      <3> HIDE DEF wr
      <3> QED
        BY <1>0, <2>0, <3>1, <3>3, <3>4, RefBegin
    <2> QED
      BY <1>1, <2>2, <2>3, <2>4, <2>5
  <1>2. ASSUME NEW c \in Client, NEW a \in BOOLEAN, BeginFsync(c, a) PROVE RefStep
    <2>1. 0 \in Offset
      <3>1. BlockSize * NBlocks \in Nat /\ BlockSize * NBlocks >= 1
        OBVIOUS
      <3> QED
        BY <3>1 DEF Offset, FileSize
    <2>2. Begin(c, "fsync", 0, 0, a) /\ Goto(c, "fsync") /\ ret' = [ret EXCEPT ![c] = "done"]
      BY <1>2, Zenon DEF BeginFsync
    <2> DEFINE n == 0
               off == 0
               t == "done"
               op == "fsync"
    <2>3. n \in 0 .. BlockSize /\ off \in Offset /\ t \in {ret[c], "done", "truncate"} /\ t # "cut"
          /\ op # "truncate"
      BY <2>1
    <2>4. Begin(c, "fsync", off, n, a) /\ Begin(c, op, off, n, a) /\ ret' = [ret EXCEPT ![c] = t]
      BY <2>2
    <2> HIDE DEF n, off, t, op
    <2>5. CellsStep(c)
      BY <2>2, <2>3, <2>4, CellsBegin
    <2> QED
      BY <1>0, <2>2, <2>3, <2>4, <2>5, RefBegin
  <1>3. ASSUME NEW c \in Client, GetDataGone(c) \/ PutDataFails(c) PROVE RefStep
    <2>1. /\ pc[c] \in {"putdata", "getdata"} /\ PutDataReturns(c, "eio")
          /\ UNCHANGED <<di, req, detached>> /\ SameKeys
      BY <1>3 DEF GetDataGone, PutDataFails, store, SameKeys
    <2>2. ret[c] # "cut"
      BY <1>0, <1>3, <2>1, CutsSucceed DEF PutDataFails, Cutting
    <2> QED
      BY <2>1, <2>2, RefPutDataFails
  <1>4. ASSUME NEW c \in Client, TruncateDone(c) \/ RwFails(c) PROVE RefStep
    <2>1. /\ pc[c] \in {"delete", "block"} /\ UNCHANGED <<di, mdi, req, current, detached>> /\ SameKeys
          /\ \/ Goto(c, "idle") /\ ret' = ret
             \/ pc[c] = "block" /\ Goto(c, "fsync") /\ ret' = [ret EXCEPT ![c] = "done"]
      BY <1>4 DEF TruncateDone, RwFails, Done, caches, locals, store, SameKeys
    <2>2. CellsStep(c)
      BY <2>1, CellsEnd
    <2> QED
      BY <2>1, <2>2, RefEnd
  <1> QED
    BY <1>0, <1>1, <1>2, <1>3, <1>4, RefRead, RefWrite, RefAgain, RefFsync, RefPutMd,
       RefPutMdMismatch, RefPutData, RefPutDataMismatch, RefGetData, RefStored,
       RefTruncateMd, RefTruncateMdMismatch, RefCut, RefDeleteBlock,
       RefExpireMd, RefExpireBlock, RefPutMdFails, RefCrash
    DEF Next

LEMMA RefIdle ==
  ASSUME RefInv, UNCHANGED vars
  PROVE  RefStep
  <1>1. UNCHANGED <<blocks, versions, sent, di, pc, req, ret, current>>
    BY DEF vars, store, caches, locals
  <1>2. \A c \in Client : \A b \in Block : (CutBlock(c, b)' <=> CutBlock(c, b)) /\ (InFlight(c, b)' <=> InFlight(c, b))
    BY <1>1 DEF CutBlock, InFlight
  <1>3. ASSUME NEW c \in Client PROVE ClientRef(c)'
    <2>1. ClientRef(c)
      BY DEF RefInv
    <2>2. ASSUME NEW b \in Block PROVE BlockRef(c, b)'
      <3>1. BlockRef(c, b)
        BY <2>1 DEF ClientRef
      <3> QED
        BY <1>1, <1>2, <3>1 DEF BlockRef
    <2>3. AnswerRef(c)' /\ HeldRef(c)' /\ AloneRef(c)' /\ CutAt(c)'
      BY <1>1, <2>1 DEF ClientRef, AnswerRef, HeldRef, AloneRef, CutAt, Cutting, Truncating
    <2>4. sent'[c] <= versions'
      BY <1>1, <2>1 DEF ClientRef
    <2> QED
      BY <2>2, <2>3, <2>4 DEF ClientRef
  <1>4. KeysRef'
    BY <1>1 DEF RefInv, KeysRef
  <1>5. Content' = Content /\ Pending' = Pending
    BY <1>1 DEF Content, Pending
  <1> QED
    BY <1>3, <1>4, <1>5 DEF RefInv, RefStep, Shared

\* The flushes implement SharedFile: the Put that stores a block applies the
\* updates of its client to the block as it is stored at that moment, whatever
\* other clients have stored since it was read, and no other step of hflat_read,
\* hflat_write, hflat_fsync, hflat_truncate, of the expiry of a cache or of a crash
\* changes what is stored, but for the deletions of a truncate.  Truncates
\* neither share the file nor fail halfway, no second thread writes while its
\* client flushes, no descriptor with O_APPEND is used over other writes that are
\* not stored, and a deleted block is not stored again while another client still
\* has it cached.
THEOREM SharedFileImplemented ==
  ASSUME Faithfully
  PROVE  Spec => ImplementsSharedFile
  <1>0. WholeTruncates /\ Serial
    BY DEF Faithfully, WholeTruncates
  <1>1. Init => FileInv /\ CellsInv /\ RefInv
    BY InitHolds, CellsInit, RefInit
  <1>2. FileInv /\ CellsInv /\ RefInv /\ [Next]_vars => FileInv' /\ CellsInv' /\ RefInv'
    BY <1>0, FileStep, CellsInductive, RefNext, RefIdle DEF RefStep
  <1>3. Init => Abstract!Init
    BY RefInit
  <1>4. FileInv /\ CellsInv /\ RefInv /\ [Next]_vars => [Abstract!Next]_(Abstract!vars)
    <2> SUFFICES ASSUME FileInv, CellsInv, RefInv, [Next]_vars PROVE [Abstract!Next]_(Abstract!vars)
      OBVIOUS
    <2>1. Shared
      BY RefNext, RefIdle DEF RefStep
    <2>2. UNCHANGED <<Content, Pending>> => UNCHANGED Abstract!vars
      BY DEF Content, Abstract!vars
    <2> QED
      BY <2>1, <2>2 DEF Shared
  <1> QED
    BY <1>1, <1>2, <1>3, <1>4, PTL DEF Spec, ImplementsSharedFile, Abstract!Spec
=============================================================================
