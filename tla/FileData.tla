------------------------------ MODULE FileData ------------------------------
(***************************************************************************)
(* The data blocks of one file and the clients that write it: hflat_write, *)
(* hflat_read, hflat_fsync (also called by release and getattr) and        *)
(* hflat_truncate, with the blocks and the metadata that each client has   *)
(* cached.  A write is collected in the cached block and stored later,     *)
(* with the version that was read; when another client has stored the      *)
(* block since, put_data merges and tries again.                           *)
(*                                                                         *)
(* A cell stands for a range of bytes, its value is the client that wrote  *)
(* it.  Of the metadata only the size is kept.  Each step has at most one  *)
(* request to the drives; a client serves one request of the user at a     *)
(* time, except that another thread may write to a cached block.           *)
(***************************************************************************)
EXTENDS Naturals, Sequences, SequencesExt

CONSTANTS
    Client,
    Appenders,      \* clients that also have a descriptor with O_APPEND
    BlockSize,      \* cells in a block
    NBlocks,        \* blocks that are written
    InitSize,       \* size of the file at the start
    Full,           \* posix_mode FULL?
    Threads,        \* may a second thread write while a request is served?
    Avoid,          \* sequences of requests that are left out, see Avoided
    MaxOps,         \* bound: requests of all clients
    MaxFaults       \* bound: crashes and failing requests

ASSUME SizeAssumption ==
    /\ BlockSize \in Nat \ {0} /\ NBlocks \in Nat \ {0}
    /\ InitSize \in 0 .. BlockSize
ASSUME ModeAssumption ==
    /\ Appenders \subseteq Client
    /\ Full \in BOOLEAN /\ Threads \in BOOLEAN
    /\ Avoid \subseteq {"shared truncate", "unflushed truncate", "truncate fails",
                        "write during flush", "size not stored", "block again",
                        "append over writes"}
    /\ MaxOps \in Nat /\ MaxFaults \in Nat

Zero == "zero"
Old == "old"
ASSUME ValueAssumption == Zero \notin Client /\ Old \notin Client

\* The last block is only named by a truncate of a full file.
Block == 0 .. NBlocks
FileSize == BlockSize * NBlocks
Offset == 0 .. FileSize - 1
Value == Client \cup {Zero, Old}
Data == UNION {[1 .. n -> Value] : n \in 0 .. BlockSize}
Update == (0 .. BlockSize) \X (0 .. BlockSize)

NoBlock == [version |-> 0, d |-> <<>>, updates |-> <<>>, cached |-> FALSE]
NoMd == [size |-> 0, version |-> 0, dirty |-> NBlocks, cached |-> FALSE]
Absent == [version |-> 0, d |-> <<>>]
NoRequest == [op |-> "none", off |-> 0, len |-> 0, append |-> FALSE]

VARIABLES
    md,         \* the metadata key: size and version
    blocks,     \* the data keys
    versions,   \* versions generated so far
    mdi,        \* MetadataInfo in the lookup cache of each client
    di,         \* DataInfo of each block in the data cache of each client
    pc,         \* where each client is
    req,        \* the request it serves
    ret,        \* where hflat_fsync or put_data returns to
    current,    \* block that put_data stores or truncate has reached
    sent,       \* version that put_data has sent
    last,       \* last block that truncate deletes
    detached,   \* has the MetadataInfo of the request left the cache?
    ops, faults,
    owed,       \* history: cells that each client has written and not stored,
                \* without those of appends that returned an error
    appended    \* history: clients whose append at an offset returned

store == <<md, blocks, versions>>
caches == <<mdi, di>>
locals == <<req, ret, current, sent, last, detached>>
history == <<owed, appended>>
vars == <<store, caches, pc, locals, ops, faults, history>>

Init ==
    /\ md = [size |-> InitSize, version |-> 1]
    /\ blocks = [b \in Block |-> IF b = 0 /\ InitSize > 0
                                 THEN [version |-> 1, d |-> [i \in 1 .. InitSize |-> Old]]
                                 ELSE Absent]
    /\ versions = 1
    /\ mdi = [c \in Client |-> NoMd]
    /\ di = [c \in Client |-> [b \in Block |-> NoBlock]]
    /\ pc = [c \in Client |-> "idle"]
    /\ req = [c \in Client |-> NoRequest]
    /\ ret = [c \in Client |-> "none"]
    /\ current = [c \in Client |-> 0]
    /\ sent = [c \in Client |-> 0]
    /\ last = [c \in Client |-> 0]
    /\ detached = [c \in Client |-> FALSE]
    /\ ops = 0 /\ faults = 0
    /\ owed = [c \in Client |-> {}]
    /\ appended = [o \in Offset |-> {}]

-----------------------------------------------------------------------------
(* DataInfo.                                                               *)

Larger(a, b) == IF a > b THEN a ELSE b
Smaller(a, b) == IF a < b THEN a ELSE b

\* std::string::resize
Resize(s, n) == [i \in 1 .. n |-> IF i <= Len(s) THEN s[i] ELSE Zero]

\* std::string::replace of n cells at off by the same cells of d.
Replace(s, off, n, d) == [i \in 1 .. Len(s) |-> IF off < i /\ i <= off + n THEN d[i] ELSE s[i]]

\* An update is made again on s, with the cells of d.
Redo(s, u, d) == IF u[2] > 0 THEN Replace(s, u[1], u[2], d) ELSE Resize(s, u[1])

\* Mutant of MergeDataChanges: the cells of the last update only.
MergeLast(x, fresh) ==
    Redo(Resize(fresh, Larger(Len(fresh), Len(x.d))), Last(x.updates), x.d)

\* The updates are made again on what is stored, in their order.
MergeDataChanges(x, fresh) ==
    LET loop[k \in Nat] == IF k = 0 THEN Resize(fresh, Larger(Len(fresh), Len(x.d)))
                           ELSE Redo(loop[k - 1], x.updates[k], x.d)
    IN  loop[Len(x.updates)]

\* Mutant of UpdateData: the data is not made longer.
UpdateDataShort(x, off, n, v) ==
    [x EXCEPT !.d = [i \in 1 .. Len(@) |-> IF off < i /\ i <= off + n THEN v ELSE @[i]],
              !.updates = Append(@, <<off, n>>)]

UpdateData(x, off, n, v) ==
    [x EXCEPT !.d = [i \in 1 .. Larger(Len(@), off + n) |->
                        IF off < i /\ i <= off + n THEN v
                        ELSE IF i <= Len(@) THEN @[i] ELSE Zero],
              !.updates = Append(@, <<off, n>>)]

Truncate(x, off) == [x EXCEPT !.d = Resize(@, off), !.updates = Append(@, <<off, 0>>)]

HasUpdates(x) == x.updates # <<>>

\* get_data: a missing key gives an empty block without version.
Fetched(b) == [version |-> blocks[b].version, d |-> blocks[b].d,
               updates |-> <<>>, cached |-> TRUE]
EmptyBlock == [NoBlock EXCEPT !.cached = TRUE]

Covers(u, i) == u[1] <= i /\ i < u[1] + u[2]
BlockOf(o) == o \div BlockSize
InBlock(o) == o % BlockSize
CellsOf(b) == {o \in Offset : BlockOf(o) = b}

-----------------------------------------------------------------------------
(* Around the requests.                                                    *)

\* Does the descriptor of the request (fi) have O_APPEND?  truncate and getattr
\* pass none.
Appending(c) == req[c].append
Goto(c, label) == pc' = [pc EXCEPT ![c] = label]

\* lookup: the cached metadata, or a Get.
LookedUp(c) ==
    IF mdi[c].cached THEN mdi[c]
    ELSE [size |-> md.size, version |-> md.version, dirty |-> NBlocks, cached |-> TRUE]

\* The block that getDirtyData refers to has updates.  (A reference to a block
\* without updates is as good as none.)
Dirty(c) == mdi[c].cached /\ HasUpdates(di[c][mdi[c].dirty])

\* Mutant of InBlockSize: a write goes past the end of its block.
InBlockSizeWhole(off, n) == n

\* inblocksize: a write ends with its block, the caller repeats the rest.
InBlockSize(off, n) == Smaller(n, BlockSize - InBlock(off))

\* The size that do_rw returns.
Size(c) == InBlockSize(req[c].off, req[c].len)

Truncating(c) == req[c].op = "truncate" /\ pc[c] # "idle"

\* What can be left out:
\*   "shared truncate"     other requests on the range while a truncate is at work
\*   "unflushed truncate"  a truncate by a client with unflushed blocks
\*   "truncate fails"      a crash or an error after truncate has put the size
\*   "write during flush"  another thread writes while its client flushes
\*   "size not stored"     the Put of the size fails, and the data is stored
\*   "block again"         a block that was deleted is stored again, while another
\*                         client has it cached as it was before
\*   "append over writes"  a descriptor with O_APPEND is used while its client has
\*                         written cells, by another one, that are not stored
Avoided(what, condition) == what \in Avoid => ~condition

\* A request is over.
Done(c) == Goto(c, "idle")

\* A write has returned.
WriteReturns(c) ==
    /\ Done(c)
    /\ appended' = IF Appending(c)
                   THEN [appended EXCEPT ![req[c].off] = @ \cup {c}]
                   ELSE appended

-----------------------------------------------------------------------------
(* hflat_read and hflat_write.                                             *)

\* A request begins with lookup; a: does its descriptor have O_APPEND?
Begin(c, op, off, n, a) ==
    LET m == LookedUp(c) IN
    /\ pc[c] = "idle" /\ ops < MaxOps
    /\ a => c \in Appenders
    /\ Avoided("append over writes", a /\ owed[c] # {})
    /\ Avoided("shared truncate", \E x \in Client : Truncating(x))
    /\ ops' = ops + 1
    /\ mdi' = [mdi EXCEPT ![c] = m]
    /\ req' = [req EXCEPT ![c] = [op |-> op, off |-> off, len |-> n, append |-> a]]
    /\ detached' = [detached EXCEPT ![c] = FALSE]
    /\ UNCHANGED <<store, di, current, sent, last, faults, history>>

BeginRead(c, off) ==
    /\ Begin(c, "read", off, 0, FALSE)
    /\ Goto(c, "block") /\ UNCHANGED ret

\* The kernel takes the offset of an append from the size that getattr gave it.
BeginWrite(c, off, n, a) ==
    /\ Begin(c, "write", off, n, a)
    /\ a => off = LookedUp(c).size
    /\ Goto(c, "block") /\ UNCHANGED ret

\* fsync, and the fsync of release and getattr.
BeginFsync(c, a) ==
    /\ Begin(c, "fsync", 0, 0, a)
    /\ Goto(c, "fsync") /\ ret' = [ret EXCEPT ![c] = "done"]

\* Client c has nothing in hand or cached that a truncate to off changes, except
\* for blocks that are deleted and that it has not written to.
Unaffected(c, off) ==
    /\ pc[c] = "idle" /\ ~mdi[c].cached
    /\ \A b \in Block : di[c][b].cached => b > BlockOf(off) /\ ~HasUpdates(di[c][b])

\* hflat_truncate begins with lookup and fsync.
BeginTruncate(c, off) ==
    /\ Begin(c, "truncate", off, 0, FALSE)
    /\ Avoided("shared truncate", \E x \in Client \ {c} : ~Unaffected(x, off))
    /\ Avoided("unflushed truncate", \E b \in Block : HasUpdates(di[c][b]))
    /\ Goto(c, "fsync") /\ ret' = [ret EXCEPT ![c] = "truncate"]

\* The end of hflat_write: flush now or leave it for later.
Written(c) ==
    IF Appending(c) \/ (req[c].off + Size(c)) % BlockSize = 0
    THEN /\ Goto(c, "fsync") /\ ret' = [ret EXCEPT ![c] = "written"]
         /\ UNCHANGED appended
    ELSE WriteReturns(c) /\ UNCHANGED ret

RequestCells(c) == req[c].off .. req[c].off + Size(c) - 1

\* An append takes its cells back or returns an error: it owes them no more.
AppendFails(c) ==
    owed' = [owed EXCEPT ![c] = IF Appending(c) THEN @ \ RequestCells(c) ELSE @]

\* setDirtyData on the MetadataInfo of the request, which may have left the
\* cache; false when it refers to another block with updates.
MaySetDirty(c, b) == ~Dirty(c) \/ mdi[c].dirty = b
SetDirty(c, b) == mdi' = IF detached[c] THEN mdi ELSE [mdi EXCEPT ![c].dirty = b]

\* do_rw of a block that is cached, or read unless the file is growing; what the
\* caller asked for may go beyond the block.
Growing(c) == req[c].op = "write" /\ req[c].off + req[c].len > mdi[c].size
RwBlock(c) ==
    LET b == BlockOf(req[c].off) IN
    IF di[c][b].cached THEN di[c][b] ELSE IF Growing(c) THEN EmptyBlock ELSE Fetched(b)

DoRead(c) ==
    /\ pc[c] = "block" /\ req[c].op = "read"
    /\ di' = [di EXCEPT ![c][BlockOf(req[c].off)] = RwBlock(c)]
    /\ Done(c)
    /\ UNCHANGED <<store, mdi, locals, ops, faults, history>>

DoWrite(c) ==
    LET b == BlockOf(req[c].off) IN
    /\ pc[c] = "block" /\ req[c].op = "write"
    /\ di' = [di EXCEPT ![c][b] = UpdateData(RwBlock(c), InBlock(req[c].off), Size(c), c)]
    /\ \/ /\ MaySetDirty(c, b)
          /\ SetDirty(c, b) /\ Written(c)
       \/ /\ ~MaySetDirty(c, b)
          /\ Goto(c, "fsync") /\ ret' = [ret EXCEPT ![c] = "setdirty"]
          /\ UNCHANGED <<mdi, appended>>
    /\ owed' = [owed EXCEPT ![c] = @ \cup RequestCells(c)]
    /\ UNCHANGED <<store, req, current, sent, last, detached, ops, faults>>

\* Another thread of the client writes to a cached block.
BufferedWrite(c, off) ==
    LET b == BlockOf(off) IN
    /\ Threads /\ pc[c] \notin {"idle", "block"} /\ ops < MaxOps
    /\ mdi[c].cached /\ di[c][b].cached /\ MaySetDirty(c, b) /\ ~detached[c]
    /\ (off + 1) % BlockSize # 0
    /\ Avoided("append over writes", Appending(c))
    /\ Avoided("shared truncate", Truncating(c))
    /\ Avoided("write during flush", pc[c] \in {"putmd", "putdata", "getdata", "stored"})
    /\ ops' = ops + 1
    /\ di' = [di EXCEPT ![c][b] = UpdateData(@, InBlock(off), 1, c)]
    /\ mdi' = [mdi EXCEPT ![c].dirty = b]
    /\ owed' = [owed EXCEPT ![c] = @ \cup {off}]
    /\ UNCHANGED <<store, pc, locals, faults, appended>>

-----------------------------------------------------------------------------
(* hflat_fsync.                                                            *)

\* hflat_fsync returns to its caller, with m as the cached metadata.
FsyncReturns(c, err, m) ==
    \/ /\ ret[c] = "done" \/ (err # "ok" /\ ret[c] \in {"setdirty", "truncate"})
                        \/ (err = "eio" /\ ret[c] = "written")
       /\ Done(c) /\ mdi' = [mdi EXCEPT ![c] = m] /\ UNCHANGED <<ret, appended>>
    \/ /\ ret[c] = "setdirty" /\ err = "ok"
       /\ mdi' = [mdi EXCEPT ![c] = IF detached[c] THEN m
                                    ELSE [m EXCEPT !.dirty = BlockOf(req[c].off)]]
       /\ Written(c)
    \/ /\ ret[c] = "written" /\ err = "ok"
       /\ WriteReturns(c) /\ mdi' = [mdi EXCEPT ![c] = m] /\ UNCHANGED ret
    \/ /\ ret[c] = "written" /\ err = "again"
       /\ Goto(c, "again") /\ mdi' = [mdi EXCEPT ![c] = m] /\ UNCHANGED <<ret, appended>>
    \/ /\ ret[c] = "truncate" /\ err = "ok"
       /\ Goto(c, "truncate") /\ mdi' = [mdi EXCEPT ![c] = m] /\ UNCHANGED <<ret, appended>>

\* Mutant of NewSize: the blocks before are not counted.
NewSizeOfBlock(c, b, size) == Larger(Len(di[c][b].d), size)

NewSize(c, b, size) == Larger(b * BlockSize + Len(di[c][b].d), size)

\* lookup, and what there is to flush: the metadata first if the file grows.
Fsync(c) ==
    LET m == LookedUp(c)
        b == mdi[c].dirty
        newsize == NewSize(c, b, m.size)
        putmd == m.size < newsize \/ Full
    IN  /\ pc[c] = "fsync"
        /\ \/ ~Dirty(c) /\ FsyncReturns(c, "ok", m) /\ UNCHANGED current
           \/ /\ Dirty(c)
              /\ mdi' = [mdi EXCEPT ![c].size = newsize]
              /\ current' = [current EXCEPT ![c] = b]
              /\ Goto(c, IF putmd THEN "putmd" ELSE "putdata")
              /\ UNCHANGED <<ret, appended>>
        /\ UNCHANGED <<store, di, req, sent, last, detached, ops, faults, owed>>

\* put_metadata: on a mismatch the metadata leaves the cache.
PutMetadata(size) ==
    /\ versions' = versions + 1
    /\ md' = [size |-> size, version |-> versions + 1]
    /\ UNCHANGED blocks

PutMd(c) ==
    /\ pc[c] = "putmd" /\ md.version = mdi[c].version
    /\ PutMetadata(mdi[c].size)
    /\ mdi' = [mdi EXCEPT ![c].version = versions + 1]
    /\ Goto(c, "putdata")
    /\ UNCHANGED <<di, locals, ops, faults, history>>

\* Another client has changed the metadata: fsync begins again, with O_APPEND
\* the block is dropped and the write begins again.
PutMdMismatch(c) ==
    /\ pc[c] = "putmd" /\ md.version # mdi[c].version
    /\ detached' = [detached EXCEPT ![c] = TRUE]
    /\ IF Appending(c)
       THEN /\ di' = [di EXCEPT ![c][current[c]] = NoBlock]
            /\ FsyncReturns(c, "again", NoMd)
            /\ AppendFails(c)
       ELSE /\ mdi' = [mdi EXCEPT ![c] = NoMd]
            /\ Goto(c, "fsync")
            /\ UNCHANGED <<di, ret, history>>
    /\ UNCHANGED <<store, req, current, sent, last, ops, faults>>

\* hflat_write or hflat_truncate calls itself after EAGAIN.
Again(c) ==
    /\ pc[c] = "again"
    /\ mdi' = [mdi EXCEPT ![c] = LookedUp(c)]
    /\ detached' = [detached EXCEPT ![c] = FALSE]
    /\ req' = [req EXCEPT ![c].len = Size(c)]
    /\ \/ req[c].op = "write" /\ Goto(c, "block") /\ UNCHANGED ret
       \/ /\ req[c].op = "truncate"
          /\ Goto(c, "fsync") /\ ret' = [ret EXCEPT ![c] = "truncate"]
    /\ UNCHANGED <<store, di, current, sent, last, ops, faults, history>>

-----------------------------------------------------------------------------
(* put_data.                                                               *)

\* put_data returns to hflat_fsync or to hflat_truncate, which ignores err.
PutDataReturns(c, err) ==
    IF ret[c] = "cut"
    THEN /\ Goto(c, "delete") /\ current' = [current EXCEPT ![c] = @ + 1]
         /\ UNCHANGED <<mdi, ret, appended>>
    ELSE FsyncReturns(c, err, mdi[c]) /\ UNCHANGED current

\* The Put is served.
PutData(c) ==
    LET b == current[c] IN
    /\ pc[c] = "putdata" /\ blocks[b].version = di[c][b].version
    /\ Avoided("block again", blocks[b].version = 0 /\ \E x \in Client : di[x][b].version # 0)
    /\ versions' = versions + 1
    /\ blocks' = [blocks EXCEPT ![b] = [version |-> versions + 1, d |-> di[c][b].d]]
    /\ owed' = [owed EXCEPT ![c] = @ \ CellsOf(b)]
    /\ sent' = [sent EXCEPT ![c] = versions + 1]
    /\ Goto(c, "stored")
    /\ UNCHANGED <<md, caches, req, ret, current, last, detached, ops, faults, appended>>

PutDataMismatch(c) ==
    /\ pc[c] = "putdata" /\ blocks[current[c]].version # di[c][current[c]].version
    /\ Goto(c, "getdata")
    /\ UNCHANGED <<store, caches, locals, ops, faults, history>>

\* The Get of the block that another client has stored, and the merge.
GetData(c) ==
    LET b == current[c] IN
    /\ pc[c] = "getdata" /\ blocks[b].version # 0
    /\ di' = [di EXCEPT ![c][b].d = MergeDataChanges(di[c][b], blocks[b].d),
                        ![c][b].version = blocks[b].version]
    /\ Goto(c, "putdata")
    /\ UNCHANGED <<store, mdi, locals, ops, faults, history>>

\* The block is gone: put_data returns EIO.
GetDataGone(c) ==
    /\ pc[c] = "getdata" /\ blocks[current[c]].version = 0
    /\ Avoided("truncate fails", ret[c] = "cut")
    /\ PutDataReturns(c, "eio") /\ AppendFails(c)
    /\ UNCHANGED <<store, di, req, sent, last, detached, ops, faults>>

\* The answer of the Put arrives: forgetUpdates and setKeyVersion.
Stored(c) ==
    LET b == current[c] IN
    /\ pc[c] = "stored"
    /\ di' = [di EXCEPT ![c][b].updates = <<>>, ![c][b].version = sent[c]]
    /\ PutDataReturns(c, "ok")
    /\ UNCHANGED <<store, req, sent, last, detached, ops, faults, owed>>

-----------------------------------------------------------------------------
(* hflat_truncate after its fsync.                                         *)

\* The size is put first.
TruncateMd(c) ==
    LET off == req[c].off IN
    /\ pc[c] = "truncate" /\ ~detached[c] /\ md.version = mdi[c].version
    /\ PutMetadata(off)
    /\ mdi' = [mdi EXCEPT ![c].size = off, ![c].version = versions + 1]
    /\ last' = [last EXCEPT ![c] = BlockOf(mdi[c].size)]
    /\ current' = [current EXCEPT ![c] = IF off < mdi[c].size THEN BlockOf(off) ELSE BlockOf(off) + 1]
    /\ Goto(c, IF off < mdi[c].size THEN "cut" ELSE "delete")
    /\ owed' = [owed EXCEPT ![c] = {o \in @ : o < off}]
    /\ UNCHANGED <<di, req, ret, sent, detached, ops, faults, appended>>

\* The put meets a mismatch; the metadata of a request that has left the cache
\* is an older version.
TruncateMdMismatch(c) ==
    /\ pc[c] = "truncate" /\ (detached[c] \/ md.version # mdi[c].version)
    /\ mdi' = [mdi EXCEPT ![c] = NoMd]
    /\ Goto(c, "again")
    /\ UNCHANGED <<store, di, locals, ops, faults, history>>

\* The last block that stays is shortened.
Cut(c) ==
    LET b == current[c]
        x == IF di[c][b].cached THEN di[c][b] ELSE Fetched(b)
    IN  /\ pc[c] = "cut"
        /\ di' = [di EXCEPT ![c][b] = Truncate(x, InBlock(req[c].off))]
        /\ ret' = [ret EXCEPT ![c] = "cut"]
        /\ Goto(c, "putdata")
        /\ UNCHANGED <<store, mdi, req, current, sent, last, detached, ops, faults, history>>

\* The blocks after it are deleted, whatever their version.
DeleteBlock(c) ==
    /\ pc[c] = "delete" /\ current[c] <= last[c]
    /\ blocks' = [blocks EXCEPT ![current[c]] = Absent]
    /\ di' = [di EXCEPT ![c][current[c]] = NoBlock]
    /\ current' = [current EXCEPT ![c] = @ + 1]
    /\ UNCHANGED <<md, versions, mdi, pc, req, ret, sent, last, detached, ops, faults, history>>

TruncateDone(c) ==
    /\ pc[c] = "delete" /\ current[c] > last[c]
    /\ Done(c)
    /\ UNCHANGED <<store, caches, locals, ops, faults, history>>

-----------------------------------------------------------------------------
(* Expiry, failures and crashes.                                           *)

\* Mutant of ExpireBlock: a block with updates expires.
ExpireBlockDirty(c, b) ==
    /\ pc[c] = "idle" /\ di[c][b].cached
    /\ di' = [di EXCEPT ![c][b] = NoBlock]
    /\ UNCHANGED <<store, mdi, pc, locals, ops, faults, history>>

\* What is not dirty may leave the caches between two requests.
ExpireBlock(c, b) ==
    /\ pc[c] = "idle" /\ di[c][b].cached /\ ~HasUpdates(di[c][b])
    /\ di' = [di EXCEPT ![c][b] = NoBlock]
    /\ UNCHANGED <<store, mdi, pc, locals, ops, faults, history>>

ExpireMd(c) ==
    /\ pc[c] = "idle" /\ mdi[c].cached /\ ~Dirty(c)
    /\ mdi' = [mdi EXCEPT ![c] = NoMd]
    /\ UNCHANGED <<store, di, pc, locals, ops, faults, history>>

\* Truncate has put the size and is at work on the blocks.
Cutting(c) ==
    \/ pc[c] \in {"cut", "delete"}
    \/ ret[c] = "cut" /\ pc[c] \in {"putdata", "getdata", "stored"}

Fault(c) ==
    /\ faults < MaxFaults /\ faults' = faults + 1
    /\ Avoided("truncate fails", Cutting(c))

\* The Get of do_rw fails.  A write hands setDirtyData the empty pointer before
\* it returns the error, and so flushes the block that was dirty.
RwFails(c) ==
    /\ Fault(c) /\ pc[c] = "block"
    /\ ~di[c][BlockOf(req[c].off)].cached /\ ~Growing(c)
    /\ IF req[c].op = "write" /\ Dirty(c)
       THEN Goto(c, "fsync") /\ ret' = [ret EXCEPT ![c] = "done"]
       ELSE Done(c) /\ UNCHANGED ret
    /\ UNCHANGED <<store, caches, req, current, sent, last, detached, ops, history>>

\* The Put of the metadata fails.  An append takes its block back, truncate
\* returns the error, but other flushes go on with the data.
PutMdFails(c) ==
    /\ Fault(c) /\ pc[c] \in {"putmd", "truncate"}
    /\ Avoided("size not stored", pc[c] = "putmd" /\ ~Appending(c))
    /\ detached' = [detached EXCEPT ![c] = TRUE]
    /\ IF pc[c] = "putmd" /\ Appending(c)
       THEN /\ di' = [di EXCEPT ![c][current[c]] = NoBlock]
            /\ FsyncReturns(c, "eio", NoMd)
            /\ AppendFails(c)
       ELSE /\ mdi' = [mdi EXCEPT ![c] = NoMd]
            /\ IF pc[c] = "truncate" THEN Done(c) ELSE Goto(c, "putdata")
            /\ UNCHANGED <<di, ret, history>>
    /\ UNCHANGED <<store, req, current, sent, last, ops>>

\* The drive does not serve a request of put_data.
PutDataFails(c) ==
    /\ Fault(c) /\ pc[c] \in {"putdata", "getdata"}
    /\ PutDataReturns(c, "eio") /\ AppendFails(c)
    /\ UNCHANGED <<store, di, req, sent, last, detached, ops>>

\* The client dies and is mounted again.
Crash(c) ==
    /\ Fault(c)
    /\ mdi' = [mdi EXCEPT ![c] = NoMd]
    /\ di' = [di EXCEPT ![c] = [b \in Block |-> NoBlock]]
    /\ Done(c)
    /\ owed' = [owed EXCEPT ![c] = {}]
    /\ UNCHANGED <<store, locals, ops, appended>>

Next == \E c \in Client :
    \/ \E off \in Offset :
          \/ BeginRead(c, off) \/ BeginTruncate(c, off) \/ BufferedWrite(c, off)
          \/ \E n \in 1 .. BlockSize, a \in BOOLEAN : BeginWrite(c, off, n, a)
    \/ (\E a \in BOOLEAN : BeginFsync(c, a)) \/ DoRead(c) \/ DoWrite(c) \/ Again(c)
    \/ Fsync(c) \/ PutMd(c) \/ PutMdMismatch(c)
    \/ PutData(c) \/ PutDataMismatch(c) \/ GetData(c) \/ GetDataGone(c) \/ Stored(c)
    \/ TruncateMd(c) \/ TruncateMdMismatch(c) \/ Cut(c) \/ DeleteBlock(c) \/ TruncateDone(c)
    \/ ExpireMd(c) \/ (\E b \in Block : ExpireBlock(c, b))
    \/ RwFails(c) \/ PutMdFails(c) \/ PutDataFails(c) \/ Crash(c)

Spec == Init /\ [][Next]_vars

-----------------------------------------------------------------------------
(* Properties.                                                             *)

\* Type invariant of the keys, the caches and the requests in progress.
TypeOK ==
    /\ md \in [size : 0 .. FileSize, version : Nat \ {0}]
    /\ blocks \in [Block -> [version : Nat, d : Data]]
    /\ versions \in Nat \ {0}
    /\ \A c \in Client :
          /\ mdi[c] \in [size : 0 .. FileSize, version : Nat, dirty : Block, cached : BOOLEAN]
          /\ \A b \in Block :
                /\ di[c][b].version \in Nat
                /\ di[c][b].d \in Data
                /\ di[c][b].updates \in Seq(Update)
                /\ di[c][b].cached \in BOOLEAN
          /\ current[c] \in 0 .. NBlocks + 1 /\ last[c] \in Block

\* The updates of a cached block can be made again on what is stored: those
\* that write cells lie inside its data, so std::string::replace in
\* mergeDataChanges does not throw.
UpdatesInRange ==
    \A c \in Client, b \in Block : \A k \in 1 .. Len(di[c][b].updates) :
        LET u == di[c][b].updates[k] IN u[2] > 0 => u[1] + u[2] <= Len(di[c][b].d)

\* What a client has written and not stored stays in its data cache, as updates
\* of a cached block: an expiry, a failure, a mismatch or a repeated merge drops
\* none of it.  An append that is taken back does when it meets such writes, which
\* is what "append over writes" is about.  (Whether fsync still finds that block is another
\* question, see FsyncFlushes of LookupCache.)
WritesNotDropped ==
    \A c \in Client : \A o \in owed[c] :
        \E k \in 1 .. Len(di[c][BlockOf(o)].updates) :
            Covers(di[c][BlockOf(o)].updates[k], InBlock(o))

\* The stored size covers the stored blocks, since the metadata is put before
\* the data: no reader misses cells that a flush has stored.
SizeCoversData ==
    (\A c \in Client : ~Truncating(c))
    => \A b \in Block : blocks[b].d # <<>> => b * BlockSize + Len(blocks[b].d) <= md.size

\* "O_APPEND -> can't allow non-serialized data changes": no two appends that
\* returned were stored at the same offset.
AppendsKept == \A o \in Offset, c, x \in Client : {c, x} \subseteq appended[o] => c = x

\* What the only client of a file reads in a cached block.
ReadsSeeFile ==
    \A c \in Client, b \in Block :
        pc[c] = "idle" /\ di[c][b].cached =>
            \A i \in 1 .. Len(blocks[b].d) :
                ~(\E k \in 1 .. Len(di[c][b].updates) : Covers(di[c][b].updates[k], i - 1))
                => i <= Len(di[c][b].d) /\ di[c][b].d[i] = blocks[b].d[i]

\* The refinement mapping: the updates of a cached block are what its client has
\* pending, until put_data has stored them.
Pending == [c \in Client |-> [b \in Block |->
               IF pc[c] = "stored" /\ b = current[c] THEN <<>> ELSE di[c][b].updates]]
Abstract == INSTANCE SharedFile WITH
                content <- [b \in Block |-> blocks[b].d], pending <- Pending

\* The promise of SharedFile: a flush applies the changes of its client to the
\* block as it is stored, so no client undoes what another one has flushed.
ImplementsSharedFile == Abstract!Spec
=============================================================================
